------------------------- MODULE PacketStreamProofs -------------------------
(***************************************************************************)
(* Theorems about PacketStream for every set of sources, all event lengths *)
(* and payload sizes, and whatever the path does to the packets.           *)
(***************************************************************************)
EXTENDS PacketStream, SumLemmas, SequenceTheorems

-----------------------------------------------------------------------------
(* Ticks in their order.                                                   *)

\* A set of naturals that is not empty has a least element.
LEMMA LeastExists ==
  ASSUME NEW T \in SUBSET Nat, T # {}
  PROVE  \E m \in T : \A n \in T : m <= n
<1> DEFINE Below == {0 .. n : n \in T}
           R == StrictSubsetOrdering(Nat)
<1>1. Below \subseteq FiniteSubsetsOf(Nat)
  <2> SUFFICES ASSUME NEW n \in T PROVE 0 .. n \in FiniteSubsetsOf(Nat)
    OBVIOUS
  <2>1. IsFiniteSet(0 .. n)
    BY FS_Interval
  <2>2. 0 .. n \in SUBSET Nat
    OBVIOUS
  <2> QED BY <2>1, <2>2 DEF FiniteSubsetsOf
<1>2. IsWellFoundedOn(R, FiniteSubsetsOf(Nat))
  BY FS_StrictSubsetOrderingWellFounded
<1>3. Below # {}
  OBVIOUS
<1>4. \E x \in Below : \A y \in Below : ~(<<y, x>> \in R)
  <2> HIDE DEF Below, R
  <2> QED BY <1>1, <1>2, <1>3, WFMin
<1>5. PICK m \in T : \A y \in Below : ~(<<y, 0 .. m>> \in R)
  BY <1>4
<1>6. ASSUME NEW n \in T PROVE m <= n
  <2> SUFFICES ASSUME n < m PROVE FALSE
    OBVIOUS
  <2>1. m \in Nat /\ n \in Nat
    OBVIOUS
  <2>2. 0 .. n \subseteq 0 .. m /\ m \in 0 .. m /\ m \notin 0 .. n
    BY <2>1
  <2>3. 0 .. n \in SUBSET Nat /\ 0 .. m \in SUBSET Nat
    OBVIOUS
  <2>4. <<0 .. n, 0 .. m>> \in R
    BY <2>2, <2>3, Zenon DEF StrictSubsetOrdering
  <2> QED BY <1>5, <2>4
<1> QED BY <1>6

LEMMA LeastIsLeast ==
  ASSUME NEW T \in SUBSET Nat, T # {}
  PROVE  /\ Least(T) \in T
         /\ \A n \in T : Least(T) <= n
BY LeastExists, Zenon DEF Least

\* NextTick leaves no tick out.
LEMMA NextTickSkipsNone ==
  ASSUME NEW t \in Nat
  PROVE  /\ NextTick(t) \in Nat
         /\ \A u \in Ticks : u < NextTick(t) <=> u <= t
<1>0. Ticks \subseteq Nat
  BY ChannelAssumption
<1>1. CASE \E u \in Ticks : u > t
  <2> DEFINE T == {u \in Ticks : u > t}
  <2>1. T \in SUBSET Nat /\ T # {}
    BY <1>0, <1>1
  <2>2. NextTick(t) = Least(T)
    BY <1>1 DEF NextTick
  <2>3. Least(T) \in T /\ \A n \in T : Least(T) <= n
    BY <2>1, LeastIsLeast
  <2> DEFINE m == NextTick(t)
  <2>4. m \in T /\ \A n \in T : m <= n
    BY <2>2, <2>3
  <2>5. m \in Nat /\ m > t
    BY <2>4, <1>0
  <2> HIDE DEF m
  <2>6. ASSUME NEW u \in Ticks PROVE u < m <=> u <= t
    <3>1. u \in Nat
      BY <1>0
    <3>2. u > t => m <= u
      BY <2>4
    <3> QED BY <2>5, <3>1, <3>2
  <2> QED BY <2>5, <2>6 DEF m
<1>2. CASE ~ \E u \in Ticks : u > t
  <2>1. NextTick(t) = 1 + t
    BY <1>2 DEF NextTick
  <2> QED BY <1>0, <1>2, <2>1
<1> QED BY <1>1, <1>2

-----------------------------------------------------------------------------
(* What is on the way.                                                     *)

\* The elements of a concatenation.
LEMMA ConcatAt ==
  ASSUME NEW S, NEW x \in Seq(S), NEW y \in Seq(S),
         NEW a \in Nat, NEW b \in Nat, Len(x) = a, Len(y) = b
  PROVE  /\ x \o y \in Seq(S)
         /\ Len(x \o y) = a + b
         /\ \A j \in 1 .. a : (x \o y)[j] = x[j]
         /\ \A j \in 1 .. b : (x \o y)[a + j] = y[j]
<1>1. x \o y \in Seq(S) /\ Len(x \o y) = a + b
  OBVIOUS
<1>2. ASSUME NEW j \in 1 .. a PROVE (x \o y)[j] = x[j]
  OBVIOUS
<1>3. ASSUME NEW j \in 1 .. b PROVE (x \o y)[a + j] = y[j]
  OBVIOUS
<1> QED BY <1>1, <1>2, <1>3

\* The packets before the one removed keep their place, those behind it move up.
LEMMA RemoveAtKeeps ==
  ASSUME NEW S, NEW s \in Seq(S), NEW i \in 1 .. Len(s)
  PROVE  /\ RemoveAt(s, i) \in Seq(S)
         /\ Len(RemoveAt(s, i)) = Len(s) - 1
         /\ \A j \in 1 .. Len(s) - 1 :
               RemoveAt(s, i)[j] = IF j < i THEN s[j] ELSE s[j + 1]
<1> SUFFICES ASSUME NEW n \in Nat, n = Len(s)
             PROVE  /\ RemoveAt(s, i) \in Seq(S)
                    /\ Len(RemoveAt(s, i)) = n - 1
                    /\ \A j \in 1 .. n - 1 :
                          RemoveAt(s, i)[j] = IF j < i THEN s[j] ELSE s[j + 1]
  <2>1. Len(s) \in Nat
    OBVIOUS
  <2> QED BY <2>1, Zenon
<1>0. i \in 1 .. n
  OBVIOUS
<1> DEFINE a == i - 1
           b == n - i
           x == SubSeq(s, 1, i - 1)
           y == SubSeq(s, i + 1, n)
<1>1. a \in Nat /\ b \in Nat /\ i = a + 1 /\ n - 1 = a + b
  OBVIOUS
<1>2. x \in Seq(S) /\ Len(x) = a
  OBVIOUS
<1>3. y \in Seq(S) /\ Len(y) = b
  OBVIOUS
<1>4. ASSUME NEW j \in 1 .. a PROVE x[j] = s[j]
  OBVIOUS
<1>5. ASSUME NEW j \in 1 .. b PROVE y[j] = s[(a + 1) + j]
  OBVIOUS
<1>6. RemoveAt(s, i) = x \o y
  BY DEF RemoveAt
<1> HIDE DEF a, b, x, y
<1>7. x \o y \in Seq(S) /\ Len(x \o y) = a + b
  BY <1>1, <1>2, <1>3
<1>8. ASSUME NEW j \in 1 .. a PROVE (x \o y)[j] = s[j]
  <2>1. (x \o y)[j] = x[j]
    BY <1>1, <1>2, <1>3
  <2> QED BY <2>1, <1>4, Zenon
<1>9. ASSUME NEW j \in 1 .. b PROVE (x \o y)[a + j] = s[(a + 1) + j]
  <2>1. (x \o y)[a + j] = y[j]
    BY <1>1, <1>2, <1>3
  <2> QED BY <2>1, <1>5, Zenon
<1>10. ASSUME NEW j \in 1 .. n - 1
       PROVE  (x \o y)[j] = IF j < i THEN s[j] ELSE s[j + 1]
  <2>1. CASE j < i
    <3>1. j \in 1 .. a
      BY <2>1, <1>1
    <3> QED BY <2>1, <3>1, <1>8, Zenon
  <2>2. CASE ~(j < i)
    <3>1. PICK k \in 1 .. b : j = a + k
      <4>1. j - a \in 1 .. b /\ j = a + (j - a)
        BY <2>2, <1>1
      <4> QED BY <4>1
    <3>2. (a + 1) + k = j + 1
      BY <3>1, <1>1
    <3> QED BY <2>2, <3>1, <3>2, <1>9, Zenon
  <2> QED BY <2>1, <2>2
<1> QED BY <1>1, <1>6, <1>7, <1>10, Zenon

\* A sequence with an element put in behind the first a.
LEMMA WithOne ==
  ASSUME NEW S, NEW e \in S, NEW x \in Seq(S), NEW y \in Seq(S),
         NEW a \in Nat, NEW b \in Nat, Len(x) = a, Len(y) = b
  PROVE  /\ x \o <<e>> \o y \in Seq(S)
         /\ Len(x \o <<e>> \o y) = a + b + 1
         /\ \A j \in 1 .. a + b + 1 :
               \/ (x \o <<e>> \o y)[j] = e
               \/ \E k \in 1 .. a : (x \o <<e>> \o y)[j] = x[k]
               \/ \E k \in 1 .. b : (x \o <<e>> \o y)[j] = y[k]
<1> DEFINE w == x \o <<e>>
<1>1. /\ w \in Seq(S) /\ Len(w) = a + 1
      /\ \A j \in 1 .. a : w[j] = x[j]
      /\ w[a + 1] = e
  <2>1. w \in Seq(S) /\ Len(w) = a + 1
    OBVIOUS
  <2>2. \A j \in 1 .. a : w[j] = x[j]
    OBVIOUS
  <2>3. w[a + 1] = e
    OBVIOUS
  <2> QED BY <2>1, <2>2, <2>3
<1> HIDE DEF w
<1>2. w \o y \in Seq(S) /\ Len(w \o y) = (a + 1) + b
  BY <1>1
<1>3. /\ \A j \in 1 .. a + 1 : (w \o y)[j] = w[j]
      /\ \A j \in 1 .. b : (w \o y)[(a + 1) + j] = y[j]
  <2>1. a + 1 \in Nat /\ Len(w) = a + 1
    BY <1>1
  <2>2. \A j \in 1 .. a + 1 : (w \o y)[j] = w[j]
    BY <2>1
  <2>3. \A j \in 1 .. b : (w \o y)[(a + 1) + j] = y[j]
    BY <2>1
  <2> QED BY <2>2, <2>3
<1>4. ASSUME NEW j \in 1 .. a + b + 1
      PROVE  \/ (w \o y)[j] = e
             \/ \E k \in 1 .. a : (w \o y)[j] = x[k]
             \/ \E k \in 1 .. b : (w \o y)[j] = y[k]
  <2>1. CASE j \in 1 .. a
    BY <2>1, <1>1, <1>3
  <2>2. CASE j = a + 1
    BY <2>2, <1>1, <1>3
  <2>3. CASE j > a + 1
    <3>1. PICK k \in 1 .. b : j = (a + 1) + k
      <4>1. j - (a + 1) \in 1 .. b /\ j = (a + 1) + (j - (a + 1))
        BY <2>3
      <4> QED BY <4>1
    <3>2. (w \o y)[(a + 1) + k] = y[k]
      BY <1>3
    <3> QED BY <3>1, <3>2, Zenon
  <2>4. j \in 1 .. a \/ j = a + 1 \/ j > a + 1
    OBVIOUS
  <2> QED BY <2>1, <2>2, <2>3, <2>4, Zenon
<1>5. (a + 1) + b = a + b + 1
  OBVIOUS
<1> QED BY <1>1, <1>2, <1>4, <1>5 DEF w

\* All elements of r are elements of s.
MadeFrom(r, s) == \A j \in 1 .. Len(r) : \E k \in 1 .. Len(s) : r[j] = s[k]

\* Nothing is made up when a packet is doubled.
LEMMA InsertAtKeeps ==
  ASSUME NEW S, NEW s \in Seq(S), NEW i \in 1 .. Len(s)
  PROVE  InsertAt(s, i + 1, s[i]) \in Seq(S) /\ MadeFrom(InsertAt(s, i + 1, s[i]), s)
<1> SUFFICES ASSUME NEW n \in Nat, n = Len(s)
             PROVE  InsertAt(s, i + 1, s[i]) \in Seq(S) /\ MadeFrom(InsertAt(s, i + 1, s[i]), s)
  <2>1. Len(s) \in Nat
    OBVIOUS
  <2> QED BY <2>1, Zenon
<1> DEFINE b == n - i
           x == SubSeq(s, 1, i)
           y == SubSeq(s, i + 1, n)
           z == x \o <<s[i]>> \o y
<1>1. b \in Nat /\ i \in Nat /\ n + 1 = i + b + 1 /\ (i + 1) - 1 = i /\ s[i] \in S
  OBVIOUS
<1>2. x \in Seq(S) /\ Len(x) = i
  OBVIOUS
<1>3. y \in Seq(S) /\ Len(y) = b
  OBVIOUS
<1>4. ASSUME NEW k \in 1 .. i PROVE k \in 1 .. n /\ x[k] = s[k]
  OBVIOUS
<1>5. ASSUME NEW k \in 1 .. b PROVE i + k \in 1 .. n /\ y[k] = s[i + k]
  OBVIOUS
<1>6. InsertAt(s, i + 1, s[i]) = z
  BY <1>1 DEF InsertAt
<1> HIDE DEF b, x, y
<1>7. /\ z \in Seq(S)
      /\ Len(z) = i + b + 1
      /\ \A j \in 1 .. i + b + 1 :
            \/ z[j] = s[i]
            \/ \E k \in 1 .. i : z[j] = x[k]
            \/ \E k \in 1 .. b : z[j] = y[k]
  BY <1>1, <1>2, <1>3, WithOne, SMTT(60)
<1> HIDE DEF z
<1>8. ASSUME NEW j \in 1 .. n + 1
      PROVE  \E k \in 1 .. n : z[j] = s[k]
  <2>1. j \in 1 .. i + b + 1
    BY <1>1
  <2>2. i \in 1 .. n
    OBVIOUS
  <2>3. CASE z[j] = s[i]
    BY <2>2, <2>3, Zenon
  <2>4. CASE \E k \in 1 .. i : z[j] = x[k]
    BY <1>4, <2>4, Zenon
  <2>5. CASE \E k \in 1 .. b : z[j] = y[k]
    BY <1>5, <2>5, Zenon
  <2> QED BY <1>7, <2>1, <2>3, <2>4, <2>5, Zenon
<1>9. Len(z) = n + 1
  BY <1>1, <1>7
<1> QED BY <1>6, <1>7, <1>8, <1>9, Zenon DEF MadeFrom

-----------------------------------------------------------------------------
(* One call of a send function.  P stands for the packets of the call's    *)
(* event that have been sent.                                              *)

Calls == [tick : Nat, localOffset : Nat, remainingBytes : Nat, maxUdpPayload : Nat,
          veryFirstPacket : BOOLEAN, veryLastPacket : BOOLEAN, packetCounter : Nat,
          firstLoop : BOOLEAN, open : BOOLEAN, headers : SUBSET Int]

SentPackets == [src : Sources, tick : Ticks, offset : Nat, bytes : Nat, number : Nat,
                first : BOOLEAN, last : BOOLEAN, intact : BOOLEAN]

Covers(p, b) == p.offset <= b /\ b < p.offset + p.bytes

\* The packets P cut the first k bytes of an event into pieces.
Tiles(P, k) ==
    /\ \A p \in P : p.offset + p.bytes <= k /\ p.intact
    /\ \A p, q \in P : \A b \in Nat : Covers(p, b) /\ Covers(q, b) => p = q
    /\ \A b \in 0 .. k - 1 : \E p \in P : Covers(p, b)

\* A packet without data is all there is of an event without data.
NoneEmpty(P, length) == \A p \in P : p.bytes = 0 => length = 0

\* Where a call stands.
Midway(c, P, length) ==
    /\ c.localOffset + c.remainingBytes = length
    /\ c.maxUdpPayload >= 1
    /\ c.firstLoop => c.veryFirstPacket
    /\ c.veryFirstPacket => c.localOffset = 0 /\ P = {}
    /\ ~c.veryFirstPacket => c.localOffset > 0 \/ length = 0
    /\ c.veryLastPacket => c.remainingBytes = 0 /\ ~c.firstLoop
    /\ \A h \in c.headers : h < c.localOffset
    /\ Tiles(P, c.localOffset)
    /\ NoneEmpty(P, length)

\* Numbers and marks of the packets are those of their places in the event.
Numbered(P, length) ==
    \A p \in P :
        /\ p.number = Cardinality({q \in P : q.offset < p.offset})
        /\ p.first <=> p.offset = 0
        /\ p.last <=> p.offset + p.bytes = length

LEMMA EventLengthType ==
  ASSUME NEW src \in Sources, NEW tick \in Ticks
  PROVE  EventLength[<<src, tick>>] \in Nat
BY ChannelAssumption

LEMMA BytesToWriteBounds ==
  ASSUME NEW c \in Calls, c.maxUdpPayload >= 1
  PROVE  /\ BytesToWrite(c) \in Nat
         /\ BytesToWrite(c) <= c.remainingBytes
         /\ BytesToWrite(c) <= c.maxUdpPayload
         /\ BytesToWrite(c) = 0 => c.remainingBytes = 0
BY DEF BytesToWrite, Calls

\* The locals after a packet has gone out.
LEMMA AfterSendFields ==
  ASSUME NEW c \in Calls, NEW fn, c.maxUdpPayload >= 1
  PROVE  LET d == AfterSend(c, fn)
         IN  /\ d \in Calls
             /\ d.tick = c.tick /\ d.maxUdpPayload = c.maxUdpPayload
             /\ d.firstLoop = FALSE /\ d.veryFirstPacket = FALSE
             /\ d.open = c.open
             /\ d.veryLastPacket = VeryLast(c)
             /\ d.headers = c.headers \cup HeaderOver(c, fn)
             /\ d.packetCounter = IF fn \in OldHeader THEN c.packetCounter + 1
                                                      ELSE c.packetCounter
             /\ d.localOffset = c.localOffset + BytesToWrite(c)
             /\ d.remainingBytes = c.remainingBytes - BytesToWrite(c)
<1> DEFINE d == AfterSend(c, fn)
<1>1. /\ c.localOffset \in Nat /\ c.remainingBytes \in Nat /\ c.packetCounter \in Nat
      /\ c.headers \in SUBSET Int /\ c.veryLastPacket \in BOOLEAN
      /\ BytesToWrite(c) \in Nat /\ BytesToWrite(c) <= c.remainingBytes
  BY BytesToWriteBounds DEF Calls
<1>2. VeryLast(c) \in BOOLEAN
  BY <1>1 DEF VeryLast
<1>3. HeaderOver(c, fn) \in SUBSET Int
  <2>1. HeaderBytes \in Nat
    BY PayloadAssumption
  <2> QED BY <1>1, <2>1 DEF HeaderOver
<1>4. /\ c.localOffset + BytesToWrite(c) \in Nat
      /\ c.remainingBytes - BytesToWrite(c) \in Nat
      /\ (IF fn \in OldHeader THEN c.packetCounter + 1 ELSE c.packetCounter) \in Nat
      /\ c.headers \cup HeaderOver(c, fn) \in SUBSET Int
  BY <1>1, <1>3
<1>5. d = [c EXCEPT !.firstLoop = FALSE, !.veryFirstPacket = FALSE,
              !.veryLastPacket = VeryLast(c), !.headers = c.headers \cup HeaderOver(c, fn),
              !.packetCounter = IF fn \in OldHeader THEN c.packetCounter + 1
                                ELSE c.packetCounter,
              !.localOffset = c.localOffset + BytesToWrite(c),
              !.remainingBytes = c.remainingBytes - BytesToWrite(c)]
  BY DEF AfterSend
<1> HIDE DEF d
<1>6. d \in Calls
  BY <1>2, <1>4, <1>5, Zenon DEF Calls
<1>7. c \in Calls
  OBVIOUS
<1>8. /\ d.tick = c.tick /\ d.maxUdpPayload = c.maxUdpPayload
      /\ d.firstLoop = FALSE /\ d.veryFirstPacket = FALSE
      /\ d.open = c.open
      /\ d.veryLastPacket = VeryLast(c)
      /\ d.headers = c.headers \cup HeaderOver(c, fn)
      /\ d.packetCounter = (IF fn \in OldHeader THEN c.packetCounter + 1
                                                ELSE c.packetCounter)
      /\ d.localOffset = c.localOffset + BytesToWrite(c)
      /\ d.remainingBytes = c.remainingBytes - BytesToWrite(c)
  BY <1>5, <1>7, Zenon DEF Calls
<1> QED BY <1>6, <1>8 DEF d

LEMMA RecordFields ==
  ASSUME NEW src \in Sources, NEW c \in Calls, NEW fn, c.tick \in Ticks,
         c.maxUdpPayload >= 1
  PROVE  LET r == Record(src, c, fn)
         IN  /\ r \in SentPackets
             /\ r.src = src /\ r.tick = c.tick /\ r.offset = c.localOffset
             /\ r.bytes = BytesToWrite(c) /\ r.number = c.packetCounter
             /\ r.first = c.veryFirstPacket /\ r.last = VeryLast(c)
             /\ r.intact = ((c.localOffset .. c.localOffset + BytesToWrite(c) - 1)
                               \cap (c.headers \cup HeaderOver(c, fn)) = {})
<1>1. /\ c.localOffset \in Nat /\ c.packetCounter \in Nat
      /\ c.veryFirstPacket \in BOOLEAN /\ c.veryLastPacket \in BOOLEAN
      /\ BytesToWrite(c) \in Nat
  BY BytesToWriteBounds DEF Calls
<1>2. VeryLast(c) \in BOOLEAN
  BY <1>1 DEF VeryLast
<1> QED BY <1>1, <1>2, Zenon DEF Record, SentPackets

LEMMA TilesGrow ==
  ASSUME NEW P \in SUBSET SentPackets, NEW r \in SentPackets, NEW k \in Nat,
         Tiles(P, k), r.offset = k, r.intact
  PROVE  Tiles(P \cup {r}, k + r.bytes)
<1> DEFINE n == r.bytes
<1>1. n \in Nat
  BY DEF SentPackets
<1>2. \A p \in P : p.offset \in Nat /\ p.bytes \in Nat
  BY DEF SentPackets
<1>3. ASSUME NEW p \in P \cup {r} PROVE p.offset + p.bytes <= k + n /\ p.intact
  <2>1. CASE p = r
    BY <2>1, <1>1
  <2>2. CASE p \in P
    <3>1. p.offset + p.bytes <= k /\ p.intact
      BY <2>2 DEF Tiles
    <3> QED BY <3>1, <1>1, <1>2, <2>2
  <2> QED BY <2>1, <2>2
<1>4. ASSUME NEW p \in P, NEW b \in Nat, Covers(p, b) PROVE ~Covers(r, b)
  <2>1. p.offset + p.bytes <= k
    BY DEF Tiles
  <2> QED BY <2>1, <1>1, <1>2, <1>4 DEF Covers
<1>5. ASSUME NEW p \in P \cup {r}, NEW q \in P \cup {r}, NEW b \in Nat,
             Covers(p, b), Covers(q, b)
      PROVE  p = q
  <2>1. CASE p \in P /\ q \in P
    BY <1>5, <2>1, Zenon DEF Tiles
  <2> QED BY <1>4, <1>5, <2>1
<1>6. \A b \in 0 .. (k + n) - 1 : \E p \in P \cup {r} : Covers(p, b)
  <2> TAKE b \in 0 .. (k + n) - 1
  <2>1. CASE b <= k - 1
    <3>1. b \in 0 .. k - 1
      BY <2>1
    <3> QED BY <3>1, Zenon DEF Tiles
  <2>2. CASE b > k - 1
    BY <2>2, <1>1 DEF Covers
  <2> QED BY <2>1, <2>2
<1> DEFINE Q == P \cup {r}
<1>7. \A p \in Q : p.offset + p.bytes <= k + r.bytes /\ p.intact
  BY <1>3
<1>8. \A p, q \in Q : \A b \in Nat : Covers(p, b) /\ Covers(q, b) => p = q
  BY <1>5, Zenon
<1>9. \A b \in 0 .. (k + r.bytes) - 1 : \E p \in Q : Covers(p, b)
  BY <1>6, Zenon
<1> HIDE DEF Q
<1>10. Tiles(Q, k + r.bytes)
  BY <1>7, <1>8, <1>9, Zenon DEF Tiles
<1> QED BY <1>10 DEF Q

\* Nothing sent, nothing of the event covered.
LEMMA TilesNone == Tiles({}, 0)
BY DEF Tiles

\* What a turn of the loop finds.
LEMMA LoopingFinds ==
  ASSUME NEW c \in Calls, NEW P \in SUBSET SentPackets, NEW length \in Nat,
         Midway(c, P, length), Looping(c)
  PROVE  /\ ~c.veryLastPacket
         /\ c.veryFirstPacket <=> c.localOffset = 0
         /\ \A q \in P : q.offset < c.localOffset
         /\ BytesToWrite(c) = 0 => length = 0
<1>1. /\ c.localOffset \in Nat /\ c.remainingBytes \in Nat
      /\ c.firstLoop \in BOOLEAN /\ c.veryFirstPacket \in BOOLEAN
      /\ c.veryLastPacket \in BOOLEAN
  BY DEF Calls
<1>2. /\ c.localOffset + c.remainingBytes = length
      /\ c.maxUdpPayload >= 1
      /\ c.firstLoop => c.veryFirstPacket
      /\ c.veryFirstPacket => c.localOffset = 0 /\ P = {}
      /\ ~c.veryFirstPacket => c.localOffset > 0 \/ length = 0
      /\ c.veryLastPacket => c.remainingBytes = 0 /\ ~c.firstLoop
      /\ \A p \in P : p.offset + p.bytes <= c.localOffset
      /\ \A p \in P : p.bytes = 0 => length = 0
  BY DEF Midway, Tiles, NoneEmpty
<1>3. c.firstLoop \/ c.remainingBytes > 0
  BY DEF Looping
<1>4. ~c.veryLastPacket
  BY <1>1, <1>2, <1>3
<1>5. ~c.veryFirstPacket => length > 0
  BY <1>1, <1>2, <1>3
<1>6. c.veryFirstPacket <=> c.localOffset = 0
  BY <1>1, <1>2, <1>5
<1>7. ASSUME NEW q \in P PROVE q.offset < c.localOffset
  <2>1. ~c.veryFirstPacket
    BY <1>2
  <2>2. q.bytes # 0 /\ q.offset + q.bytes <= c.localOffset
    BY <1>2, <1>5, <2>1
  <2>3. q.offset \in Nat /\ q.bytes \in Nat
    BY DEF SentPackets
  <2> QED BY <1>1, <2>2, <2>3
<1>8. BytesToWrite(c) = 0 => length = 0
  <2>1. BytesToWrite(c) = 0 => c.remainingBytes = 0
    BY <1>2, BytesToWriteBounds
  <2> QED BY <1>1, <1>2, <1>3, <2>1
<1> QED BY <1>4, <1>6, <1>7, <1>8

\* A packet goes out.
LEMMA SendKeepsMidway ==
  ASSUME NEW src \in Sources, NEW c \in Calls, c.tick \in Ticks, NEW fn,
         NEW P \in SUBSET SentPackets, NEW length \in Nat,
         Midway(c, P, length), Looping(c)
  PROVE  Midway(AfterSend(c, fn), P \cup {Record(src, c, fn)}, length)
<1> DEFINE d == AfterSend(c, fn)
           r == Record(src, c, fn)
           n == BytesToWrite(c)
           off == c.localOffset
           over == HeaderOver(c, fn)
<1>1. c.maxUdpPayload >= 1 /\ off + c.remainingBytes = length
  BY DEF Midway
<1>2. n \in Nat /\ n <= c.remainingBytes /\ off \in Nat /\ c.remainingBytes \in Nat
  BY <1>1, BytesToWriteBounds DEF Calls
<1>3. /\ d \in Calls /\ d.maxUdpPayload = c.maxUdpPayload
      /\ d.firstLoop = FALSE /\ d.veryFirstPacket = FALSE
      /\ d.veryLastPacket = VeryLast(c) /\ d.headers = c.headers \cup over
      /\ d.localOffset = off + n /\ d.remainingBytes = c.remainingBytes - n
  BY <1>1, AfterSendFields
<1>4. /\ r \in SentPackets /\ r.offset = off /\ r.bytes = n
      /\ r.intact = ((off .. off + n - 1) \cap (c.headers \cup over) = {})
  BY <1>1, RecordFields
<1>5. \A h \in c.headers \cup over : h \in Int /\ h < off
  <2>1. \A h \in over : h \in Int /\ h < off
    BY <1>2, PayloadAssumption DEF HeaderOver
  <2>2. \A h \in c.headers : h \in Int /\ h < off
    BY DEF Midway, Calls
  <2> QED BY <2>1, <2>2
<1>6. /\ ~c.veryLastPacket
      /\ c.veryFirstPacket <=> off = 0
      /\ n = 0 => length = 0
  BY LoopingFinds
<1>7. VeryLast(c) <=> n = c.remainingBytes
  BY <1>6 DEF VeryLast
<1>8. Tiles(P, off) /\ NoneEmpty(P, length)
  BY DEF Midway
<1> HIDE DEF d, r, n, off, over
<1>9. r.intact
  <2>1. (off .. off + n - 1) \cap (c.headers \cup over) = {}
    BY <1>2, <1>5
  <2> QED BY <2>1, <1>4, Zenon
<1>10. Tiles(P \cup {r}, d.localOffset)
  <2>1. Tiles(P \cup {r}, off + r.bytes)
    BY <1>2, <1>4, <1>8, <1>9, TilesGrow, Zenon
  <2> QED BY <2>1, <1>3, <1>4, Zenon
<1>11. NoneEmpty(P \cup {r}, length)
  BY <1>4, <1>6, <1>8 DEF NoneEmpty
<1>12. d.localOffset + d.remainingBytes = length
  BY <1>1, <1>2, <1>3
<1>13. d.localOffset > 0 \/ length = 0
  BY <1>1, <1>2, <1>3, <1>6
<1>14. d.veryLastPacket => d.remainingBytes = 0
  BY <1>2, <1>3, <1>7
<1>15. \A h \in d.headers : h < d.localOffset
  BY <1>2, <1>3, <1>5
<1>16. Midway(d, P \cup {r}, length)
  BY <1>1, <1>3, <1>10, <1>11, <1>12, <1>13, <1>14, <1>15, Zenon DEF Midway
<1> QED BY <1>16 DEF d, r

\* Its number and marks are right.
LEMMA SendKeepsNumbered ==
  ASSUME NEW src \in Sources, NEW c \in Calls, c.tick \in Ticks, NEW fn,
         NEW P \in SUBSET SentPackets, NEW length \in Nat, IsFiniteSet(P),
         Midway(c, P, length), Looping(c),
         Numbered(P, length), c.packetCounter = Cardinality(P), fn \in OldHeader
  PROVE  LET r == Record(src, c, fn)
         IN  /\ Numbered(P \cup {r}, length)
             /\ AfterSend(c, fn).packetCounter = Cardinality(P \cup {r})
<1> DEFINE d == AfterSend(c, fn)
           r == Record(src, c, fn)
           n == BytesToWrite(c)
           off == c.localOffset
<1>1. c.maxUdpPayload >= 1 /\ off + c.remainingBytes = length
  BY DEF Midway
<1>2. n \in Nat /\ n <= c.remainingBytes /\ off \in Nat /\ c.remainingBytes \in Nat
  BY <1>1, BytesToWriteBounds DEF Calls
<1>3. d.packetCounter = c.packetCounter + 1
  BY <1>1, AfterSendFields
<1>4. /\ r \in SentPackets /\ r.offset = off /\ r.bytes = n
      /\ r.number = c.packetCounter /\ r.first = c.veryFirstPacket
      /\ r.last = VeryLast(c)
  BY <1>1, RecordFields
<1>5. /\ ~c.veryLastPacket
      /\ c.veryFirstPacket <=> off = 0
      /\ \A q \in P : q.offset < off
  BY LoopingFinds
<1>6. VeryLast(c) <=> n = c.remainingBytes
  BY <1>5 DEF VeryLast
<1> HIDE DEF d, r, n, off
<1>7. \A q \in P : q.offset \in Nat
  BY DEF SentPackets
<1>8. r \notin P
  BY <1>2, <1>4, <1>5
<1>9. d.packetCounter = Cardinality(P \cup {r})
  BY <1>3, <1>8, FS_AddElement
<1>10. {q \in P \cup {r} : q.offset < r.offset} = P
  BY <1>2, <1>4, <1>5
<1>11. ASSUME NEW p \in P
       PROVE  {q \in P \cup {r} : q.offset < p.offset} = {q \in P : q.offset < p.offset}
  BY <1>2, <1>4, <1>5, <1>7
<1>12. r.last <=> r.offset + r.bytes = length
  BY <1>1, <1>2, <1>4, <1>6
<1>13. r.first <=> r.offset = 0
  BY <1>4, <1>5, Zenon
<1>14. Numbered(P \cup {r}, length)
  <2>1. \A p \in P :
           /\ p.number = Cardinality({q \in P \cup {r} : q.offset < p.offset})
           /\ p.first <=> p.offset = 0
           /\ p.last <=> p.offset + p.bytes = length
    BY <1>11, Zenon DEF Numbered
  <2>2. r.number = Cardinality({q \in P \cup {r} : q.offset < r.offset})
    BY <1>4, <1>10
  <2> QED BY <2>1, <2>2, <1>12, <1>13, Zenon DEF Numbered
<1> QED BY <1>9, <1>14 DEF d, r

-----------------------------------------------------------------------------
(* All events of all sources.                                              *)

\* The packets P of the event of the given tick, when c is its source's call.
EventOk(tick, c, P, length, old) ==
    /\ tick > c.tick => P = {}
    /\ tick = c.tick => Midway(c, P, length)
    /\ tick < c.tick => \E k \in 0 .. length : /\ Tiles(P, k) /\ NoneEmpty(P, length)
                                               /\ ~CanFailSend => k = length
    /\ old => /\ Numbered(P, length)
              /\ tick = c.tick => c.packetCounter = Cardinality(P)

SendTypes ==
    /\ sender \in [Sources -> SendFunctions]
    /\ snd \in [Sources -> Calls]
    /\ sent \in SUBSET SentPackets
    /\ IsFiniteSet(sent)

EventsOk ==
    \A src \in Sources : \A tick \in Ticks :
        EventOk(tick, snd[src], PacketsOf(src, tick), EventLength[<<src, tick>>],
                sender[src] \in OldHeader)

SendInv == SendTypes /\ EventsOk

LEMMA PacketsOfType ==
  ASSUME SendTypes, NEW src, NEW tick
  PROVE  PacketsOf(src, tick) \in SUBSET SentPackets /\ IsFiniteSet(PacketsOf(src, tick))
<1>1. PacketsOf(src, tick) \in SUBSET sent
  BY DEF PacketsOf
<1>2. IsFiniteSet(PacketsOf(src, tick))
  BY <1>1, FS_Subset DEF SendTypes
<1> QED BY <1>1, <1>2 DEF SendTypes

LEMMA PayloadType ==
  ASSUME NEW fn
  PROVE  Payload(fn) \in Nat /\ Payload(fn) >= 1
BY PayloadAssumption DEF Payload

LEMMA NewCallType ==
  ASSUME NEW src \in Sources, NEW tick \in Ticks, NEW fn
  PROVE  NewCall(src, tick, fn) \in Calls
<1>1. EventLength[<<src, tick>>] \in Nat /\ tick \in Nat
  BY EventLengthType, ChannelAssumption
<1>2. Payload(fn) \in Nat /\ Payload(fn) >= 1
  BY PayloadType
<1>3. (fn \notin WithSocket) \in BOOLEAN /\ {} \in SUBSET Int /\ 0 \in Nat
  OBVIOUS
<1> QED BY <1>1, <1>2, <1>3, Zenon DEF NewCall, Calls

\* Nothing has been sent of an event whose call begins.
LEMMA NewCallMidway ==
  ASSUME NEW src \in Sources, NEW tick \in Ticks, NEW fn,
         NEW d, d = NewCall(src, tick, fn)
  PROVE  Midway(d, {}, EventLength[<<src, tick>>])
<1> DEFINE n == EventLength[<<src, tick>>]
<1>1. /\ d.localOffset = 0 /\ d.remainingBytes = n /\ d.maxUdpPayload >= 1
      /\ d.veryFirstPacket = TRUE /\ d.veryLastPacket = FALSE /\ d.headers = {}
  BY PayloadType DEF NewCall
<1>2. n \in Nat
  BY EventLengthType
<1> HIDE DEF n
<1>3. d.localOffset + d.remainingBytes = n
  BY <1>1, <1>2
<1>4. Tiles({}, d.localOffset) /\ NoneEmpty({}, n)
  BY <1>1, TilesNone DEF NoneEmpty
<1>5. Midway(d, {}, n)
  BY <1>1, <1>3, <1>4, Zenon DEF Midway
<1> QED BY <1>5 DEF n

\* A call that keeps the place, for all events of its source.
LEMMA StayKeepsOk ==
  ASSUME NEW tick \in Ticks, NEW c \in Calls, NEW d \in Calls, NEW P, NEW length, NEW old,
         d.tick = c.tick, d.packetCounter = c.packetCounter,
         Midway(c, P, length) => Midway(d, P, length),
         EventOk(tick, c, P, length, old)
  PROVE  EventOk(tick, d, P, length, old)
BY Zenon DEF EventOk

\* The call for the next tick, or none.
LEMMA StartKeepsOk ==
  ASSUME NEW src \in Sources, NEW c \in Calls, NEW d \in Calls, NEW fn, NEW old,
         d.tick = NextTick(c.tick),
         d.tick \in Ticks => d = NewCall(src, d.tick, fn),
         CanFailSend \/ ~Looping(c),
         NEW tick \in Ticks, NEW P,
         EventOk(tick, c, P, EventLength[<<src, tick>>], old)
  PROVE  EventOk(tick, d, P, EventLength[<<src, tick>>], old)
<1> DEFINE n == EventLength[<<src, tick>>]
<1>1. n \in Nat /\ tick \in Nat
  BY EventLengthType, ChannelAssumption
<1>2. c.tick \in Nat /\ d.tick \in Nat
  BY DEF Calls
<1>3. tick < d.tick <=> tick <= c.tick
  BY <1>2, NextTickSkipsNone
<1> HIDE DEF n
<1>4. tick > d.tick => P = {}
  BY <1>1, <1>2, <1>3 DEF EventOk, n
<1>5. tick = d.tick => Midway(d, P, n)
  <2> SUFFICES ASSUME tick = d.tick PROVE Midway(d, P, n)
    OBVIOUS
  <2>1. P = {}
    BY <1>1, <1>2, <1>3 DEF EventOk, n
  <2>2. d = NewCall(src, tick, fn)
    OBVIOUS
  <2>3. Midway(d, {}, n)
    BY <2>2, NewCallMidway, Zenon DEF n
  <2> QED BY <2>1, <2>2, <2>3, Zenon
<1>6. tick < d.tick => \E k \in 0 .. n : /\ Tiles(P, k) /\ NoneEmpty(P, n)
                                         /\ ~CanFailSend => k = n
  <2> SUFFICES ASSUME tick < d.tick
               PROVE  \E k \in 0 .. n : /\ Tiles(P, k) /\ NoneEmpty(P, n)
                                        /\ ~CanFailSend => k = n
    OBVIOUS
  <2>1. CASE tick < c.tick
    BY <2>1 DEF EventOk, n
  <2>2. CASE tick = c.tick
    <3>1. Midway(c, P, n)
      BY <2>2 DEF EventOk, n
    <3>2. /\ c.localOffset + c.remainingBytes = n
          /\ Tiles(P, c.localOffset) /\ NoneEmpty(P, n)
      BY <3>1 DEF Midway
    <3>3. c.localOffset \in Nat /\ c.remainingBytes \in Nat
      BY DEF Calls
    <3>4. ~CanFailSend => c.remainingBytes = 0
      BY <3>3 DEF Looping
    <3>5. c.localOffset \in 0 .. n /\ (~CanFailSend => c.localOffset = n)
      BY <1>1, <3>2, <3>3, <3>4
    <3> QED BY <3>2, <3>5
  <2> QED BY <1>1, <1>2, <1>3, <2>1, <2>2
<1>7. old => Numbered(P, n)
  BY DEF EventOk, n
<1>8. tick = d.tick => d.packetCounter = Cardinality(P)
  <2> SUFFICES ASSUME tick = d.tick PROVE d.packetCounter = Cardinality(P)
    OBVIOUS
  <2>1. P = {}
    BY <1>1, <1>2, <1>3 DEF EventOk, n
  <2>2. d = NewCall(src, tick, fn)
    OBVIOUS
  <2>3. d.packetCounter = 0
    BY <2>2 DEF NewCall
  <2> QED BY <2>1, <2>2, <2>3, FS_EmptySet
<1>9. EventOk(tick, d, P, n, old)
  BY <1>4, <1>5, <1>6, <1>7, <1>8, Zenon DEF EventOk
<1> QED BY <1>9 DEF n

\* A source moves on without sending.
LEMMA SenderMoves ==
  ASSUME SendInv, NEW src \in Sources, NEW d \in Calls,
         snd' = [snd EXCEPT ![src] = d], UNCHANGED <<sender, sent>>,
         \A tick \in Ticks : \A P \in SUBSET SentPackets : \A old :
            EventOk(tick, snd[src], P, EventLength[<<src, tick>>], old)
               => EventOk(tick, d, P, EventLength[<<src, tick>>], old)
  PROVE  SendInv'
<1>1. SendTypes'
  BY DEF SendInv, SendTypes
<1>2. ASSUME NEW s \in Sources, NEW tick \in Ticks
      PROVE  EventOk(tick, snd[s], PacketsOf(s, tick), EventLength[<<s, tick>>],
                     sender[s] \in OldHeader)'
  <2>1. PacketsOf(s, tick)' = PacketsOf(s, tick) /\ sender' = sender
    BY DEF PacketsOf
  <2>2. PacketsOf(s, tick) \in SUBSET SentPackets
    BY PacketsOfType DEF SendInv
  <2>3. EventOk(tick, snd[s], PacketsOf(s, tick), EventLength[<<s, tick>>],
                sender[s] \in OldHeader)
    BY DEF SendInv, EventsOk
  <2>4. snd'[s] = IF s = src THEN d ELSE snd[s]
    BY DEF SendInv, SendTypes
  <2>5. EventOk(tick, snd'[s], PacketsOf(s, tick), EventLength[<<s, tick>>],
                sender[s] \in OldHeader)
    BY <2>2, <2>3, <2>4, Zenon
  <2> QED BY <2>1, <2>5, Zenon
<1> QED BY <1>1, <1>2, Zenon DEF SendInv, EventsOk

\* A packet goes out.
LEMMA SendPacketKeeps ==
  ASSUME SendInv, NEW src \in Sources, NEW fn,
         sender[src] \in OldHeader <=> fn \in OldHeader,
         SendPacket(src, fn), UNCHANGED sender
  PROVE  SendInv'
<1> DEFINE c == snd[src]
           d == AfterSend(c, fn)
           r == Record(src, c, fn)
<1>1. /\ sender \in [Sources -> SendFunctions] /\ snd \in [Sources -> Calls]
      /\ sent \in SUBSET SentPackets /\ IsFiniteSet(sent)
  BY DEF SendInv, SendTypes
<1>2. /\ c \in Calls /\ c.tick \in Ticks /\ Looping(c)
      /\ sent' = sent \cup {r} /\ snd' = [snd EXCEPT ![src] = d] /\ sender' = sender
  BY <1>1 DEF SendPacket, InLoop, SourceDone
<1>3. ASSUME NEW s \in Sources, NEW tick \in Ticks
      PROVE  /\ EventOk(tick, snd[s], PacketsOf(s, tick), EventLength[<<s, tick>>],
                        sender[s] \in OldHeader)
             /\ PacketsOf(s, tick) \in SUBSET SentPackets
             /\ IsFiniteSet(PacketsOf(s, tick))
             /\ EventLength[<<s, tick>>] \in Nat
             /\ tick \in Nat
  BY PacketsOfType, EventLengthType, ChannelAssumption DEF SendInv, EventsOk
<1>4. Midway(c, PacketsOf(src, c.tick), EventLength[<<src, c.tick>>])
  BY <1>2, <1>3 DEF EventOk
<1>5. c.maxUdpPayload >= 1
  BY <1>4 DEF Midway
<1>6. d \in Calls /\ d.tick = c.tick
  BY <1>2, <1>5, AfterSendFields
<1>7. r \in SentPackets /\ r.src = src /\ r.tick = c.tick
  BY <1>2, <1>5, RecordFields
<1>8. SendTypes'
  <2>1. sender' \in [Sources -> SendFunctions] /\ snd' \in [Sources -> Calls]
    BY <1>1, <1>2, <1>6
  <2>2. sent' \in SUBSET SentPackets
    BY <1>1, <1>2, <1>7
  <2>3. IsFiniteSet(sent')
    BY <1>1, <1>2, FS_AddElement
  <2> QED BY <2>1, <2>2, <2>3 DEF SendTypes
<1>9. ASSUME NEW s \in Sources, NEW tick \in Ticks
      PROVE  EventOk(tick, snd[s], PacketsOf(s, tick), EventLength[<<s, tick>>],
                     sender[s] \in OldHeader)'
  <2> DEFINE P == PacketsOf(s, tick)
             n == EventLength[<<s, tick>>]
             old == sender[s] \in OldHeader
  <2>1. snd'[s] = IF s = src THEN d ELSE snd[s]
    BY <1>1, <1>2
  <2>2. (sender[s] \in OldHeader)' <=> old
    BY <1>2
  <2>3. PacketsOf(s, tick)' = {p \in sent \cup {r} : p.src = s /\ p.tick = tick}
    BY <1>2 DEF PacketsOf
  <2>4. CASE s = src /\ tick = c.tick
    <3>1. PacketsOf(s, tick)' = P \cup {r}
      BY <2>3, <2>4, <1>7 DEF PacketsOf
    <3>2. Midway(d, P \cup {r}, n)
      BY <1>2, <1>3, <1>4, <2>4, SendKeepsMidway
    <3>3. ASSUME old PROVE Numbered(P \cup {r}, n) /\ d.packetCounter = Cardinality(P \cup {r})
      <4>1. Numbered(P, n) /\ c.packetCounter = Cardinality(P)
        BY <1>3, <2>4, <3>3 DEF EventOk
      <4>2. fn \in OldHeader
        BY <2>4, <3>3
      <4> QED BY <4>1, <4>2, <1>2, <1>3, <1>4, <2>4, SendKeepsNumbered
    <3>4. tick \in Nat /\ d.tick = tick
      BY <1>3, <1>6, <2>4
    <3> HIDE DEF P, n, old, c, d, r
    <3>5. ~(tick > d.tick) /\ ~(tick < d.tick)
      BY <3>4
    <3>6. EventOk(tick, d, P \cup {r}, n, old)
      BY <3>2, <3>3, <3>5, Zenon DEF EventOk
    <3> QED BY <2>1, <2>2, <2>4, <3>1, <3>6, Zenon DEF n
  <2>5. CASE s # src \/ tick # c.tick
    <3>1. PacketsOf(s, tick)' = P
      BY <2>3, <2>5, <1>7 DEF PacketsOf
    <3>2. EventOk(tick, snd[s], P, n, old)
      BY <1>3
    <3>3. CASE s # src
      <4>1. snd'[s] = snd[s]
        BY <2>1, <3>3
      <4> HIDE DEF P, n, old
      <4> QED BY <2>2, <3>1, <3>2, <4>1, Zenon DEF n
    <3>4. CASE s = src
      <4>1. tick # c.tick /\ snd'[s] = d /\ snd[s] = c
        BY <2>1, <2>5, <3>4
      <4> HIDE DEF P, n, old, c, d
      <4>2. EventOk(tick, d, P, n, old)
        BY <3>2, <4>1, <1>6, Zenon DEF EventOk
      <4> QED BY <2>2, <3>1, <4>1, <4>2, Zenon DEF n
    <3> QED BY <3>3, <3>4
  <2> QED BY <2>4, <2>5
<1> QED BY <1>8, <1>9, Zenon DEF SendInv, EventsOk

\* The payload shrinks.
LEMMA ShrinkKeeps ==
  ASSUME SendInv, NEW src \in Sources, NEW fn, ShrinkPayload(src, fn), UNCHANGED sender
  PROVE  SendInv'
<1> DEFINE c == snd[src]
           m == (c.maxUdpPayload * 8) \div 10
           d == [c EXCEPT !.maxUdpPayload = m, !.veryLastPacket = FALSE,
                          !.firstLoop = fn \in InPlace]
<1>1. snd \in [Sources -> Calls] /\ c \in Calls
  BY DEF SendInv, SendTypes
<1>2. /\ c.tick \in Ticks /\ c.veryFirstPacket /\ BytesToWrite(c) > PathLimit
      /\ snd' = [snd EXCEPT ![src] = d] /\ UNCHANGED <<sender, sent>>
  BY <1>1 DEF ShrinkPayload, InLoop, SourceDone
<1>3. c.maxUdpPayload \in Nat
  BY <1>1 DEF Calls
<1>4. m \in Nat
  BY <1>3
<1>5. (fn \in InPlace) \in BOOLEAN /\ FALSE \in BOOLEAN
  OBVIOUS
<1> HIDE DEF c, m
<1>6. /\ d \in Calls
      /\ d.tick = c.tick /\ d.localOffset = c.localOffset
      /\ d.remainingBytes = c.remainingBytes /\ d.maxUdpPayload = m
      /\ d.veryFirstPacket = c.veryFirstPacket /\ d.veryLastPacket = FALSE
      /\ d.packetCounter = c.packetCounter /\ d.headers = c.headers
  BY <1>1, <1>4, <1>5, Zenon DEF Calls
<1> HIDE DEF d
<1>7. ASSUME NEW P, NEW length, Midway(c, P, length) PROVE Midway(d, P, length)
  <2>1. c.maxUdpPayload >= 1
    BY <1>7 DEF Midway
  <2>2. BytesToWrite(c) \in Nat /\ BytesToWrite(c) <= c.maxUdpPayload
    BY <1>1, <2>1, BytesToWriteBounds
  <2>3. PathLimit \in Nat /\ PathLimit >= 1
    BY PayloadAssumption
  <2>4. c.maxUdpPayload >= 2
    BY <1>2, <1>3, <2>2, <2>3
  <2>5. d.maxUdpPayload >= 1
    BY <1>3, <1>6, <2>4 DEF m
  <2> QED BY <1>2, <1>6, <1>7, <2>5, Zenon DEF Midway
<1>8. ASSUME NEW tick \in Ticks, NEW P \in SUBSET SentPackets, NEW old,
             EventOk(tick, c, P, EventLength[<<src, tick>>], old)
      PROVE  EventOk(tick, d, P, EventLength[<<src, tick>>], old)
  BY <1>1, <1>6, <1>7, <1>8, StayKeepsOk, Zenon
<1> QED BY <1>2, <1>6, <1>8, SenderMoves, Zenon DEF c

\* The socket of sendBuffer is open.
LEMMA OpenKeeps ==
  ASSUME SendInv, NEW src \in Sources,
         snd' = [snd EXCEPT ![src].open = TRUE], UNCHANGED <<sender, sent>>
  PROVE  SendInv'
<1> DEFINE c == snd[src]
           d == [c EXCEPT !.open = TRUE]
<1>1. c \in Calls /\ snd' = [snd EXCEPT ![src] = d]
  BY DEF SendInv, SendTypes
<1> HIDE DEF c
<1>2. /\ d \in Calls
      /\ d.tick = c.tick /\ d.localOffset = c.localOffset
      /\ d.remainingBytes = c.remainingBytes /\ d.maxUdpPayload = c.maxUdpPayload
      /\ d.veryFirstPacket = c.veryFirstPacket /\ d.veryLastPacket = c.veryLastPacket
      /\ d.firstLoop = c.firstLoop
      /\ d.packetCounter = c.packetCounter /\ d.headers = c.headers
  BY <1>1, Zenon DEF Calls
<1> HIDE DEF d
<1>3. ASSUME NEW P, NEW length, Midway(c, P, length) PROVE Midway(d, P, length)
  BY <1>2, <1>3, Zenon DEF Midway
<1>4. ASSUME NEW tick \in Ticks, NEW P \in SUBSET SentPackets, NEW old,
             EventOk(tick, c, P, EventLength[<<src, tick>>], old)
      PROVE  EventOk(tick, d, P, EventLength[<<src, tick>>], old)
  BY <1>1, <1>2, <1>3, <1>4, StayKeepsOk, Zenon
<1> QED BY <1>1, <1>2, <1>4, SenderMoves, Zenon DEF c

\* A source goes on to its next event.
LEMMA StartNextKeeps ==
  ASSUME SendInv, NEW src \in Sources, CanFailSend \/ ~Looping(snd[src]),
         StartNext(src), UNCHANGED <<sender, sent>>
  PROVE  SendInv'
<1> DEFINE c == snd[src]
           t == NextTick(c.tick)
           fn == sender[src]
           d == IF t \in Ticks THEN NewCall(src, t, fn) ELSE [c EXCEPT !.tick = t]
<1>1. c \in Calls /\ snd' = [snd EXCEPT ![src] = d]
  BY DEF SendInv, SendTypes, StartNext
<1>2. c.tick \in Nat
  BY <1>1 DEF Calls
<1>3. t \in Nat
  BY <1>2, NextTickSkipsNone
<1>4. CanFailSend \/ ~Looping(c)
  OBVIOUS
<1> HIDE DEF c, t, fn
<1>5. /\ d \in Calls /\ d.tick = t
      /\ t \in Ticks => d = NewCall(src, t, fn)
  <2>1. CASE t \in Ticks
    <3>1. NewCall(src, t, fn) \in Calls /\ NewCall(src, t, fn).tick = t
      BY <2>1, NewCallType DEF NewCall
    <3> QED BY <2>1, <3>1
  <2>2. CASE t \notin Ticks
    BY <1>1, <1>3, <2>2, Zenon DEF Calls
  <2> QED BY <2>1, <2>2
<1> HIDE DEF d
<1>6. ASSUME NEW tick \in Ticks, NEW P \in SUBSET SentPackets, NEW old,
             EventOk(tick, c, P, EventLength[<<src, tick>>], old)
      PROVE  EventOk(tick, d, P, EventLength[<<src, tick>>], old)
  <2>1. d.tick = NextTick(c.tick) /\ (d.tick \in Ticks => d = NewCall(src, d.tick, fn))
    BY <1>5 DEF t
  <2> QED BY <1>1, <1>4, <1>5, <1>6, <2>1, StartKeepsOk, Zenon
<1> QED BY <1>1, <1>5, <1>6, SenderMoves, Zenon DEF c

LEMMA SenderStepKeeps ==
  ASSUME SendInv, NEW src \in Sources, SendStep(src) \/ SendFails(src)
  PROVE  SendInv'
<1>1. ASSUME NEW fn, Loop(src, fn), sender[src] \in OldHeader <=> fn \in OldHeader,
             UNCHANGED sender
      PROVE  SendInv'
  <2>1. CASE SendPacket(src, fn)
    BY <1>1, <2>1, SendPacketKeeps
  <2>2. CASE ShrinkPayload(src, fn)
    BY <1>1, <2>2, ShrinkKeeps
  <2>3. CASE SendReturns(src)
    BY <1>1, <2>3, StartNextKeeps DEF SendReturns
  <2> QED BY <1>1, <2>1, <2>2, <2>3 DEF Loop
<1>2. CASE SendFails(src)
  BY <1>2, StartNextKeeps DEF SendFails
<1>3. CASE SendStep(src)
  <2>1. CASE SendNew(src)
    BY <1>1, <1>3, <2>1 DEF SendNew, SendStep, OldHeader
  <2>2. CASE FastNew(src)
    BY <1>1, <1>3, <2>2 DEF FastNew, SendStep, OldHeader
  <2>3. CASE Fast(src)
    BY <1>1, <1>3, <2>3 DEF Fast, SendStep, OldHeader
  <2>4. CASE Send(src)
    BY <1>1, <1>3, <2>4 DEF Send, SendStep, OldHeader
  <2>5. CASE Sendto(src)
    BY <1>1, <1>3, <2>5 DEF Sendto, SendStep, OldHeader
  <2>6. CASE Sendmsg(src)
    BY <1>1, <1>3, <2>6 DEF Sendmsg, SendStep, OldHeader
  <2>7. CASE SendBufferOpens(src)
    BY <1>3, <2>7, OpenKeeps, StartNextKeeps DEF SendBufferOpens, SendStep
  <2> QED BY <1>3, <2>1, <2>2, <2>3, <2>4, <2>5, <2>6, <2>7 DEF SendStep
<1> QED BY <1>2, <1>3

LEMMA SendInitOk ==
  ASSUME SendInit
  PROVE  SendInv
<1>1. Ticks \subseteq Nat /\ Ticks # {}
  BY ChannelAssumption
<1>2. Least(Ticks) \in Ticks /\ \A u \in Ticks : Least(Ticks) <= u
  BY <1>1, LeastIsLeast
<1>3. /\ sender \in [Sources -> SendFunctions] /\ sent = {}
      /\ snd = [src \in Sources |-> NewCall(src, Least(Ticks), sender[src])]
  BY DEF SendInit
<1>4. \A src \in Sources : NewCall(src, Least(Ticks), sender[src]) \in Calls
  BY <1>2, NewCallType
<1>5. SendTypes
  BY <1>3, <1>4, FS_EmptySet DEF SendTypes
<1>6. ASSUME NEW src \in Sources, NEW tick \in Ticks
      PROVE  EventOk(tick, snd[src], PacketsOf(src, tick), EventLength[<<src, tick>>],
                     sender[src] \in OldHeader)
  <2> DEFINE t == Least(Ticks)
             d == NewCall(src, t, sender[src])
             n == EventLength[<<src, tick>>]
             old == sender[src] \in OldHeader
  <2>1. snd[src] = d /\ PacketsOf(src, tick) = {}
    BY <1>3 DEF PacketsOf
  <2>2. d.tick = t /\ d.packetCounter = 0
    BY DEF NewCall
  <2>3. tick \in Nat /\ t \in Nat /\ t <= tick /\ t \in Ticks
    BY <1>1, <1>2
  <2>4. tick = t => Midway(d, {}, n)
    BY <2>3, NewCallMidway, Zenon
  <2>5. ~(tick < d.tick)
    BY <2>2, <2>3
  <2>6. Numbered({}, n) /\ Cardinality({}) = 0
    BY FS_EmptySet DEF Numbered
  <2> HIDE DEF d, t, n, old
  <2>7. EventOk(tick, d, {}, n, old)
    BY <2>2, <2>4, <2>5, <2>6, Zenon DEF EventOk
  <2> QED BY <2>1, <2>7, Zenon DEF n, old
<1> QED BY <1>5, <1>6, Zenon DEF SendInv, EventsOk

LEMMA SendInvStays ==
  ASSUME SendInv, UNCHANGED <<sender, snd, sent>>
  PROVE  SendInv'
<1>1. \A src, tick : PacketsOf(src, tick)' = PacketsOf(src, tick)
  BY DEF PacketsOf
<1>2. SendTypes'
  BY DEF SendInv, SendTypes
<1>3. EventsOk'
  <2> SUFFICES ASSUME NEW s \in Sources, NEW tick \in Ticks
               PROVE  EventOk(tick, snd[s], PacketsOf(s, tick), EventLength[<<s, tick>>],
                              sender[s] \in OldHeader)'
    BY Zenon DEF EventsOk
  <2>1. EventOk(tick, snd[s], PacketsOf(s, tick), EventLength[<<s, tick>>],
                sender[s] \in OldHeader)
    BY DEF SendInv, EventsOk
  <2> QED BY <1>1, <2>1, Zenon
<1> QED BY <1>2, <1>3 DEF SendInv

\* Tiles, as the property puts it.
LEMMA TilesCover ==
  ASSUME NEW P \in SUBSET SentPackets, IsFiniteSet(P), NEW n \in Nat, NEW k \in 0 .. n,
         Tiles(P, k), NEW bytes, bytes \in SUBSET Nat, 0 .. n \subseteq bytes
  PROVE  /\ \A b \in bytes : Cardinality({p \in P : Covers(p, b)}) <= 1
         /\ {b \in bytes : {p \in P : Covers(p, b)} # {}} = 0 .. k - 1
         /\ \A p \in P : p.intact
<1>1. ASSUME NEW b \in bytes PROVE Cardinality({p \in P : Covers(p, b)}) <= 1
  <2> DEFINE C == {p \in P : Covers(p, b)}
  <2>1. CASE C = {}
    <3>1. Cardinality(C) = 0
      BY <2>1, FS_EmptySet
    <3> QED BY <3>1
  <2>2. CASE C # {}
    <3>1. PICK q : q \in C
      BY <2>2
    <3>2. C = {q}
      BY <3>1 DEF Tiles
    <3>3. Cardinality({q}) = 1
      BY FS_Singleton
    <3> QED BY <3>2, <3>3
  <2> QED BY <2>1, <2>2
<1>2. ASSUME NEW b \in bytes, NEW p \in P, Covers(p, b) PROVE b \in 0 .. k - 1
  <2>1. p.offset + p.bytes <= k /\ p.offset \in Nat /\ p.bytes \in Nat
    BY DEF Tiles, SentPackets
  <2> QED BY <1>2, <2>1 DEF Covers
<1>3. ASSUME NEW b \in 0 .. k - 1 PROVE b \in bytes /\ {p \in P : Covers(p, b)} # {}
  <2>1. b \in 0 .. n
    OBVIOUS
  <2>2. \E p \in P : Covers(p, b)
    BY Zenon DEF Tiles
  <2> QED BY <2>1, <2>2
<1>4. {b \in bytes : {p \in P : Covers(p, b)} # {}} = 0 .. k - 1
  BY <1>2, <1>3
<1>5. \A p \in P : p.intact
  BY Zenon DEF Tiles
<1> QED BY <1>1, <1>4, <1>5

\* The property the runs check follows from the invariant.
LEMMA SendInvTiles == SendInv => SentPacketsTile
<1> SUFFICES ASSUME SendInv, NEW src \in Sources, NEW tick \in Ticks
             PROVE  LET length  == EventLength[<<src, tick>>]
                        bytes   == 0 .. length + MaxUdpPayload
                    IN  /\ \A b \in bytes : Cardinality(Covering(src, tick, b)) <= 1
                        /\ \E k \in 0 .. length :
                              /\ {b \in bytes : Covering(src, tick, b) # {}} = 0 .. k - 1
                              /\ tick < snd[src].tick /\ ~CanFailSend => k = length
                        /\ \A p \in PacketsOf(src, tick) : p.intact
                        /\ sender[src] \in OldHeader => Marked(src, tick)
  BY Zenon DEF SentPacketsTile
<1> DEFINE n == EventLength[<<src, tick>>]
           bytes == 0 .. n + MaxUdpPayload
           P == PacketsOf(src, tick)
           c == snd[src]
<1>1. P \in SUBSET SentPackets /\ IsFiniteSet(P)
  BY PacketsOfType DEF SendInv
<1>2. n \in Nat /\ tick \in Nat /\ c \in Calls /\ MaxUdpPayload \in Nat
  BY EventLengthType, ChannelAssumption, PayloadAssumption DEF SendInv, SendTypes
<1>3. EventOk(tick, c, P, n, sender[src] \in OldHeader)
  BY DEF SendInv, EventsOk
<1>4. \A b : Covering(src, tick, b) = {p \in P : Covers(p, b)}
  BY Zenon DEF Covering, Covers
<1>5. bytes \in SUBSET Nat /\ 0 .. n \subseteq bytes
  BY <1>2
<1>6. sender[src] \in OldHeader => Marked(src, tick)
  BY <1>3, Zenon DEF EventOk, Numbered, Marked
<1> HIDE DEF n, bytes, P, c
<1>7. \E k \in 0 .. n : Tiles(P, k) /\ (tick < c.tick /\ ~CanFailSend => k = n)
  <2>1. CASE tick > c.tick
    <3>1. P = {}
      BY <1>3, <2>1 DEF EventOk
    <3>2. Tiles(P, 0) /\ 0 \in 0 .. n /\ ~(tick < c.tick)
      BY <1>2, <2>1, <3>1, TilesNone DEF Calls
    <3> QED BY <3>2
  <2>2. CASE tick = c.tick
    <3>1. Midway(c, P, n) /\ ~(tick < c.tick)
      BY <1>2, <1>3, <2>2 DEF EventOk
    <3>2. Tiles(P, c.localOffset) /\ c.localOffset + c.remainingBytes = n
      BY <3>1 DEF Midway
    <3>3. c.localOffset \in 0 .. n
      BY <1>2, <3>2 DEF Calls
    <3> QED BY <3>1, <3>2, <3>3
  <2>3. CASE tick < c.tick
    BY <1>3, <2>3, Zenon DEF EventOk
  <2> QED BY <1>2, <2>1, <2>2, <2>3 DEF Calls
<1>8. PICK k \in 0 .. n : Tiles(P, k) /\ (tick < c.tick /\ ~CanFailSend => k = n)
  BY <1>7
<1>9. /\ \A b \in bytes : Cardinality({p \in P : Covers(p, b)}) <= 1
      /\ {b \in bytes : {p \in P : Covers(p, b)} # {}} = 0 .. k - 1
      /\ \A p \in P : p.intact
  BY <1>1, <1>2, <1>5, <1>8, TilesCover
<1>10. {b \in bytes : Covering(src, tick, b) # {}} = 0 .. k - 1
  BY <1>4, <1>9
<1>11. \A b \in bytes : Cardinality(Covering(src, tick, b)) <= 1
  BY <1>4, <1>9, Zenon
<1> QED BY <1>6, <1>8, <1>9, <1>10, <1>11, Zenon DEF n, bytes, P, c

LEMMA SendInvStep ==
  ASSUME SendInv, [Next]_vars
  PROVE  SendInv'
<1>1. ASSUME NEW src \in Sources, Sending(src) PROVE SendInv'
  BY <1>1, SenderStepKeeps DEF Sending
<1>2. CASE UNCHANGED sndVars
  BY <1>2, SendInvStays DEF sndVars
<1> QED
  BY <1>1, <1>2 DEF Next, vars, Receiving, Lose, Duplicate, Returning, Failing, Opening,
                    Finished

\* What has been sent of an event is always its first bytes, each in exactly one
\* packet and unharmed by the headers written into the caller's buffer, with the
\* numbers and marks of their places; all of it when send() has not failed: the
\* loops of ejfat_packetize.hpp, for all event lengths, payload sizes, paths and
\* header sizes.
THEOREM SentTile == Spec => []SentPacketsTile
<1>1. Init => SendInv
  BY SendInitOk DEF Init
<1>2. SendInv /\ [Next]_vars => SendInv'
  BY SendInvStep
<1> QED BY <1>1, <1>2, SendInvTiles, PTL DEF Spec

-----------------------------------------------------------------------------
(* What is on the way has been sent.                                       *)

NetPackets == [src : Sources, tick : Ticks, offset : Nat, bytes : Nat, length : Nat]

SameData(s, p) == /\ s.src = p.src /\ s.tick = p.tick
                  /\ s.offset = p.offset /\ s.bytes = p.bytes

\* p is a copy of a packet in S.
CopyOfOne(p, S) == /\ p.length = EventLength[<<p.src, p.tick>>]
                   /\ \E s \in S : SameData(s, p)

NetFromSent ==
    /\ net \in Seq(NetPackets)
    /\ \A i \in 1 .. Len(net) : CopyOfOne(net[i], sent)

\* The elements of r are elements of s at different places, none at place i.
LeftWithout(r, s, i) ==
    /\ \A j \in 1 .. Len(r) : \E k \in 1 .. Len(s) : k # i /\ r[j] = s[k]
    /\ \A j1, j2 \in 1 .. Len(r) : j1 # j2 =>
          \E k1, k2 \in 1 .. Len(s) : /\ k1 # k2 /\ k1 # i /\ k2 # i
                                      /\ r[j1] = s[k1] /\ r[j2] = s[k2]

LEMMA RemoveAtMaps ==
  ASSUME NEW S, NEW s \in Seq(S), NEW i \in 1 .. Len(s)
  PROVE  RemoveAt(s, i) \in Seq(S) /\ LeftWithout(RemoveAt(s, i), s, i)
<1> DEFINE r == RemoveAt(s, i)
           n == Len(s)
           m == Len(r)
<1>0. n \in Nat /\ i \in 1 .. n
  OBVIOUS
<1>1. /\ r \in Seq(S) /\ m = n - 1
      /\ \A j \in 1 .. n - 1 : r[j] = IF j < i THEN s[j] ELSE s[j + 1]
  BY RemoveAtKeeps, Zenon
<1> HIDE DEF r, n, m
<1>2. /\ r \in Seq(S) /\ m = n - 1
      /\ \A j \in 1 .. m : r[j] = IF j < i THEN s[j] ELSE s[j + 1]
  BY <1>1, Zenon
<1> DEFINE f(j) == IF j < i THEN j ELSE j + 1
<1>3. ASSUME NEW j \in 1 .. m PROVE f(j) \in 1 .. n /\ f(j) # i /\ r[j] = s[f(j)]
  <2>1. CASE j < i
    BY <2>1, <1>0, <1>2
  <2>2. CASE ~(j < i)
    BY <2>2, <1>0, <1>2
  <2> QED BY <2>1, <2>2
<1>4. ASSUME NEW j1 \in 1 .. m, NEW j2 \in 1 .. m, j1 # j2 PROVE f(j1) # f(j2)
  BY <1>0, <1>2, <1>4
<1> HIDE DEF f
<1> QED BY <1>2, <1>3, <1>4, Zenon DEF r, n, m, LeftWithout

LEMMA Taken ==
  ASSUME net \in Seq(NetPackets), NEW i \in 1 .. Len(net), Arrives(i)
  PROVE  net' \in Seq(NetPackets) /\ LeftWithout(net', net, i)
BY RemoveAtMaps, Zenon DEF Arrives

\* What is known of the packets sent.
LEMMA SentFacts ==
  ASSUME SendInv, NEW s \in sent
  PROVE  /\ s \in SentPackets
         /\ s.offset + s.bytes <= EventLength[<<s.src, s.tick>>]
         /\ s.bytes = 0 => EventLength[<<s.src, s.tick>>] = 0
         /\ \A r \in sent : \A b \in Nat :
               s.src = r.src /\ s.tick = r.tick /\ Covers(s, b) /\ Covers(r, b) => s = r
<1> DEFINE n == EventLength[<<s.src, s.tick>>]
           P == PacketsOf(s.src, s.tick)
           c == snd[s.src]
<1>1. s \in SentPackets
  BY DEF SendInv, SendTypes
<1>2. s.src \in Sources /\ s.tick \in Ticks /\ s.tick \in Nat
  BY <1>1, ChannelAssumption DEF SentPackets
<1>3. n \in Nat /\ c \in Calls /\ c.tick \in Nat /\ c.localOffset \in Nat
      /\ c.remainingBytes \in Nat
  BY <1>2, EventLengthType DEF SendInv, SendTypes, Calls
<1>4. EventOk(s.tick, c, P, n, sender[s.src] \in OldHeader)
  BY <1>2 DEF SendInv, EventsOk
<1>5. s \in P
  BY DEF PacketsOf
<1>6. \A r \in sent : s.src = r.src /\ s.tick = r.tick => r \in P
  BY DEF PacketsOf
<1>7. P \in SUBSET SentPackets
  BY PacketsOfType DEF SendInv
<1> HIDE DEF n, P, c
<1>8. PICK k \in Nat : k <= n /\ Tiles(P, k) /\ NoneEmpty(P, n)
  <2>1. CASE s.tick > c.tick
    BY <1>4, <1>5, <2>1 DEF EventOk
  <2>2. CASE s.tick = c.tick
    <3>1. Midway(c, P, n)
      BY <1>4, <2>2 DEF EventOk
    <3>2. Tiles(P, c.localOffset) /\ c.localOffset + c.remainingBytes = n /\ NoneEmpty(P, n)
      BY <3>1 DEF Midway
    <3> QED BY <1>3, <3>2
  <2>3. CASE s.tick < c.tick
    <3>1. PICK k \in 0 .. n : Tiles(P, k) /\ NoneEmpty(P, n)
      BY <1>4, <2>3, Zenon DEF EventOk
    <3> QED BY <1>3, <3>1
  <2> QED BY <1>2, <1>3, <2>1, <2>2, <2>3
<1>9. s.offset + s.bytes <= n
  <2>1. s.offset + s.bytes <= k
    BY <1>5, <1>8 DEF Tiles
  <2> QED BY <1>1, <1>3, <1>8, <2>1 DEF SentPackets
<1>10. s.bytes = 0 => n = 0
  BY <1>5, <1>8 DEF NoneEmpty
<1>11. \A r \in sent : \A b \in Nat :
          s.src = r.src /\ s.tick = r.tick /\ Covers(s, b) /\ Covers(r, b) => s = r
  BY <1>5, <1>6, <1>8, Zenon DEF Tiles
<1> QED BY <1>1, <1>9, <1>10, <1>11 DEF n

\* What a source does to the packets.
LEMMA SendingAdds ==
  ASSUME SendInv, NEW src \in Sources, Sending(src)
  PROVE  /\ sent \subseteq sent'
         /\ \/ net' = net
            \/ \E p \in NetPackets : /\ net' = Append(net, p)
                                     /\ p.length = EventLength[<<p.src, p.tick>>]
                                     /\ \E r \in sent' \ sent : SameData(r, p)
<1>1. ASSUME NEW fn, SendPacket(src, fn)
      PROVE  /\ sent \subseteq sent'
             /\ \/ net' = net
                \/ \E p \in NetPackets : /\ net' = Append(net, p)
                                         /\ p.length = EventLength[<<p.src, p.tick>>]
                                         /\ \E r \in sent' \ sent : SameData(r, p)
  <2> DEFINE c == snd[src]
             r == Record(src, c, fn)
             p == Packet(src, c.tick, c.localOffset, BytesToWrite(c))
             P == PacketsOf(src, c.tick)
             n == EventLength[<<src, c.tick>>]
  <2>1. /\ c \in Calls /\ c.tick \in Ticks /\ Looping(c) /\ sent' = sent \cup {r}
        /\ net' = net \/ net' = Append(net, p)
    BY <1>1 DEF SendPacket, InLoop, SourceDone, SendInv, SendTypes
  <2>2. EventOk(c.tick, c, P, n, sender[src] \in OldHeader)
    BY <2>1 DEF SendInv, EventsOk
  <2>3. Midway(c, P, n)
    BY <2>2 DEF EventOk
  <2>4. n \in Nat /\ P \in SUBSET SentPackets
    BY <2>1, EventLengthType, PacketsOfType DEF SendInv
  <2>5. c.maxUdpPayload >= 1
    BY <2>3 DEF Midway
  <2>6. /\ r.src = src /\ r.tick = c.tick /\ r.offset = c.localOffset
        /\ r.bytes = BytesToWrite(c)
    BY <2>1, <2>5, RecordFields
  <2>7. BytesToWrite(c) \in Nat /\ c.localOffset \in Nat
    BY <2>1, <2>5, BytesToWriteBounds DEF Calls
  <2>8. \A q \in P : q.offset < c.localOffset
    BY <2>1, <2>3, <2>4, LoopingFinds
  <2>9. r \notin sent
    <3>1. ASSUME r \in sent PROVE FALSE
      <4>1. r \in P
        BY <2>6, <3>1 DEF PacketsOf
      <4> HIDE DEF r, c, P
      <4>2. r.offset < c.localOffset
        BY <2>8, <4>1
      <4> QED BY <2>6, <2>7, <4>2
    <3> QED BY <3>1
  <2>10. p \in NetPackets /\ p.length = EventLength[<<p.src, p.tick>>]
    BY <2>1, <2>4, <2>7 DEF NetPackets, Packet
  <2>11. SameData(r, p)
    BY <2>6 DEF SameData, Packet
  <2> HIDE DEF c, r, p
  <2>12. r \in sent' \ sent
    BY <2>1, <2>9
  <2> QED BY <2>1, <2>10, <2>11, <2>12, Zenon
<1>2. CASE UNCHANGED <<net, sent>>
  BY <1>2
<1>3. SendStep(src) \/ SendFails(src)
  BY DEF Sending
<1>4. \/ \E fn : SendPacket(src, fn)
      \/ UNCHANGED <<net, sent>>
  BY <1>3 DEF SendStep, SendFails, SendNew, FastNew, Fast, Send, Sendto, Sendmsg,
              SendBufferOpens, Loop, ShrinkPayload, SendReturns
<1> QED BY <1>1, <1>2, <1>4, Zenon

\* What the other steps do to what is on the way.
LEMMA NetSteps ==
  ASSUME [Next]_vars
  PROVE  \/ \E src \in Sources : Sending(src)
         \/ /\ UNCHANGED sndVars
            /\ \/ UNCHANGED net
               \/ \E i \in 1 .. Len(net) : Arrives(i)
               \/ \E i \in 1 .. Len(net) : Duplicate(i)
<1> USE DEF sndVars, vars
<1>1. ASSUME NEW i \in 1 .. Len(net), Receiving(i)
      PROVE  UNCHANGED sndVars /\ Arrives(i)
  BY <1>1 DEF Receiving, ReceiveStep, GetCompletePacketizedBuffer,
              GetCompleteAllocatedBuffer, GetPacketizedBuffer, Complete, Crash,
              RejectOtherSource, DumpNewTick, DumpSameTick, AcceptPacket, BufferTooSmall,
              Overrun, StagedOutOfOrder, StagedReject, StagedAccept, Read, ReadAny
<1>2. ASSUME NEW i \in 1 .. Len(net), Lose(i)
      PROVE  UNCHANGED sndVars /\ Arrives(i)
  BY <1>2 DEF Lose
<1>3. ASSUME NEW i \in 1 .. Len(net), Duplicate(i)
      PROVE  UNCHANGED sndVars
  BY <1>3 DEF Duplicate
<1>4. CASE Returning
  BY <1>4 DEF Returning, CallAgain
<1>5. CASE Failing
  BY <1>5 DEF Failing, ReceiveFails
<1>6. CASE Opening
  BY <1>6 DEF Opening, OpenSocket
<1>7. CASE Finished \/ UNCHANGED vars
  BY <1>7 DEF Finished
<1> QED BY <1>1, <1>2, <1>3, <1>4, <1>5, <1>6, <1>7 DEF Next

LEMMA NetFromSentStep ==
  ASSUME SendInv, NetFromSent, [Next]_vars
  PROVE  NetFromSent'
<1>1. net \in Seq(NetPackets) /\ \A i \in 1 .. Len(net) : CopyOfOne(net[i], sent)
  BY DEF NetFromSent
<1>2. ASSUME NEW src \in Sources, Sending(src) PROVE NetFromSent'
  <2>1. sent \subseteq sent'
    BY <1>2, SendingAdds
  <2>2. \A i \in 1 .. Len(net) : CopyOfOne(net[i], sent')
    BY <1>1, <2>1 DEF CopyOfOne
  <2>3. CASE net' = net
    BY <1>1, <2>2, <2>3 DEF NetFromSent
  <2>4. CASE net' # net
    <3>1. PICK p \in NetPackets : net' = Append(net, p) /\ CopyOfOne(p, sent')
      BY <1>2, <2>4, SendingAdds, Zenon DEF CopyOfOne
    <3>2. net' \in Seq(NetPackets)
      BY <1>1, <3>1
    <3>3. \A i \in 1 .. Len(net') : net'[i] = p \/ \E k \in 1 .. Len(net) : net'[i] = net[k]
      BY <1>1, <3>1
    <3>4. \A i \in 1 .. Len(net') : CopyOfOne(net'[i], sent')
      BY <2>2, <3>1, <3>3, Zenon
    <3> QED BY <3>2, <3>4, Zenon DEF NetFromSent
  <2> QED BY <2>3, <2>4
<1>3. ASSUME NEW i \in 1 .. Len(net), Arrives(i), UNCHANGED sndVars PROVE NetFromSent'
  <2>1. /\ net' \in Seq(NetPackets)
        /\ \A j \in 1 .. Len(net') : \E k \in 1 .. Len(net) : k # i /\ net'[j] = net[k]
    BY <1>1, <1>3, Taken DEF LeftWithout
  <2>2. sent' = sent
    BY <1>3 DEF sndVars
  <2> QED BY <1>1, <2>1, <2>2, Zenon DEF NetFromSent
<1>4. ASSUME NEW i \in 1 .. Len(net), Duplicate(i), UNCHANGED sndVars PROVE NetFromSent'
  <2>1. net' = InsertAt(net, i + 1, net[i]) /\ sent' = sent
    BY <1>4 DEF Duplicate, sndVars
  <2>2. net' \in Seq(NetPackets) /\ MadeFrom(net', net)
    BY <1>1, <2>1, InsertAtKeeps, Zenon
  <2> QED BY <1>1, <2>1, <2>2, Zenon DEF NetFromSent, MadeFrom
<1>5. ASSUME UNCHANGED net, UNCHANGED sndVars PROVE NetFromSent'
  BY <1>1, <1>5 DEF NetFromSent, sndVars
<1> QED BY <1>2, <1>3, <1>4, <1>5, NetSteps, Zenon

\* A packet on the way lies within its event, and is empty only with it.
LEMMA OnTheWayFacts ==
  ASSUME SendInv, NetFromSent, NEW i \in 1 .. Len(net)
  PROVE  /\ net[i] \in NetPackets
         /\ net[i].length = EventLength[<<net[i].src, net[i].tick>>]
         /\ net[i].offset + net[i].bytes <= net[i].length
         /\ net[i].bytes = 0 => net[i].length = 0
         /\ \E s \in sent : SameData(s, net[i])
<1>1. net[i] \in NetPackets /\ CopyOfOne(net[i], sent)
  BY DEF NetFromSent
<1> DEFINE p == net[i]
<1> HIDE DEF p
<1>2. PICK s \in sent : SameData(s, p) /\ p.length = EventLength[<<p.src, p.tick>>]
  BY <1>1, Zenon DEF CopyOfOne, p
<1>3. /\ s.offset + s.bytes <= EventLength[<<s.src, s.tick>>]
      /\ s.bytes = 0 => EventLength[<<s.src, s.tick>>] = 0
  BY SentFacts
<1>4. /\ p.offset + p.bytes <= p.length
      /\ p.bytes = 0 => p.length = 0
  BY <1>2, <1>3 DEF SameData
<1> QED BY <1>1, <1>2, <1>4 DEF p

\* A step that makes the receiver divide has a packet without data.
LEMMA CrashStep ==
  ASSUME [Next]_vars, broken # "division", broken' = "division"
  PROVE  UNCHANGED sent /\ \E i \in 1 .. Len(net) : net[i].bytes = 0
<1>1. ASSUME NEW i \in 1 .. Len(net), Crash(i) PROVE net[i].bytes = 0
  <2>1. Verdict(net[i]) = "crash"
    BY <1>1 DEF Crash, Read
  <2> QED BY <2>1 DEF Verdict, DividesByZero
<1>2. PICK i \in 1 .. Len(net) : Receiving(i)
  BY DEF Next, vars, sndVars, rcvVars, Sending, Lose, Duplicate, Returning, CallAgain,
         Failing, ReceiveFails, Opening, OpenSocket, Finished
<1>3. Crash(i) /\ UNCHANGED sndVars
  BY <1>2 DEF Receiving, ReceiveStep, GetCompletePacketizedBuffer,
              GetCompleteAllocatedBuffer, GetPacketizedBuffer, Complete, Crash,
              RejectOtherSource, DumpNewTick, DumpSameTick, AcceptPacket, BufferTooSmall,
              Overrun, StagedOutOfOrder, StagedReject, StagedAccept
<1> QED BY <1>1, <1>3 DEF sndVars

LEMMA DividesStep ==
  ASSUME SendInv, NetFromSent, DividesOnlyByData, [Next]_vars
  PROVE  DividesOnlyByData'
<1>1. sent \subseteq sent'
  BY SendingAdds, NetSteps DEF sndVars
<1>2. CASE broken = "division"
  BY <1>1, <1>2 DEF DividesOnlyByData
<1>3. CASE broken' # "division"
  BY <1>3 DEF DividesOnlyByData
<1>4. CASE broken # "division" /\ broken' = "division"
  <2>1. PICK i \in 1 .. Len(net) : net[i].bytes = 0
    BY <1>4, CrashStep
  <2>2. /\ net[i].length = EventLength[<<net[i].src, net[i].tick>>]
        /\ net[i].length = 0
        /\ \E s \in sent : SameData(s, net[i])
    BY <2>1, OnTheWayFacts
  <2>3. \E s \in sent : EventLength[<<s.src, s.tick>>] = 0
    BY <2>2 DEF SameData
  <2> QED BY <1>1, <2>3 DEF DividesOnlyByData
<1> QED BY <1>2, <1>3, <1>4

\* The receiver's guess at the number of packets divides by zero only if a source
\* has sent an event without data (ejfat_assemble_ersap.hpp:875), whatever is
\* lost, overtaken or doubled, and for all event lengths and payload sizes.
THEOREM DivisionNeedsEmptyEvent == Spec => []DividesOnlyByData
<1>1. Init => SendInv /\ NetFromSent /\ DividesOnlyByData
  BY SendInitOk DEF Init, SendInit, ReceiveInit, NetFromSent, DividesOnlyByData
<1>2. SendInv /\ NetFromSent /\ DividesOnlyByData /\ [Next]_vars
         => (SendInv /\ NetFromSent /\ DividesOnlyByData)'
  BY SendInvStep, NetFromSentStep, DividesStep
<1> QED BY <1>1, <1>2, PTL DEF Spec

-----------------------------------------------------------------------------
(* The receiver's buffer, and the packets on the way to it.                *)

Events == Sources \X Ticks

SameEvent(p, q) == p.src = q.src /\ p.tick = q.tick

\* Two packets carry no byte of one event twice.
Apart(p, q) == SameEvent(p, q) => \A b \in Nat : ~(Covers(p, b) /\ Covers(q, b))

\* No byte of the packet is in the buffer.
Unread(p, buffer) == \A b \in Bytes : Covers(p, b) => buffer[b] # <<p.src, p.tick>>

\* Every byte of an event is sent once.
SentOnce == \A s, r \in sent : s # r => Apart(s, r)

BufType == buf \in [Bytes -> Events \cup {Empty}] /\ copies \in Nat

HeldWasSent ==
    \A b \in Bytes :
        buf[b] = Empty \/ \E s \in sent : buf[b] = <<s.src, s.tick>> /\ Covers(s, b)

OnceOnTheWay ==
    copies = 0 => \A i, j \in 1 .. Len(net) : i # j => Apart(net[i], net[j])

NotReadYet == copies = 0 => \A i \in 1 .. Len(net) : Unread(net[i], buf)

PathInv == BufType /\ HeldWasSent /\ OnceOnTheWay /\ NotReadYet

LEMMA BytesOfEvents ==
  /\ Bytes \subseteq Nat
  /\ \A e \in Events : 0 .. EventLength[e] - 1 \subseteq Bytes
<1>1. DOMAIN EventLength = Events
  BY ChannelAssumption DEF Events
<1>2. \A e \in Events : EventLength[e] \in Nat
  BY ChannelAssumption DEF Events
<1>3. BufLen \in Nat
  BY AssembleAssumption
<1> QED BY <1>1, <1>2, <1>3 DEF Bytes

\* Empty is no event.
LEMMA EmptyIsNoEvent == Empty \notin Events
BY ChannelAssumption DEF Empty, NoTick, Events

LEMMA CopyType ==
  ASSUME BufType, NEW p \in NetPackets
  PROVE  /\ Copy(p) \in [Bytes -> Events \cup {Empty}]
         /\ \A b \in Bytes : Copy(p)[b] = IF Covers(p, b) THEN <<p.src, p.tick>> ELSE buf[b]
<1>1. <<p.src, p.tick>> \in Events
  BY DEF NetPackets, Events
<1> QED BY <1>1 DEF Copy, BufType, Covers

LEMMA CopyLeavesUnread ==
  ASSUME BufType, NEW p \in NetPackets, NEW q \in NetPackets, Apart(q, p), Unread(q, buf)
  PROVE  Unread(q, Copy(p))
<1> SUFFICES ASSUME NEW b \in Bytes, Covers(q, b), Copy(p)[b] = <<q.src, q.tick>>
             PROVE  FALSE
  BY DEF Unread
<1>1. b \in Nat
  BY BytesOfEvents
<1>2. CASE Covers(p, b)
  <2>1. <<p.src, p.tick>> = <<q.src, q.tick>>
    BY <1>2, CopyType
  <2>2. SameEvent(q, p)
    BY <2>1 DEF SameEvent
  <2> QED BY <1>1, <1>2, <2>2 DEF Apart
<1>3. CASE ~Covers(p, b)
  BY <1>3, CopyType DEF Unread
<1> QED BY <1>2, <1>3

LEMMA SentOnceHolds == SendInv => SentOnce
<1> SUFFICES ASSUME SendInv, NEW s \in sent, NEW r \in sent, s # r,
                    SameEvent(s, r), NEW b \in Nat, Covers(s, b), Covers(r, b)
             PROVE  FALSE
  BY DEF SentOnce, Apart
<1> QED BY SentFacts DEF SameEvent

\* A packet sent now overlaps neither one sent before nor what has been read.
LEMMA NewIsApart ==
  ASSUME SentOnce', HeldWasSent, NEW p \in NetPackets, NEW r \in sent' \ sent,
         SameData(r, p), sent \subseteq sent'
  PROVE  /\ \A q : CopyOfOne(q, sent) => Apart(q, p) /\ Apart(p, q)
         /\ Unread(p, buf)
<1>1. ASSUME NEW s \in sent, s.src = p.src, s.tick = p.tick, NEW b \in Nat,
             Covers(s, b), Covers(p, b)
      PROVE  FALSE
  <2>1. s # r /\ s \in sent' /\ r \in sent'
    OBVIOUS
  <2>2. Apart(s, r)
    BY <2>1 DEF SentOnce
  <2>3. SameEvent(s, r) /\ Covers(r, b)
    BY <1>1 DEF SameEvent, SameData, Covers
  <2> QED BY <1>1, <2>2, <2>3 DEF Apart
<1>2. ASSUME NEW q, CopyOfOne(q, sent), SameEvent(q, p), NEW b \in Nat,
             Covers(q, b), Covers(p, b)
      PROVE  FALSE
  <2>1. PICK s \in sent : SameData(s, q)
    BY <1>2 DEF CopyOfOne
  <2>2. s.src = p.src /\ s.tick = p.tick /\ Covers(s, b)
    BY <1>2, <2>1 DEF SameData, SameEvent, Covers
  <2> QED BY <1>1, <1>2, <2>2
<1>3. ASSUME NEW b \in Bytes, Covers(p, b), buf[b] = <<p.src, p.tick>> PROVE FALSE
  <2>1. buf[b] \in Events
    BY <1>3 DEF Events, NetPackets
  <2>2. PICK s \in sent : buf[b] = <<s.src, s.tick>> /\ Covers(s, b)
    BY <2>1, EmptyIsNoEvent DEF HeldWasSent
  <2>3. s.src = p.src /\ s.tick = p.tick
    BY <1>3, <2>2
  <2>4. b \in Nat
    BY BytesOfEvents
  <2> QED BY <1>1, <1>3, <2>2, <2>3, <2>4
<1> QED BY <1>2, <1>3 DEF Apart, Unread, SameEvent

\* What a step does to the path and the buffer.
LEMMA PathSteps ==
  ASSUME [Next]_vars
  PROVE  \/ \E src \in Sources : Sending(src) /\ UNCHANGED <<buf, copies>>
         \/ /\ UNCHANGED sndVars
            /\ \/ UNCHANGED <<net, buf, copies>>
               \/ \E i \in 1 .. Len(net) : /\ Arrives(i)
                                           /\ UNCHANGED copies
                                           /\ buf' = buf \/ buf' = Copy(net[i])
               \/ copies' = copies + 1 /\ UNCHANGED buf
<1> USE DEF sndVars, rcvVars, vars
<1>1. ASSUME NEW i \in 1 .. Len(net), Receiving(i)
      PROVE  /\ UNCHANGED sndVars /\ Arrives(i) /\ UNCHANGED copies
             /\ buf' = buf \/ buf' = Copy(net[i])
  BY <1>1 DEF Receiving, ReceiveStep, GetCompletePacketizedBuffer,
              GetCompleteAllocatedBuffer, GetPacketizedBuffer, Complete, Crash,
              RejectOtherSource, DumpNewTick, DumpSameTick, AcceptPacket, BufferTooSmall,
              Overrun, StagedOutOfOrder, StagedReject, StagedAccept, Read, ReadAny
<1>2. ASSUME NEW i \in 1 .. Len(net), Lose(i)
      PROVE  UNCHANGED <<sndVars, buf, copies>> /\ Arrives(i)
  BY <1>2 DEF Lose
<1>3. ASSUME NEW i \in 1 .. Len(net), Duplicate(i)
      PROVE  UNCHANGED <<sndVars, buf>> /\ copies' = copies + 1
  BY <1>3 DEF Duplicate
<1>4. CASE Returning
  BY <1>4 DEF Returning, CallAgain
<1>5. CASE Failing
  BY <1>5 DEF Failing, ReceiveFails
<1>6. CASE Opening
  BY <1>6 DEF Opening, OpenSocket
<1>7. CASE Finished \/ UNCHANGED vars
  BY <1>7 DEF Finished
<1>8. ASSUME NEW src \in Sources, Sending(src) PROVE UNCHANGED <<buf, copies>>
  BY <1>8 DEF Sending
<1> QED BY <1>1, <1>2, <1>3, <1>4, <1>5, <1>6, <1>7, <1>8 DEF Next

LEMMA PathSending ==
  ASSUME SendInv, NetFromSent, SentOnce', PathInv, NEW src \in Sources, Sending(src),
         UNCHANGED <<buf, copies>>
  PROVE  PathInv'
<1>1. sent \subseteq sent'
  BY SendingAdds
<1>2. BufType' /\ HeldWasSent'
  BY <1>1 DEF PathInv, BufType, HeldWasSent
<1>3. net \in Seq(NetPackets) /\ \A i \in 1 .. Len(net) : CopyOfOne(net[i], sent)
  BY DEF NetFromSent
<1>4. CASE net' = net
  BY <1>2, <1>4 DEF PathInv, OnceOnTheWay, NotReadYet, Unread
<1>5. CASE net' # net
  <2>1. PICK p \in NetPackets : /\ net' = Append(net, p)
                                /\ \E r \in sent' \ sent : SameData(r, p)
    BY <1>5, SendingAdds, Zenon
  <2>2. /\ \A q : CopyOfOne(q, sent) => Apart(q, p) /\ Apart(p, q)
        /\ Unread(p, buf)
    <3>1. PICK r \in sent' \ sent : SameData(r, p)
      BY <2>1
    <3>2. HeldWasSent
      BY DEF PathInv
    <3> QED BY <1>1, <3>1, <3>2, NewIsApart, Zenon
  <2> DEFINE n == Len(net)
  <2>3. n \in Nat /\ Len(net') = n + 1 /\ net'[n + 1] = p
    BY <1>3, <2>1
  <2>4. \A i \in 1 .. n : net'[i] = net[i]
    BY <1>3, <2>1
  <2>5. \A i \in 1 .. n : CopyOfOne(net[i], sent)
    BY <1>3
  <2> HIDE DEF n
  <2>6. ASSUME copies = 0, NEW i \in 1 .. n + 1, NEW j \in 1 .. n + 1, i # j
        PROVE  Apart(net'[i], net'[j])
    <3>1. CASE i = n + 1
      <4>1. j \in 1 .. n
        BY <2>3, <2>6, <3>1
      <4> QED BY <2>2, <2>3, <2>4, <2>5, <3>1, <4>1, Zenon
    <3>2. CASE j = n + 1
      <4>1. i \in 1 .. n
        BY <2>3, <2>6, <3>2
      <4> QED BY <2>2, <2>3, <2>4, <2>5, <3>2, <4>1, Zenon
    <3>3. CASE i # n + 1 /\ j # n + 1
      <4>1. i \in 1 .. n /\ j \in 1 .. n
        BY <2>3, <3>3
      <4>2. Apart(net[i], net[j])
        BY <2>6, <4>1, Zenon DEF PathInv, OnceOnTheWay, n
      <4> QED BY <2>4, <4>1, <4>2, Zenon
    <3> QED BY <3>1, <3>2, <3>3
  <2>7. ASSUME copies = 0, NEW i \in 1 .. n + 1 PROVE Unread(net'[i], buf)
    <3>1. CASE i = n + 1
      BY <2>2, <2>3, <3>1
    <3>2. CASE i # n + 1
      <4>1. i \in 1 .. n
        BY <2>3, <3>2
      <4>2. Unread(net[i], buf)
        BY <2>7, <4>1, Zenon DEF PathInv, NotReadYet, n
      <4> QED BY <2>4, <4>1, <4>2, Zenon
    <3> QED BY <3>1, <3>2
  <2>8. OnceOnTheWay'
    BY <2>3, <2>6, Zenon DEF OnceOnTheWay
  <2>9. NotReadYet'
    BY <2>3, <2>7, Zenon DEF NotReadYet
  <2> QED BY <1>2, <2>8, <2>9, Zenon DEF PathInv
<1> QED BY <1>4, <1>5

LEMMA PathTaken ==
  ASSUME SendInv, NetFromSent, PathInv, UNCHANGED <<sndVars, copies>>,
         NEW i \in 1 .. Len(net), Arrives(i), buf' = buf \/ buf' = Copy(net[i])
  PROVE  PathInv'
<1>1. /\ net \in Seq(NetPackets) /\ sent' = sent /\ copies' = copies
      /\ BufType /\ HeldWasSent /\ OnceOnTheWay /\ NotReadYet
  BY DEF NetFromSent, sndVars, PathInv
<1>2. LeftWithout(net', net, i)
  BY <1>1, Taken
<1>3. /\ \A j \in 1 .. Len(net') : \E k \in 1 .. Len(net) : k # i /\ net'[j] = net[k]
      /\ \A j1, j2 \in 1 .. Len(net') : j1 # j2 =>
            \E k1, k2 \in 1 .. Len(net) : k1 # k2 /\ net'[j1] = net[k1] /\ net'[j2] = net[k2]
  <2>1. ASSUME NEW j1 \in 1 .. Len(net'), NEW j2 \in 1 .. Len(net'), j1 # j2
        PROVE  \E k1, k2 \in 1 .. Len(net) :
                  k1 # k2 /\ net'[j1] = net[k1] /\ net'[j2] = net[k2]
    BY <1>2, <2>1, Zenon DEF LeftWithout
  <2>2. \A j \in 1 .. Len(net') : \E k \in 1 .. Len(net) : k # i /\ net'[j] = net[k]
    BY <1>2, Zenon DEF LeftWithout
  <2> QED BY <2>1, <2>2, Zenon
<1>4. OnceOnTheWay'
  BY <1>1, <1>3, Zenon DEF OnceOnTheWay
<1>5. CASE buf' = buf
  <2>1. NotReadYet'
    BY <1>1, <1>3, <1>5, Zenon DEF NotReadYet
  <2>2. BufType' /\ HeldWasSent'
    BY <1>1, <1>5 DEF BufType, HeldWasSent
  <2> QED BY <1>4, <2>1, <2>2 DEF PathInv
<1>6. CASE buf' = Copy(net[i])
  <2> DEFINE p == net[i]
  <2>1. p \in NetPackets /\ \E s \in sent : SameData(s, p)
    BY <1>1, OnTheWayFacts
  <2>2. buf' = Copy(p)
    BY <1>6
  <2>3. \A k \in 1 .. Len(net) : net[k] \in NetPackets
    BY <1>1
  <2>4. copies = 0 => \A k \in 1 .. Len(net) :
                         k # i => Apart(net[k], p) /\ Unread(net[k], buf)
    BY <1>1, Zenon DEF OnceOnTheWay, NotReadYet
  <2> HIDE DEF p
  <2>5. copies = 0 => \A k \in 1 .. Len(net) : k # i => Unread(net[k], buf')
    BY <1>1, <2>1, <2>2, <2>3, <2>4, CopyLeavesUnread, Zenon
  <2>6. NotReadYet'
    BY <1>1, <1>3, <2>5, Zenon DEF NotReadYet
  <2>7. BufType'
    BY <1>1, <2>1, <2>2, CopyType DEF BufType
  <2>8. ASSUME NEW b \in Bytes
        PROVE  buf'[b] = Empty \/ \E s \in sent : buf'[b] = <<s.src, s.tick>> /\ Covers(s, b)
    <3>1. buf'[b] = IF Covers(p, b) THEN <<p.src, p.tick>> ELSE buf[b]
      BY <1>1, <2>1, <2>2, CopyType
    <3>2. CASE Covers(p, b)
      <4>1. PICK s \in sent : SameData(s, p)
        BY <2>1
      <4> QED BY <3>1, <3>2, <4>1 DEF SameData, Covers
    <3>3. CASE ~Covers(p, b)
      BY <1>1, <3>1, <3>3 DEF HeldWasSent
    <3> QED BY <3>2, <3>3
  <2>9. HeldWasSent'
    BY <1>1, <2>8, Zenon DEF HeldWasSent
  <2> QED BY <1>4, <2>6, <2>7, <2>9 DEF PathInv
<1> QED BY <1>5, <1>6

LEMMA PathStep ==
  ASSUME SendInv, NetFromSent, SentOnce', PathInv, [Next]_vars
  PROVE  PathInv'
<1>1. ASSUME UNCHANGED sndVars, copies' = copies + 1, UNCHANGED buf PROVE PathInv'
  <2>1. copies \in Nat /\ copies' # 0 /\ copies' \in Nat /\ sent' = sent
    BY <1>1 DEF PathInv, BufType, sndVars
  <2> QED BY <1>1, <2>1 DEF PathInv, BufType, HeldWasSent, OnceOnTheWay, NotReadYet
<1>2. ASSUME UNCHANGED <<sndVars, net, buf, copies>> PROVE PathInv'
  <2>1. UNCHANGED sent
    BY <1>2 DEF sndVars
  <2> QED BY <1>2, <2>1 DEF PathInv, BufType, HeldWasSent, OnceOnTheWay, NotReadYet, Unread
<1>3. ASSUME NEW src \in Sources, Sending(src), UNCHANGED <<buf, copies>> PROVE PathInv'
  BY <1>3, PathSending, Zenon
<1>4. ASSUME UNCHANGED sndVars, NEW i \in 1 .. Len(net), Arrives(i), UNCHANGED copies,
             buf' = buf \/ buf' = Copy(net[i])
      PROVE  PathInv'
  <2>1. UNCHANGED <<sndVars, copies>>
    BY <1>4
  <2> QED BY <1>4, <2>1, PathTaken, Zenon
<1>5. \/ \E src \in Sources : Sending(src) /\ UNCHANGED <<buf, copies>>
      \/ UNCHANGED <<sndVars, net, buf, copies>>
      \/ UNCHANGED sndVars /\ \E i \in 1 .. Len(net) : /\ Arrives(i)
                                                       /\ UNCHANGED copies
                                                       /\ buf' = buf \/ buf' = Copy(net[i])
      \/ UNCHANGED sndVars /\ copies' = copies + 1 /\ UNCHANGED buf
  BY PathSteps, SMT
<1> QED BY <1>1, <1>2, <1>3, <1>4, <1>5, Zenon

-----------------------------------------------------------------------------
(* One call of the receiver.                                               *)

Locals == [veryFirstRead : BOOLEAN, dumpTick : BOOLEAN, prevTick : Nat,
           expectedTick : Int, srcId : Sources \cup {"none"}, totalBytesRead : Nat,
           pktCount : Nat, discardedBufs : Nat, nextOffset : Nat, remainingLen : Int,
           rejectedPkt : Nat, socket : {"bound", "none", "again", "deaf"}]

Results == [status : {"running", "part", "BUF_TOO_SMALL", "OUT_OF_ORDER", "NO_REASSEMBLY",
                      "NETWORK_ERROR", "RECV_MSG"}]
           \cup [status : {"ok"}, src : Sources, tick : Ticks, bytes : Nat]

\* The event being put together.
InHand == <<rcv.srcId, rcv.prevTick>>

\* The bytes of event e that a buffer holds.
Held(buffer, e) == {b \in 0 .. EventLength[e] - 1 : buffer[b] = e}

RecvTypes == rcv \in Locals /\ result \in Results

InHandKnown == ~rcv.veryFirstRead => InHand \in Events

\* No more bytes are counted than there are in the buffer.
CountsBytes ==
    copies = 0 /\ ~InStages /\ ~rcv.veryFirstRead =>
        rcv.totalBytesRead <= Cardinality(Held(buf, InHand))

\* Parts taken in order are the beginning of the event.
PartsFollow ==
    InStages =>
        /\ rcv.nextOffset = rcv.totalBytesRead
        /\ rcv.veryFirstRead => rcv.nextOffset = 0
        /\ ~rcv.veryFirstRead => \A b \in 0 .. rcv.nextOffset - 1 : buf[b] = InHand

\* A tick that is not dumped has been begun with its first packet.
Starts ==
    ~InStages =>
        /\ rcv.veryFirstRead /\ ~rcv.dumpTick => rcv.prevTick = UintMax
        /\ rcv.dumpTick => rcv.veryFirstRead
        /\ ~rcv.veryFirstRead /\ rcv.prevTick # UintMax =>
              EventLength[InHand] = 0 \/ buf[0] = InHand

CallInv == /\ RecvTypes /\ InHandKnown /\ CountsBytes /\ PartsFollow /\ Starts
           /\ ReturnsEntireBuffer /\ StartsWithFirstPacket

\* A packet taken for the event in hand, or for a new one.
Fresh(p) == rcv.veryFirstRead \/ NewTick(p)

LEMMA VerdictFits ==
  ASSUME NEW p, Verdict(p) = "fits"
  PROVE  /\ ~OtherSource(p)
         /\ ~MissedFirst(p)
         /\ rcv.dumpTick => NewTick(p)
BY DEF Verdict

LEMMA CopiedFields ==
  ASSUME RecvTypes, NEW p \in NetPackets, ~OtherSource(p), rcv.dumpTick => NewTick(p)
  PROVE  /\ Copied(p) \in Locals
         /\ ~Copied(p).veryFirstRead /\ ~Copied(p).dumpTick
         /\ Copied(p).prevTick = p.tick
         /\ Copied(p).srcId = p.src
         /\ Copied(p).totalBytesRead = (IF Fresh(p) THEN 0 ELSE rcv.totalBytesRead) + p.bytes
<1>1. p.tick \in Nat /\ p.src \in Sources /\ p.bytes \in Nat
  BY ChannelAssumption DEF NetPackets
<1>2. rcv \in Locals
  BY DEF RecvTypes
<1> DEFINE c == Restart(p)
<1>3. /\ c \in Locals
      /\ c.srcId = p.src
      /\ c.dumpTick => NewTick(p)
      /\ c.totalBytesRead = IF Fresh(p) THEN 0 ELSE rcv.totalBytesRead
  <2>1. CASE rcv.veryFirstRead
    <3>1. c = [rcv EXCEPT !.totalBytesRead = 0, !.pktCount = 0, !.srcId = p.src]
      BY <2>1 DEF Restart, Begin
    <3> HIDE DEF c
    <3>2. c \in Locals
      BY <1>1, <1>2, <3>1 DEF Locals
    <3>3. c.srcId = p.src /\ c.totalBytesRead = 0 /\ (c.dumpTick => rcv.dumpTick)
      BY <1>2, <3>1 DEF Locals
    <3> QED BY <2>1, <3>2, <3>3 DEF Fresh
  <2>2. CASE ~rcv.veryFirstRead /\ NewTick(p)
    <3> DEFINE k == rcv.discardedBufs + 1
    <3>1. c = [rcv EXCEPT !.totalBytesRead = 0, !.pktCount = 0, !.srcId = p.src,
                          !.discardedBufs = k]
      BY <2>2 DEF Restart
    <3>4. k \in Nat
      BY <1>2 DEF Locals
    <3> HIDE DEF c, k
    <3>2. c \in Locals
      BY <1>1, <1>2, <3>1, <3>4 DEF Locals
    <3>3. c.srcId = p.src /\ c.totalBytesRead = 0 /\ (c.dumpTick => rcv.dumpTick)
      BY <1>2, <3>1 DEF Locals
    <3> QED BY <2>2, <3>2, <3>3 DEF Fresh
  <2>3. CASE ~rcv.veryFirstRead /\ ~NewTick(p)
    <3>1. c = rcv
      BY <2>3 DEF Restart, Begin
    <3> QED BY <1>2, <2>3, <3>1 DEF Fresh, OtherSource
  <2> QED BY <2>1, <2>2, <2>3
<1>4. Copied(p) = [c EXCEPT !.totalBytesRead = @ + p.bytes,
                            !.pktCount = @ + 1,
                            !.veryFirstRead = FALSE,
                            !.dumpTick = IF NewTick(p) THEN FALSE ELSE @,
                            !.prevTick = p.tick]
  BY DEF Copied
<1> HIDE DEF c
<1> DEFINE r == Copied(p)
<1>5. r = [c EXCEPT !.totalBytesRead = @ + p.bytes,
                    !.pktCount = @ + 1,
                    !.veryFirstRead = FALSE,
                    !.dumpTick = IF NewTick(p) THEN FALSE ELSE @,
                    !.prevTick = p.tick]
  BY <1>4
<1> HIDE DEF r
<1>6. r \in Locals
  <2>1. (IF NewTick(p) THEN FALSE ELSE c.dumpTick) \in BOOLEAN
    BY <1>3 DEF Locals
  <2> DEFINE d == IF NewTick(p) THEN FALSE ELSE c.dumpTick
             k == c.pktCount + 1
             n == c.totalBytesRead + p.bytes
  <2>2. k \in Nat /\ n \in Nat
    BY <1>1, <1>3 DEF Locals
  <2>3. r = [c EXCEPT !.totalBytesRead = n, !.pktCount = k, !.veryFirstRead = FALSE,
                      !.dumpTick = d, !.prevTick = p.tick]
    BY <1>5
  <2>4. d \in BOOLEAN
    BY <2>1
  <2> HIDE DEF d, k, n
  <2> QED BY <1>1, <1>3, <2>2, <2>3, <2>4 DEF Locals
<1>7. /\ r.prevTick = p.tick /\ r.srcId = c.srcId
      /\ r.totalBytesRead = c.totalBytesRead + p.bytes
  BY <1>3, <1>5 DEF Locals
<1>8. ~r.veryFirstRead /\ ~r.dumpTick
  <2>1. ~r.veryFirstRead
    BY <1>3, <1>5 DEF Locals
  <2>2. ~r.dumpTick
    <3>1. CASE NewTick(p)
      BY <1>3, <1>5, <3>1 DEF Locals
    <3>2. CASE ~NewTick(p)
      <4>1. r = [c EXCEPT !.totalBytesRead = @ + p.bytes, !.pktCount = @ + 1,
                          !.veryFirstRead = FALSE, !.dumpTick = @, !.prevTick = p.tick]
        BY <1>5, <3>2
      <4> QED BY <1>3, <3>2, <4>1 DEF Locals
    <3> QED BY <3>1, <3>2
  <2> QED BY <2>1, <2>2
<1> QED BY <1>3, <1>6, <1>7, <1>8 DEF r

\* The bytes held after a packet none of whose bytes was held.
LEMMA HeldGrows ==
  ASSUME NEW o \in Nat, NEW k \in Nat, NEW H, IsFiniteSet(H), NEW t \in Nat,
         t <= Cardinality(H), \A b \in H : ~(o <= b /\ b < o + k)
  PROVE  t + k <= Cardinality(H \cup (o .. (o + k) - 1))
<1> DEFINE N == o .. (o + k) - 1
<1>1. IsFiniteSet(N) /\ Cardinality(N) = k
  <2>1. o \in Int /\ (o + k) - 1 \in Int
    OBVIOUS
  <2>2. IsFiniteSet(N) /\ Cardinality(N) = IF o > (o + k) - 1 THEN 0 ELSE ((o + k) - 1) - o + 1
    BY <2>1, FS_Interval
  <2> HIDE DEF N
  <2> QED BY <2>2
<1>2. H \cap N = {}
  OBVIOUS
<1> HIDE DEF N
<1>3. IsFiniteSet(H \cap N) /\ Cardinality(H \cap N) = 0
  BY <1>2, FS_EmptySet
<1>4. Cardinality(H \cup N) = Cardinality(H) + Cardinality(N) - Cardinality(H \cap N)
  BY <1>1, FS_Union
<1>5. Cardinality(H) \in Nat
  BY FS_CardinalityType
<1> QED BY <1>1, <1>3, <1>4, <1>5 DEF N

LEMMA HeldFacts ==
  ASSUME NEW e \in Events, NEW buffer
  PROVE  /\ EventLength[e] \in Nat
         /\ Held(buffer, e) \subseteq 0 .. EventLength[e] - 1
         /\ IsFiniteSet(Held(buffer, e))
         /\ Cardinality(Held(buffer, e)) \in Nat
         /\ Cardinality(Held(buffer, e)) <= EventLength[e]
         /\ Cardinality(Held(buffer, e)) = EventLength[e]
               => Held(buffer, e) = 0 .. EventLength[e] - 1
<1> DEFINE n == EventLength[e]
           H == Held(buffer, e)
           I == 0 .. n - 1
<1>1. n \in Nat
  BY ChannelAssumption DEF Events
<1>2. H \subseteq I
  BY DEF Held
<1>3. IsFiniteSet(I) /\ Cardinality(I) = n
  <2> HIDE DEF n
  <2>1. 0 \in Int /\ n - 1 \in Int
    BY <1>1
  <2>2. IsFiniteSet(I) /\ Cardinality(I) = IF 0 > n - 1 THEN 0 ELSE (n - 1) - 0 + 1
    BY <2>1, FS_Interval, Zenon
  <2> HIDE DEF I
  <2> QED BY <1>1, <2>2
<1> HIDE DEF H, I, n
<1>4. /\ IsFiniteSet(H) /\ Cardinality(H) <= Cardinality(I)
      /\ Cardinality(H) = Cardinality(I) => H = I
  BY <1>2, <1>3, FS_Subset
<1>5. Cardinality(H) \in Nat
  BY <1>4, FS_CardinalityType
<1> QED BY <1>1, <1>2, <1>3, <1>4, <1>5 DEF H, I, n

\* The call goes on with the event it has in hand, or returns without one.
GoesOn ==
    /\ rcv' \in Locals /\ buf' = buf
    /\ rcv'.veryFirstRead <=> rcv.veryFirstRead
    /\ rcv'.dumpTick <=> rcv.dumpTick
    /\ rcv'.prevTick = rcv.prevTick /\ rcv'.srcId = rcv.srcId
    /\ rcv'.totalBytesRead = rcv.totalBytesRead /\ rcv'.nextOffset = rcv.nextOffset
    /\ result' = result \/ (result' \in Results /\ result'.status # "ok")

\* What has been read is forgotten: the tick is dumped, or it is a new call.
StartsOver ==
    /\ rcv' \in Locals /\ buf' = buf /\ result' = Running
    /\ rcv'.veryFirstRead
    /\ \/ rcv'.dumpTick /\ ~InStages
       \/ /\ ~rcv'.dumpTick /\ rcv'.prevTick = UintMax
          /\ rcv'.totalBytesRead = 0 /\ rcv'.nextOffset = 0

LEMMA StandsStill ==
  ASSUME RecvTypes, UNCHANGED <<rcv, buf>>,
         result' = result \/ (result' \in Results /\ result'.status # "ok")
  PROVE  GoesOn
BY DEF GoesOn, RecvTypes

LEMMA DumpStartsOver ==
  ASSUME RecvTypes, NetFromSent, NEW i \in 1 .. Len(net), DumpNewTick(i) \/ DumpSameTick(i)
  PROVE  StartsOver
<1> DEFINE p == net[i]
           c == Begin(p)
<1>1. p.src \in Sources /\ p.tick \in Nat
  <2>1. p \in NetPackets
    BY DEF NetFromSent
  <2> HIDE DEF p, c
  <2> QED BY <2>1, ChannelAssumption DEF NetPackets
<1>2. rcv \in Locals
  BY DEF RecvTypes
<1>3. c \in Locals /\ (c.dumpTick <=> rcv.dumpTick)
  <2>1. CASE rcv.veryFirstRead
    <3>1. c = [rcv EXCEPT !.totalBytesRead = 0, !.pktCount = 0, !.srcId = p.src]
      BY <2>1 DEF Begin
    <3> HIDE DEF c, p
    <3>2. c \in Locals
      BY <1>1, <1>2, <3>1 DEF Locals
    <3>3. c.dumpTick <=> rcv.dumpTick
      BY <1>2, <3>1 DEF Locals
    <3> QED BY <3>2, <3>3
  <2>2. CASE ~rcv.veryFirstRead
    BY <1>2, <2>2 DEF Begin
  <2> QED BY <2>1, <2>2
<1>4. /\ result' = result /\ result = Running /\ buf' = buf /\ ~InStages
  BY DEF DumpNewTick, DumpSameTick, Read, ReadAny, Reading
<1>5. CASE DumpNewTick(i)
  <2> DEFINE k == c.discardedBufs + 1
  <2>1. rcv' = [c EXCEPT !.veryFirstRead = TRUE, !.dumpTick = TRUE, !.prevTick = p.tick,
                         !.discardedBufs = k]
    BY <1>5 DEF DumpNewTick
  <2>2. k \in Nat
    BY <1>3 DEF Locals
  <2> HIDE DEF c, p, k
  <2>3. rcv' \in Locals
    BY <1>1, <1>3, <2>1, <2>2 DEF Locals
  <2>4. rcv'.veryFirstRead /\ rcv'.dumpTick
    BY <1>3, <2>1 DEF Locals
  <2> QED BY <1>4, <2>3, <2>4 DEF StartsOver
<1>6. CASE DumpSameTick(i)
  <2>1. rcv' = [c EXCEPT !.veryFirstRead = TRUE]
    BY <1>6 DEF DumpSameTick
  <2>2. rcv.dumpTick
    <3>1. Verdict(p) = "dumpSameTick"
      BY <1>6 DEF DumpSameTick, Read
    <3> QED BY <3>1 DEF Verdict
  <2> HIDE DEF c, p
  <2>3. rcv' \in Locals
    BY <1>3, <2>1 DEF Locals
  <2>4. rcv'.veryFirstRead /\ rcv'.dumpTick
    BY <1>3, <2>1, <2>2 DEF Locals
  <2> QED BY <1>4, <2>3, <2>4 DEF StartsOver
<1> QED BY <1>5, <1>6

LEMMA CallAgainStep ==
  ASSUME RecvTypes, CallAgain
  PROVE  GoesOn \/ StartsOver
<1>1. rcv \in Locals /\ result \in Results /\ result' = Running /\ buf' = buf
  BY DEF RecvTypes, CallAgain
<1>2. CASE result.status = "part"
  <2>1. rcv' = [rcv EXCEPT !.remainingLen = BufLen, !.rejectedPkt = 0]
    BY <1>2 DEF CallAgain
  <2>2. BufLen \in Int
    BY AssembleAssumption
  <2>3. rcv' \in Locals
    BY <1>1, <2>1, <2>2 DEF Locals
  <2>4. /\ rcv'.veryFirstRead <=> rcv.veryFirstRead
        /\ rcv'.dumpTick <=> rcv.dumpTick
        /\ rcv'.prevTick = rcv.prevTick /\ rcv'.srcId = rcv.srcId
        /\ rcv'.totalBytesRead = rcv.totalBytesRead /\ rcv'.nextOffset = rcv.nextOffset
    BY <1>1, <2>1 DEF Locals
  <2>5. Running \in Results /\ Running.status # "ok"
    BY DEF Running, Results
  <2> QED BY <1>1, <2>3, <2>4, <2>5 DEF GoesOn
<1>3. CASE result.status # "part"
  <2> DEFINE x == IF KnowExpectedTick /\ result.status = "ok" THEN result.tick + 1 ELSE NoTick
             y == SocketNext
  <2>1. rcv' = NewRead(x, y)
    BY <1>3 DEF CallAgain
  <2>2. x \in Int
    <3>1. CASE KnowExpectedTick /\ result.status = "ok"
      <4>1. result.tick \in Nat
        BY <1>1, <3>1, ChannelAssumption DEF Results
      <4> QED BY <3>1, <4>1
    <3>2. CASE ~(KnowExpectedTick /\ result.status = "ok")
      BY <3>2 DEF NoTick
    <3> QED BY <3>1, <3>2
  <2>3. y \in {"bound", "none", "again", "deaf"}
    BY <1>1 DEF SocketNext, Locals
  <2>4. UintMax \in Nat /\ BufLen \in Int
    BY AssembleAssumption
  <2> HIDE DEF x, y
  <2>5. rcv' \in Locals
    BY <2>1, <2>2, <2>3, <2>4 DEF NewRead, Locals
  <2>6. /\ rcv'.veryFirstRead /\ ~rcv'.dumpTick /\ rcv'.prevTick = UintMax
        /\ rcv'.totalBytesRead = 0 /\ rcv'.nextOffset = 0
    BY <2>1 DEF NewRead
  <2> QED BY <1>1, <2>5, <2>6 DEF StartsOver
<1> QED BY <1>2, <1>3

\* How a step changes the running call.
LEMMA CallSteps ==
  ASSUME RecvTypes, NetFromSent, [Next]_vars
  PROVE  \/ GoesOn \/ StartsOver
         \/ \E i \in 1 .. Len(net) : AcceptPacket(i) \/ StagedAccept(i)
<1>0. rcv \in Locals /\ result \in Results
  BY DEF RecvTypes
<1>1. ASSUME UNCHANGED <<rcv, buf, result>> PROVE GoesOn
  BY <1>1, StandsStill, Zenon
<1>2. ASSUME NEW s \in {"BUF_TOO_SMALL", "OUT_OF_ORDER", "NO_REASSEMBLY",
                        "NETWORK_ERROR", "RECV_MSG"},
             result' = [status |-> s]
      PROVE  result' \in Results /\ result'.status # "ok"
  BY <1>2 DEF Results
<1>3. ASSUME NEW i \in 1 .. Len(net), Receiving(i), ~AcceptPacket(i), ~StagedAccept(i)
      PROVE  GoesOn \/ StartsOver
  <2>1. CASE DumpNewTick(i) \/ DumpSameTick(i)
    BY <2>1, DumpStartsOver, Zenon
  <2>2. CASE Crash(i) \/ RejectOtherSource(i) \/ Overrun(i)
    BY <1>1, <2>2 DEF Crash, RejectOtherSource, Overrun
  <2>3. CASE BufferTooSmall(i) \/ StagedOutOfOrder(i)
    <3>1. UNCHANGED <<rcv, buf>> /\ result' \in Results /\ result'.status # "ok"
      BY <1>2, <2>3 DEF BufferTooSmall, StagedOutOfOrder
    <3> QED BY <3>1, StandsStill
  <2>4. CASE StagedReject(i)
    <3> DEFINE k == rcv.rejectedPkt + 1
    <3>1. rcv' = [rcv EXCEPT !.rejectedPkt = k] /\ buf' = buf
      BY <2>4 DEF StagedReject
    <3>2. k \in Nat
      BY <1>0 DEF Locals
    <3>3. result' = result \/ result' = [status |-> "NO_REASSEMBLY"]
      BY <2>4 DEF StagedReject
    <3>4. result' = result \/ (result' \in Results /\ result'.status # "ok")
      BY <1>2, <3>3
    <3> HIDE DEF k
    <3>5. rcv' \in Locals
      BY <1>0, <3>1, <3>2 DEF Locals
    <3>6. /\ rcv'.veryFirstRead <=> rcv.veryFirstRead
          /\ rcv'.dumpTick <=> rcv.dumpTick
          /\ rcv'.prevTick = rcv.prevTick /\ rcv'.srcId = rcv.srcId
          /\ rcv'.totalBytesRead = rcv.totalBytesRead /\ rcv'.nextOffset = rcv.nextOffset
      BY <1>0, <3>1 DEF Locals
    <3> QED BY <3>1, <3>4, <3>5, <3>6 DEF GoesOn
  <2> QED BY <1>3, <2>1, <2>2, <2>3, <2>4
          DEF Receiving, ReceiveStep, GetCompletePacketizedBuffer,
              GetCompleteAllocatedBuffer, GetPacketizedBuffer, Complete
<1>4. CASE Returning
  BY <1>4, CallAgainStep DEF Returning
<1>5. CASE Failing
  BY <1>2, <1>5, StandsStill DEF Failing, ReceiveFails
<1>6. CASE Opening
  <2>1. CASE UNCHANGED result
    <3> DEFINE y == IF rcv.socket = "none" THEN "bound" ELSE "deaf"
    <3>1. rcv' = rcv \/ rcv' = [rcv EXCEPT !.socket = y]
      BY <1>6 DEF Opening, OpenSocket
    <3>2. y \in {"bound", "none", "again", "deaf"} /\ buf' = buf
      BY <1>6 DEF Opening, OpenSocket
    <3> HIDE DEF y
    <3>3. rcv' \in Locals
      BY <1>0, <3>1, <3>2 DEF Locals
    <3>4. /\ rcv'.veryFirstRead <=> rcv.veryFirstRead
          /\ rcv'.dumpTick <=> rcv.dumpTick
          /\ rcv'.prevTick = rcv.prevTick /\ rcv'.srcId = rcv.srcId
          /\ rcv'.totalBytesRead = rcv.totalBytesRead /\ rcv'.nextOffset = rcv.nextOffset
      BY <1>0, <3>1 DEF Locals
    <3> QED BY <2>1, <3>2, <3>3, <3>4 DEF GoesOn
  <2>2. CASE ~UNCHANGED result
    <3>1. UNCHANGED <<rcv, buf>> /\ result' = [status |-> "NETWORK_ERROR"]
      BY <1>6, <2>2 DEF Opening, OpenSocket
    <3> QED BY <1>2, <3>1, StandsStill
  <2> QED BY <2>1, <2>2
<1>7. ASSUME NEW src \in Sources, Sending(src) PROVE GoesOn
  BY <1>1, <1>7 DEF Sending, rcvVars
<1>8. ASSUME NEW i \in 1 .. Len(net), Lose(i) \/ Duplicate(i) PROVE GoesOn
  BY <1>1, <1>8 DEF Lose, Duplicate, rcvVars
<1>9. CASE Finished \/ UNCHANGED vars
  BY <1>1, <1>9 DEF Finished, vars, rcvVars
<1> QED BY <1>3, <1>4, <1>5, <1>6, <1>7, <1>8, <1>9, Zenon DEF Next

LEMMA ReaderStays ==
  ASSUME [Next]_vars
  PROVE  /\ UNCHANGED reader
         /\ (InStages' <=> InStages) /\ (copies' = 0 /\ copies \in Nat => copies = 0)
<1>1. UNCHANGED reader
  <2>1. ASSUME NEW i \in 1 .. Len(net), Receiving(i) PROVE UNCHANGED reader
    <3>1. ReadAny(i)
      BY <2>1, Zenon DEF Receiving, ReceiveStep, GetCompletePacketizedBuffer,
         GetCompleteAllocatedBuffer, GetPacketizedBuffer, Complete, Crash,
         RejectOtherSource, DumpNewTick, DumpSameTick, AcceptPacket, BufferTooSmall,
         Overrun, StagedOutOfOrder, StagedReject, StagedAccept, Read
    <3> QED BY <3>1 DEF ReadAny
  <2>2. ASSUME NEW i \in 1 .. Len(net), Lose(i) \/ Duplicate(i) PROVE UNCHANGED reader
    BY <2>2 DEF Lose, Duplicate, rcvVars
  <2>3. ASSUME NEW src \in Sources, Sending(src) PROVE UNCHANGED reader
    BY <2>3 DEF Sending, rcvVars
  <2>4. CASE Returning \/ Failing \/ Opening
    BY <2>4 DEF Returning, CallAgain, Failing, ReceiveFails, Opening, OpenSocket
  <2>5. CASE Finished \/ UNCHANGED vars
    BY <2>5 DEF Finished, vars, rcvVars
  <2> QED BY <2>1, <2>2, <2>3, <2>4, <2>5, Zenon DEF Next
<1>2. copies' = copies \/ copies' = copies + 1
  BY PathSteps
<1> QED BY <1>1, <1>2 DEF InStages

LEMMA GoingOnKeeps ==
  ASSUME CallInv, GoesOn, InStages' <=> InStages, copies' = 0 => copies = 0
  PROVE  CallInv'
<1>1. rcv' \in Locals /\ result' \in Results
  BY DEF CallInv, RecvTypes, GoesOn
<1>2. InHand' = InHand /\ buf' = buf
  BY DEF GoesOn, InHand
<1>3. RecvTypes' /\ InHandKnown'
  BY <1>1, <1>2 DEF CallInv, RecvTypes, InHandKnown, GoesOn
<1>4. CountsBytes'
  BY <1>2 DEF CallInv, CountsBytes, GoesOn, Held
<1>5. PartsFollow'
  BY <1>2 DEF CallInv, PartsFollow, GoesOn
<1>6. Starts'
  BY <1>2 DEF CallInv, Starts, GoesOn
<1>7. ReturnsEntireBuffer' /\ StartsWithFirstPacket'
  <2>1. CASE result' = result
    BY <1>2, <2>1 DEF CallInv, ReturnsEntireBuffer, StartsWithFirstPacket
  <2>2. CASE result'.status # "ok"
    BY <2>2 DEF ReturnsEntireBuffer, StartsWithFirstPacket
  <2> QED BY <2>1, <2>2 DEF GoesOn
<1> QED BY <1>3, <1>4, <1>5, <1>6, <1>7 DEF CallInv

LEMMA StartingOverKeeps ==
  ASSUME CallInv, StartsOver, InStages' <=> InStages
  PROVE  CallInv'
<1>1. RecvTypes'
  BY DEF StartsOver, RecvTypes, Results, Running
<1>2. InHandKnown' /\ CountsBytes' /\ PartsFollow'
  BY DEF StartsOver, InHandKnown, CountsBytes, PartsFollow
<1>3. Starts'
  BY DEF StartsOver, Starts
<1>4. ReturnsEntireBuffer' /\ StartsWithFirstPacket'
  BY DEF StartsOver, Running, ReturnsEntireBuffer, StartsWithFirstPacket
<1> QED BY <1>1, <1>2, <1>3, <1>4 DEF CallInv

\* What the buffer holds of an event after one of its packets.
LEMMA CopyHeld ==
  ASSUME BufType, NEW p \in NetPackets, NEW e, e = <<p.src, p.tick>>,
         p.offset + p.bytes <= EventLength[e], Unread(p, buf),
         NEW t \in Nat, t <= Cardinality(Held(buf, e))
  PROVE  t + p.bytes <= Cardinality(Held(Copy(p), e))
<1> DEFINE H == Held(buf, e)
           n == EventLength[e]
           o == p.offset
           k == p.bytes
           N == o .. (o + k) - 1
<1>1. e \in Events /\ o \in Nat /\ k \in Nat
  BY DEF NetPackets, Events
<1>2. IsFiniteSet(H)
  BY <1>1, HeldFacts
<1>3. n \in Nat /\ 0 .. n - 1 \subseteq Bytes
  BY <1>1, HeldFacts, BytesOfEvents
<1>4. \A b \in 0 .. n - 1 : Copy(p)[b] = IF Covers(p, b) THEN e ELSE buf[b]
  BY <1>3, CopyType
<1>5. Held(Copy(p), e) = H \cup N
  <2>1. ASSUME NEW b \in 0 .. n - 1 PROVE b \in Held(Copy(p), e) <=> b \in H \cup N
    BY <1>1, <1>4, <2>1 DEF Held, Covers
  <2>2. N \subseteq 0 .. n - 1
    BY <1>1, <1>3
  <2>3. H \subseteq 0 .. n - 1 /\ Held(Copy(p), e) \subseteq 0 .. n - 1
    BY DEF Held
  <2> QED BY <2>1, <2>2, <2>3, Zenon
<1>6. \A b \in H : ~(o <= b /\ b < o + k)
  BY <1>3 DEF Unread, Covers, Held
<1> HIDE DEF H, o, k
<1>7. t + k <= Cardinality(H \cup (o .. (o + k) - 1))
  BY <1>1, <1>2, <1>6, HeldGrows DEF H
<1> QED BY <1>5, <1>7 DEF k

\* A packet that is put into the buffer, whatever it completes.
LEMMA AcceptedKeeps ==
  ASSUME SendInv, NetFromSent, PathInv, CallInv, NEW i \in 1 .. Len(net), AcceptPacket(i),
         InStages' <=> InStages, copies' = 0 => copies = 0
  PROVE  CallInv'
<1> DEFINE p == net[i]
           r == Copied(p)
           e == <<p.src, p.tick>>
<1>1. /\ p \in NetPackets /\ p.length = EventLength[e]
      /\ p.offset + p.bytes <= p.length /\ (p.bytes = 0 => p.length = 0)
  BY OnTheWayFacts
<1>2. /\ Verdict(p) = "fits" /\ ~InStages /\ result = Running
      /\ rcv' = r /\ buf' = Copy(p)
      /\ result' = IF r.totalBytesRead >= p.length THEN Ok(p, r.totalBytesRead) ELSE result
  BY DEF AcceptPacket, Read, ReadAny, Reading
<1>3. ~OtherSource(p) /\ ~MissedFirst(p) /\ (rcv.dumpTick => NewTick(p))
  BY <1>2, VerdictFits
<1>4. RecvTypes /\ BufType
  BY DEF CallInv, PathInv
<1>5. copies = 0 => Unread(p, buf)
  BY DEF PathInv, NotReadYet
<1> HIDE DEF p
<1>6. /\ r \in Locals /\ ~r.veryFirstRead /\ ~r.dumpTick
      /\ r.prevTick = p.tick /\ r.srcId = p.src
      /\ r.totalBytesRead = (IF Fresh(p) THEN 0 ELSE rcv.totalBytesRead) + p.bytes
  BY <1>1, <1>3, <1>4, CopiedFields
<1> HIDE DEF r, e
<1>7. /\ e \in Events /\ p.src \in Sources /\ p.tick \in Ticks /\ p.bytes \in Nat
      /\ p.offset \in Nat /\ p.tick \in Nat /\ e = <<p.src, p.tick>>
  BY <1>1, ChannelAssumption DEF NetPackets, Events, e
<1>8. InHand' = e
  BY <1>2, <1>6, <1>7 DEF InHand
<1>9. ~Fresh(p) => InHand = e
  BY <1>3, <1>7 DEF Fresh, NewTick, OtherSource, InHand
<1>10. RecvTypes' /\ InHandKnown'
  <2>1. r.totalBytesRead \in Nat
    BY <1>6 DEF Locals
  <2>2. Ok(p, r.totalBytesRead) \in Results
    BY <1>7, <2>1 DEF Ok, Results
  <2> QED BY <1>2, <1>4, <1>6, <1>7, <1>8, <2>2 DEF RecvTypes, InHandKnown
<1>11. copies = 0 => r.totalBytesRead <= Cardinality(Held(Copy(p), e))
  <2> SUFFICES ASSUME copies = 0 PROVE r.totalBytesRead <= Cardinality(Held(Copy(p), e))
    OBVIOUS
  <2> DEFINE t == IF Fresh(p) THEN 0 ELSE rcv.totalBytesRead
  <2>1. t \in Nat
    BY <1>4 DEF RecvTypes, Locals
  <2>2. t <= Cardinality(Held(buf, e))
    <3>1. CASE Fresh(p)
      BY <1>7, <3>1, HeldFacts
    <3>2. CASE ~Fresh(p)
      <4>1. ~rcv.veryFirstRead
        BY <3>2 DEF Fresh
      <4> QED BY <1>2, <1>9, <3>2, <4>1 DEF CallInv, CountsBytes
    <3> QED BY <3>1, <3>2
  <2> HIDE DEF t
  <2>3. t + p.bytes <= Cardinality(Held(Copy(p), e))
    BY <1>1, <1>4, <1>5, <1>7, <2>1, <2>2, CopyHeld
  <2> QED BY <1>6, <2>3 DEF t
<1>12. CountsBytes'
  BY <1>2, <1>8, <1>11 DEF CountsBytes
<1>13. PartsFollow'
  BY <1>2 DEF PartsFollow
<1>14. p.tick # UintMax => EventLength[e] = 0 \/ Copy(p)[0] = e
  <2> SUFFICES ASSUME p.tick # UintMax, EventLength[e] # 0 PROVE Copy(p)[0] = e
    OBVIOUS
  <2>1. 0 \in Bytes
    <3>1. EventLength[e] \in Nat /\ 0 .. EventLength[e] - 1 \subseteq Bytes
      BY <1>7, HeldFacts, BytesOfEvents
    <3> QED BY <3>1
  <2>2. Copy(p)[0] = IF Covers(p, 0) THEN e ELSE buf[0]
    BY <1>1, <1>4, <1>7, <2>1, CopyType
  <2>3. CASE NewTick(p)
    <3>1. p.offset = 0 /\ p.bytes > 0
      BY <1>1, <1>3, <1>7, <2>3 DEF MissedFirst
    <3> QED BY <1>7, <2>2, <3>1 DEF Covers
  <2>4. CASE ~NewTick(p)
    <3>1. ~rcv.dumpTick /\ rcv.prevTick = p.tick
      BY <1>3, <2>4 DEF NewTick
    <3>2. ~rcv.veryFirstRead
      BY <1>2, <3>1 DEF CallInv, Starts
    <3>3. InHand = e
      BY <1>9, <2>4, <3>2 DEF Fresh
    <3>4. buf[0] = e
      BY <1>2, <3>1, <3>2, <3>3 DEF CallInv, Starts
    <3> QED BY <2>2, <3>4
  <2> QED BY <2>3, <2>4
<1>15. Starts'
  BY <1>2, <1>6, <1>8, <1>14 DEF Starts
<1>16. ReturnsEntireBuffer' /\ StartsWithFirstPacket'
  <2>1. CASE r.totalBytesRead >= p.length
    <3>1. result' = Ok(p, r.totalBytesRead)
      BY <1>2, <2>1
    <3>2. /\ result'.src = p.src /\ result'.tick = p.tick
          /\ result'.bytes = r.totalBytesRead
      BY <3>1 DEF Ok
    <3>3. <<result'.src, result'.tick>> = e
      BY <1>7, <3>2
    <3>4. copies = 0 => /\ r.totalBytesRead = EventLength[e]
                        /\ Held(Copy(p), e) = 0 .. EventLength[e] - 1
      <4>1. r.totalBytesRead \in Nat
        BY <1>6 DEF Locals
      <4>2. /\ EventLength[e] \in Nat
            /\ Cardinality(Held(Copy(p), e)) \in Nat
            /\ Cardinality(Held(Copy(p), e)) <= EventLength[e]
            /\ Cardinality(Held(Copy(p), e)) = EventLength[e]
                  => Held(Copy(p), e) = 0 .. EventLength[e] - 1
        BY <1>7, HeldFacts
      <4>3. p.length = EventLength[e]
        BY <1>1 DEF e
      <4> QED BY <1>11, <2>1, <4>1, <4>2, <4>3
    <3>5. copies = 0 => \A b \in 0 .. EventLength[e] - 1 : buf'[b] = e
      BY <1>2, <3>4 DEF Held
    <3>6. ReturnsEntireBuffer'
      BY <3>2, <3>3, <3>4, <3>5, Zenon DEF ReturnsEntireBuffer
    <3>7. EventLength[e] \in Nat
      BY <1>7, HeldFacts
    <3>8. StartsWithFirstPacket'
      BY <1>2, <1>14, <3>2, <3>3, <3>7 DEF StartsWithFirstPacket
    <3> QED BY <3>6, <3>8
  <2>2. CASE ~(r.totalBytesRead >= p.length)
    BY <1>2, <2>2 DEF Running, ReturnsEntireBuffer, StartsWithFirstPacket
  <2> QED BY <2>1, <2>2
<1> QED BY <1>10, <1>12, <1>13, <1>15, <1>16, Zenon DEF CallInv

\* A part taken in order.
LEMMA PartKeeps ==
  ASSUME SendInv, NetFromSent, PathInv, CallInv, NEW i \in 1 .. Len(net), StagedAccept(i),
         InStages' <=> InStages
  PROVE  CallInv'
<1> DEFINE p == net[i]
           e == <<p.src, p.tick>>
           t == rcv.totalBytesRead + p.bytes
           l == rcv.remainingLen - p.bytes
           k == rcv.pktCount + 1
           n == p.offset + p.bytes
           r == [rcv EXCEPT !.veryFirstRead = FALSE, !.srcId = p.src, !.prevTick = p.tick,
                            !.totalBytesRead = t, !.remainingLen = l,
                            !.pktCount = k, !.nextOffset = n]
<1>1. /\ p \in NetPackets /\ p.length = EventLength[e]
      /\ p.offset + p.bytes <= p.length
  BY OnTheWayFacts
<1>2. /\ InStages /\ rcv' = r /\ buf' = Copy(p) /\ result = Running
      /\ StagedExpects(p) /\ ~Foreign(p)
      /\ \/ r.nextOffset >= p.length /\ result' = Ok(p, r.totalBytesRead)
         \/ result' = [status |-> "part"]
         \/ result' = result
  BY DEF StagedAccept, ReadAny, Reading
<1>3. rcv \in Locals /\ BufType
  BY DEF CallInv, RecvTypes, PathInv
<1> HIDE DEF p
<1>4. /\ e \in Events /\ p.src \in Sources /\ p.tick \in Ticks /\ p.bytes \in Nat
      /\ p.offset \in Nat /\ p.tick \in Nat
  BY <1>1, ChannelAssumption DEF NetPackets, Events
<1>5. t \in Nat /\ l \in Int /\ k \in Nat /\ n \in Nat
  <2>1. rcv.totalBytesRead \in Nat /\ rcv.remainingLen \in Int /\ rcv.pktCount \in Nat
    BY <1>3 DEF Locals
  <2>2. t \in Nat
    BY <1>4, <2>1
  <2>3. l \in Int
    BY <1>4, <2>1
  <2>4. k \in Nat
    BY <1>4, <2>1
  <2>5. n \in Nat
    BY <1>4, <2>1, <2>2
  <2> QED BY <2>2, <2>3, <2>4, <2>5
<1>6. n = t /\ p.offset = rcv.nextOffset
  BY <1>2, <1>3, <1>4 DEF CallInv, PartsFollow, StagedExpects, Locals
<1>7. ~rcv.veryFirstRead => InHand = e
  BY <1>2 DEF Foreign, InHand
<1>8. rcv.veryFirstRead => p.offset = 0
  BY <1>2 DEF StagedExpects
<1>9. n = p.offset + p.bytes
  OBVIOUS
<1> HIDE DEF t, l, k, n
<1>10. r \in Locals
  BY <1>3, <1>4, <1>5 DEF Locals
<1>11. /\ ~r.veryFirstRead /\ r.srcId = p.src /\ r.prevTick = p.tick
       /\ r.totalBytesRead = t /\ r.nextOffset = n
  BY <1>3 DEF Locals
<1> HIDE DEF r, e
<1>12. InHand' = e
  BY <1>2, <1>11 DEF InHand, e
<1>13. RecvTypes' /\ InHandKnown'
  <2>1. Ok(p, t) \in Results
    BY <1>4, <1>5 DEF Ok, Results
  <2>2. [status |-> "part"] \in Results /\ Running \in Results
    BY DEF Results, Running
  <2>3. result' \in Results
    BY <1>2, <1>11, <2>1, <2>2
  <2> QED BY <1>2, <1>4, <1>10, <1>12, <2>3 DEF RecvTypes, InHandKnown
<1>14. EventLength[e] \in Nat /\ 0 .. EventLength[e] - 1 \subseteq Bytes
  BY <1>4, HeldFacts, BytesOfEvents
<1>15. ASSUME NEW b \in 0 .. n - 1 PROVE Copy(p)[b] = e
  <2>1. b \in 0 .. EventLength[e] - 1 /\ b \in Bytes /\ b \in Nat
    <3>1. b \in 0 .. EventLength[e] - 1
      BY <1>1, <1>5, <1>9, <1>14 DEF e
    <3> QED BY <1>14, <3>1
  <2>2. Copy(p)[b] = IF Covers(p, b) THEN e ELSE buf[b]
    BY <1>1, <1>3, <2>1, CopyType DEF e
  <2>3. CASE b >= p.offset
    BY <1>4, <1>5, <1>9, <2>1, <2>2, <2>3 DEF Covers
  <2>4. CASE b < p.offset
    <3>1. ~rcv.veryFirstRead /\ b \in 0 .. rcv.nextOffset - 1
      BY <1>4, <1>6, <1>8, <2>1, <2>4
    <3>2. buf[b] = e
      BY <1>2, <1>7, <3>1 DEF CallInv, PartsFollow
    <3> QED BY <2>2, <3>2
  <2> QED BY <1>4, <2>1, <2>3, <2>4
<1>16. CountsBytes' /\ Starts'
  BY <1>2 DEF CountsBytes, Starts
<1>17. PartsFollow'
  BY <1>2, <1>6, <1>11, <1>12, <1>15 DEF PartsFollow
<1>18. ReturnsEntireBuffer' /\ StartsWithFirstPacket'
  <2>1. CASE r.nextOffset >= p.length /\ result' = Ok(p, r.totalBytesRead)
    <3>1. /\ result'.src = p.src /\ result'.tick = p.tick /\ result'.bytes = t
      BY <1>11, <2>1 DEF Ok
    <3>2. <<result'.src, result'.tick>> = e
      BY <3>1 DEF e
    <3>3. n = EventLength[e]
      BY <1>1, <1>4, <1>5, <1>9, <1>11, <1>14, <2>1 DEF e
    <3>4. \A b \in 0 .. EventLength[e] - 1 : buf'[b] = e
      BY <1>2, <1>15, <3>3
    <3>5. ReturnsEntireBuffer'
      BY <1>6, <3>1, <3>2, <3>3, <3>4, Zenon DEF ReturnsEntireBuffer
    <3>6. EventLength[e] > 0 => buf'[0] = e
      BY <1>14, <3>4
    <3>7. StartsWithFirstPacket'
      BY <3>2, <3>6, Zenon DEF StartsWithFirstPacket
    <3> QED BY <3>5, <3>7
  <2>2. CASE result' = [status |-> "part"] \/ result' = result
    BY <1>2, <2>2 DEF Running, ReturnsEntireBuffer, StartsWithFirstPacket
  <2> QED BY <1>2, <2>1, <2>2
<1> QED BY <1>13, <1>16, <1>17, <1>18, Zenon DEF CallInv

LEMMA CallStep ==
  ASSUME SendInv, NetFromSent, PathInv, CallInv, [Next]_vars
  PROVE  CallInv'
<1>1. (InStages' <=> InStages) /\ (copies' = 0 => copies = 0)
  BY ReaderStays DEF PathInv, BufType
<1>2. \/ GoesOn \/ StartsOver
      \/ \E i \in 1 .. Len(net) : AcceptPacket(i) \/ StagedAccept(i)
  BY CallSteps DEF CallInv
<1> QED BY <1>1, <1>2, GoingOnKeeps, StartingOverKeeps, AcceptedKeeps, PartKeeps, Zenon

\* What holds of the sources, the path and the receiver together.
LEMMA Received == Spec => [](SendInv /\ NetFromSent /\ PathInv /\ CallInv)
<1>1. Init => SendInv /\ NetFromSent /\ PathInv /\ CallInv
  <2> SUFFICES ASSUME Init PROVE SendInv /\ NetFromSent /\ PathInv /\ CallInv
    OBVIOUS
  <2>1. SendInv
    BY SendInitOk DEF Init
  <2>2. net = <<>> /\ copies = 0 /\ buf = [b \in Bytes |-> Empty] /\ result = Running
    BY DEF Init, SendInit, ReceiveInit
  <2>3. NetFromSent
    BY <2>2 DEF NetFromSent
  <2>4. PathInv
    BY <2>2 DEF PathInv, BufType, HeldWasSent, OnceOnTheWay, NotReadYet
  <2>5. PICK y \in {"none", "bound"} : rcv = NewRead(NoTick, y)
    BY DEF Init, ReceiveInit
  <2>6. rcv \in Locals /\ result \in Results
    BY <2>2, <2>5, AssembleAssumption DEF NewRead, NoTick, Locals, Running, Results
  <2>7. /\ rcv.veryFirstRead /\ ~rcv.dumpTick /\ rcv.prevTick = UintMax
        /\ rcv.totalBytesRead = 0 /\ rcv.nextOffset = 0
    BY <2>5 DEF NewRead
  <2>8. CallInv
    BY <2>2, <2>6, <2>7 DEF CallInv, RecvTypes, InHandKnown, CountsBytes, PartsFollow, Starts,
                            ReturnsEntireBuffer, StartsWithFirstPacket, Running
  <2> QED BY <2>1, <2>3, <2>4, <2>8
<1>2. SendInv /\ NetFromSent /\ SentOnce' /\ PathInv /\ CallInv /\ [Next]_vars
         => (SendInv /\ NetFromSent /\ PathInv /\ CallInv)'
  BY SendInvStep, NetFromSentStep, PathStep, CallStep
<1>3. SendInv => SentOnce
  BY SentOnceHolds
<1>4. SendInv /\ [Next]_vars => SendInv'
  BY SendInvStep
<1> QED BY <1>1, <1>2, <1>3, <1>4, PTL DEF Spec

\* "It will read entire buffer or return an error"
\* (ejfat_assemble_ersap.hpp:769), for every reading function, number of sources,
\* event length and payload size, and whatever is lost or overtakes, as long as
\* no packet is doubled.
THEOREM WholeEventReturned == Spec => []ReturnsEntireBuffer
BY Received, PTL DEF CallInv

\* An event that is returned begins with its first packet even if packets are
\* doubled (ejfat_assemble_ersap.hpp:911-934).
THEOREM BeginsWithFirst == Spec => []StartsWithFirstPacket
BY Received, PTL DEF CallInv

-----------------------------------------------------------------------------
(* What the statistics count.                                              *)

\* The event of an answer that is not taken yet.
Pending == IF result.status = "ok" THEN {<<result.src, result.tick>>} ELSE {}

Returned == ToSet(delivered) \cup Pending

\* Every byte of the event has been sent, and none is on the way.
Spent(e) ==
    /\ \A b \in 0 .. EventLength[e] - 1 :
          \E s \in sent : e = <<s.src, s.tick>> /\ Covers(s, b)
    /\ EventLength[e] > 0 => \A i \in 1 .. Len(net) : e # <<net[i].src, net[i].tick>>

StatCounts == [acceptedBytes : Nat, acceptedPackets : Nat, badSrcIdPackets : Nat,
               discardedBuffers : Nat, droppedBuffers : Nat]

ReturnTypes == /\ delivered \in Seq(Events)
               /\ IsFiniteSet(ToSet(delivered))
               /\ stats \in StatCounts

ReturnedAreSpent == copies = 0 => \A e \in ToSet(delivered) : Spent(e)

CountsReturned ==
    TakesStats /\ copies = 0 => stats.acceptedBytes = SumOver(EventLength, Returned)

ReturnInv == ReturnTypes /\ ReturnedAreSpent /\ CountsReturned

LEMMA PendingType == RecvTypes => Pending \subseteq Events /\ IsFiniteSet(Pending)
<1> SUFFICES ASSUME RecvTypes PROVE Pending \subseteq Events /\ IsFiniteSet(Pending)
  OBVIOUS
<1>1. CASE result.status = "ok"
  <2>1. result.src \in Sources /\ result.tick \in Ticks
    BY <1>1 DEF RecvTypes, Results
  <2>2. Pending = {<<result.src, result.tick>>}
    BY <1>1 DEF Pending
  <2>3. IsFiniteSet(Pending)
    BY <2>2, FS_Singleton, Zenon
  <2> QED BY <2>1, <2>2, <2>3 DEF Events
<1>2. CASE result.status # "ok"
  BY <1>2, FS_EmptySet DEF Pending
<1> QED BY <1>1, <1>2

\* An event that is in the buffer as a whole is spent: no packet of it is left.
LEMMA PendingIsSpent ==
  ASSUME SendInv, NetFromSent, PathInv, CallInv, copies = 0
  PROVE  \A e \in Pending : Spent(e)
<1> SUFFICES ASSUME NEW e \in Pending PROVE Spent(e)
  OBVIOUS
<1>1. result.status = "ok" /\ e = <<result.src, result.tick>>
  BY DEF Pending
<1>2. e \in Events
  BY PendingType DEF CallInv
<1>3. \A b \in 0 .. EventLength[e] - 1 : buf[b] = e
  BY <1>1 DEF CallInv, ReturnsEntireBuffer
<1>4. EventLength[e] \in Nat /\ 0 .. EventLength[e] - 1 \subseteq Bytes
  BY <1>2, HeldFacts, BytesOfEvents
<1>5. ASSUME NEW b \in 0 .. EventLength[e] - 1
      PROVE  \E s \in sent : e = <<s.src, s.tick>> /\ Covers(s, b)
  <2>1. buf[b] = e /\ e # Empty /\ b \in Bytes
    BY <1>2, <1>3, <1>4, EmptyIsNoEvent
  <2> QED BY <2>1, Zenon DEF PathInv, HeldWasSent
<1>6. ASSUME EventLength[e] > 0, NEW i \in 1 .. Len(net), e = <<net[i].src, net[i].tick>>
      PROVE  FALSE
  <2> DEFINE p == net[i]
  <2>1. /\ p \in NetPackets /\ p.length = EventLength[e]
        /\ p.offset + p.bytes <= p.length /\ (p.bytes = 0 => p.length = 0)
    BY <1>6, OnTheWayFacts
  <2>2. Unread(p, buf)
    BY DEF PathInv, NotReadYet
  <2>3. e = <<p.src, p.tick>>
    BY <1>6
  <2> HIDE DEF p
  <2>4. p.offset \in Nat /\ p.bytes \in Nat
    BY <2>1 DEF NetPackets
  <2>5. p.offset \in 0 .. EventLength[e] - 1 /\ Covers(p, p.offset)
    BY <1>4, <1>6, <2>1, <2>4 DEF Covers
  <2>6. buf[p.offset] = e /\ p.offset \in Bytes
    BY <1>3, <1>4, <2>5
  <2> QED BY <2>2, <2>3, <2>5, <2>6 DEF Unread
<1> QED BY <1>5, <1>6 DEF Spent

LEMMA ReturnedSpent ==
  ASSUME SendInv, NetFromSent, PathInv, CallInv, ReturnInv, copies = 0
  PROVE  \A e \in Returned : Spent(e) /\ e \in Events
<1>1. \A e \in ToSet(delivered) : e \in Events
  BY DEF ReturnInv, ReturnTypes, ToSet
<1>2. \A e \in Pending : e \in Events
  BY PendingType DEF CallInv
<1> QED BY <1>1, <1>2, PendingIsSpent DEF ReturnInv, ReturnedAreSpent, Returned

\* Every packet sent is a piece of its event, and empty only with it.
SentWithin ==
    \A s \in sent : /\ s.offset + s.bytes <= EventLength[<<s.src, s.tick>>]
                    /\ s.bytes = 0 => EventLength[<<s.src, s.tick>>] = 0

LEMMA SentWithinHolds == SendInv => SentWithin
BY SentFacts DEF SentWithin

\* What is spent stays so: no packet of the event is sent again.
LEMMA SpentStays ==
  ASSUME SendInv, SendInv', SentOnce', SentWithin', NetFromSent, NetFromSent', [Next]_vars,
         copies \in Nat, copies' = 0, NEW e \in Events, Spent(e)
  PROVE  Spent(e)'
<1>1. EventLength[e] \in Nat
  BY HeldFacts
<1>2. sent \subseteq sent'
  BY SendingAdds, NetSteps DEF sndVars
<1>3. \A b \in 0 .. EventLength[e] - 1 :
         \E s \in sent' : e = <<s.src, s.tick>> /\ Covers(s, b)
  BY <1>2 DEF Spent
<1>4. ASSUME EventLength[e] > 0, NEW i \in 1 .. Len(net'),
             e = <<net'[i].src, net'[i].tick>>
      PROVE  FALSE
  <2>1. net \in Seq(NetPackets) /\ net' \in Seq(NetPackets)
    BY DEF NetFromSent
  <2>2. \A k \in 1 .. Len(net) : e # <<net[k].src, net[k].tick>>
    BY <1>4 DEF Spent
  <2>3. ~\E k \in 1 .. Len(net) : net'[i] = net[k]
    BY <1>4, <2>2
  <2>4. ~\E k \in 1 .. Len(net) : Arrives(k)
    <3> SUFFICES ASSUME NEW k \in 1 .. Len(net), Arrives(k) PROVE FALSE
      OBVIOUS
    <3>1. LeftWithout(net', net, k)
      BY <2>1, Taken
    <3> QED BY <2>3, <3>1, Zenon DEF LeftWithout
  <2>5. ~\E k \in 1 .. Len(net) : Duplicate(k)
    BY DEF Duplicate
  <2>6. net' # net
    BY <1>4, <2>3
  <2>7. PICK src \in Sources : Sending(src)
    BY <2>4, <2>5, <2>6, NetSteps
  <2>8. PICK p \in NetPackets : /\ net' = Append(net, p)
                                /\ p.length = EventLength[<<p.src, p.tick>>]
                                /\ \E r \in sent' \ sent : SameData(r, p)
    BY <2>6, <2>7, SendingAdds, Zenon
  <2>9. net'[i] = p
    <3>1. i = Len(net) + 1 \/ i \in 1 .. Len(net)
      BY <2>1, <2>8
    <3> QED BY <2>1, <2>3, <2>8, <3>1
  <2>10. PICK r \in sent' \ sent : SameData(r, p)
    BY <2>8
  <2>11. r \in sent' /\ e = <<r.src, r.tick>>
    BY <1>4, <2>9, <2>10 DEF SameData
  <2>12. /\ r \in SentPackets
         /\ r.offset + r.bytes <= EventLength[e]
         /\ r.bytes = 0 => EventLength[e] = 0
    BY <2>11 DEF SentWithin, SendInv, SendTypes
  <2>13. r.offset \in Nat /\ r.bytes \in Nat
    BY <2>12 DEF SentPackets
  <2>14. r.offset \in 0 .. EventLength[e] - 1 /\ Covers(r, r.offset)
    BY <1>1, <1>4, <2>12, <2>13 DEF Covers
  <2>15. PICK s \in sent : e = <<s.src, s.tick>> /\ Covers(s, r.offset)
    BY <2>14 DEF Spent
  <2>16. s \in sent' /\ s # r /\ SameEvent(r, s)
    BY <1>2, <2>10, <2>11, <2>15 DEF SameEvent
  <2>17. Apart(r, s)
    BY <2>11, <2>16 DEF SentOnce
  <2> QED BY <2>13, <2>14, <2>15, <2>16, <2>17 DEF Apart
<1> QED BY <1>3, <1>4 DEF Spent

\* A packet that completes an event counts it.
LEMMA StatsCounted ==
  ASSUME RecvTypes, NetFromSent, stats \in StatCounts, NEW i \in 1 .. Len(net),
         AcceptPacket(i)
  PROVE  LET p == net[i]
             n == Copied(p).totalBytesRead
         IN  /\ stats' \in StatCounts
             /\ n \in Nat
             /\ TakesStats => stats'.acceptedBytes = IF n >= p.length
                                                     THEN stats.acceptedBytes + n
                                                     ELSE stats.acceptedBytes
<1> DEFINE p == net[i]
           r == Copied(p)
           d == r.totalBytesRead >= p.length
           x == stats.acceptedBytes + r.totalBytesRead
           y == stats.acceptedPackets + r.pktCount
           z == stats.discardedBuffers + r.discardedBufs
           w == stats.droppedBuffers + DroppedTicks(p.tick)
<1>1. stats' = IF d /\ TakesStats
               THEN [stats EXCEPT !.acceptedBytes = x, !.acceptedPackets = y,
                                  !.discardedBuffers = z, !.droppedBuffers = w]
               ELSE stats
  BY DEF AcceptPacket
<1>2. p \in NetPackets
  BY DEF NetFromSent
<1>3. Verdict(p) = "fits"
  BY DEF AcceptPacket, Read
<1>4. ~OtherSource(p) /\ (rcv.dumpTick => NewTick(p))
  BY <1>3, VerdictFits
<1> HIDE DEF p
<1>5. r \in Locals
  BY <1>2, <1>4, CopiedFields
<1> HIDE DEF r
<1>6. r.totalBytesRead \in Nat /\ r.pktCount \in Nat /\ r.discardedBufs \in Nat
  BY <1>5 DEF Locals
<1>7. /\ stats.acceptedBytes \in Nat /\ stats.acceptedPackets \in Nat
      /\ stats.discardedBuffers \in Nat /\ stats.droppedBuffers \in Nat
  BY DEF StatCounts
<1>8. DroppedTicks(p.tick) \in Nat
  <2>1. p.tick \in Nat /\ rcv.expectedTick \in Int
    BY <1>2, ChannelAssumption DEF NetPackets, RecvTypes, Locals
  <2> QED BY <2>1 DEF DroppedTicks
<1>9. x \in Nat /\ y \in Nat /\ z \in Nat /\ w \in Nat
  <2> \A a \in Nat : \A b \in Nat : a + b \in Nat
    OBVIOUS
  <2> QED BY <1>6, <1>7, <1>8, Zenon
<1> HIDE DEF x, y, z, w, d
<1>10. stats' \in StatCounts
  BY <1>1, <1>9 DEF StatCounts
<1>11. TakesStats => stats'.acceptedBytes = IF d THEN x ELSE stats.acceptedBytes
  BY <1>1 DEF StatCounts
<1> QED BY <1>6, <1>10, <1>11, Zenon DEF d, x, r, p

\* How a step changes what has been returned and what has been counted.
LEMMA CountSteps ==
  ASSUME RecvTypes, NetFromSent, stats \in StatCounts, [Next]_vars
  PROVE  /\ stats' \in StatCounts
         /\ \/ /\ delivered' = delivered /\ Pending' = Pending
               /\ stats'.acceptedBytes = stats.acceptedBytes
            \/ Returning /\ stats' = stats
            \/ \E i \in 1 .. Len(net) : /\ AcceptPacket(i) \/ (StagedAccept(i) /\ InStages)
                                        /\ delivered' = delivered /\ Pending = {}
<1> DEFINE Same == /\ delivered' = delivered /\ Pending' = Pending
                   /\ stats' \in StatCounts
                   /\ stats'.acceptedBytes = stats.acceptedBytes
<1>1. ASSUME UNCHANGED <<delivered, stats, result>> PROVE Same
  BY <1>1 DEF Pending
<1>2. ASSUME UNCHANGED <<delivered, stats>>, result = Running, result'.status # "ok"
      PROVE  Same
  BY <1>2 DEF Pending, Running
<1>3. ASSUME NEW i \in 1 .. Len(net), Receiving(i)
      PROVE  \/ Same
             \/ /\ stats' \in StatCounts
                /\ AcceptPacket(i) \/ (StagedAccept(i) /\ InStages)
                /\ delivered' = delivered /\ Pending = {}
  <2>1. delivered' = delivered
    BY <1>3 DEF Receiving
  <2>2. CASE AcceptPacket(i)
    <3>1. result = Running
      BY <2>2 DEF AcceptPacket, Read, ReadAny, Reading
    <3>2. stats' \in StatCounts
      BY <2>2, StatsCounted, Zenon
    <3> QED BY <2>1, <2>2, <3>1, <3>2 DEF Pending, Running
  <2>3. CASE RejectOtherSource(i)
    <3>1. result' = result
      BY <2>3 DEF RejectOtherSource
    <3> DEFINE k == stats.badSrcIdPackets + 1
    <3>2. stats' = stats \/ stats' = [stats EXCEPT !.badSrcIdPackets = k]
      BY <2>3 DEF RejectOtherSource
    <3>3. k \in Nat
      BY DEF StatCounts
    <3> HIDE DEF k
    <3>4. stats' \in StatCounts /\ stats'.acceptedBytes = stats.acceptedBytes
      BY <3>2, <3>3 DEF StatCounts
    <3> QED BY <2>1, <3>1, <3>4 DEF Pending
  <2>4. CASE Crash(i) \/ DumpNewTick(i) \/ DumpSameTick(i) \/ Overrun(i)
    BY <1>1, <2>1, <2>4 DEF Crash, DumpNewTick, DumpSameTick, Overrun
  <2>5. CASE BufferTooSmall(i) \/ StagedOutOfOrder(i)
    <3>1. result = Running /\ result'.status # "ok" /\ stats' = stats
      BY <2>5 DEF BufferTooSmall, StagedOutOfOrder, Read, ReadAny, Reading
    <3> QED BY <1>2, <2>1, <3>1
  <2>6. CASE StagedReject(i)
    <3>1. result = Running /\ stats' = stats
      BY <2>6 DEF StagedReject, ReadAny, Reading
    <3>2. result' = result \/ result'.status # "ok"
      BY <2>6 DEF StagedReject
    <3> QED BY <1>1, <1>2, <2>1, <3>1, <3>2
  <2>7. CASE StagedAccept(i)
    <3>1. result = Running /\ stats' = stats /\ InStages
      BY <2>7 DEF StagedAccept, ReadAny, Reading
    <3> QED BY <2>1, <2>7, <3>1 DEF Pending, Running
  <2> QED BY <1>3, <2>2, <2>3, <2>4, <2>5, <2>6, <2>7
          DEF Receiving, ReceiveStep, GetCompletePacketizedBuffer,
              GetCompleteAllocatedBuffer, GetPacketizedBuffer, Complete
<1>4. ASSUME Failing PROVE Same
  <2>1. result = Running /\ result' = [status |-> "RECV_MSG"] /\ UNCHANGED <<delivered, stats>>
    BY <1>4 DEF Failing, ReceiveFails, Reading
  <2> QED BY <1>2, <2>1
<1>5. ASSUME Opening PROVE Same
  <2>1. result = Running /\ UNCHANGED <<delivered, stats>>
    BY <1>5 DEF Opening, OpenSocket
  <2>2. result' = result \/ result' = [status |-> "NETWORK_ERROR"]
    BY <1>5 DEF Opening, OpenSocket
  <2> QED BY <1>1, <1>2, <2>1, <2>2
<1>6. ASSUME NEW src \in Sources, Sending(src) PROVE Same
  BY <1>1, <1>6 DEF Sending, rcvVars
<1>7. ASSUME NEW i \in 1 .. Len(net), Lose(i) \/ Duplicate(i) PROVE Same
  BY <1>1, <1>7 DEF Lose, Duplicate, rcvVars
<1>8. ASSUME Finished \/ UNCHANGED vars PROVE Same
  BY <1>1, <1>8 DEF Finished, vars, rcvVars
<1>9. ASSUME Returning PROVE stats' = stats
  BY <1>9 DEF Returning, CallAgain
<1> HIDE DEF Same
<1>10. \/ Same
       \/ Returning /\ stats' = stats
       \/ \E i \in 1 .. Len(net) : /\ stats' \in StatCounts
                                   /\ AcceptPacket(i) \/ (StagedAccept(i) /\ InStages)
                                   /\ delivered' = delivered /\ Pending = {}
  BY <1>3, <1>4, <1>5, <1>6, <1>7, <1>8, <1>9, Zenon DEF Next
<1> QED BY <1>10, Zenon DEF Same

\* An answer that is taken moves to what has been returned.
LEMMA ReturningMoves ==
  ASSUME RecvTypes, delivered \in Seq(Events), IsFiniteSet(ToSet(delivered)), Returning
  PROVE  /\ delivered' \in Seq(Events) /\ IsFiniteSet(ToSet(delivered'))
         /\ ToSet(delivered') = Returned
         /\ Pending' = {}
<1>1. Pending' = {}
  BY DEF Returning, CallAgain, Running, Pending
<1>2. CASE result.status = "ok"
  <2> DEFINE e == <<result.src, result.tick>>
  <2>1. Pending = {e} /\ delivered' = Append(delivered, e)
    BY <1>2 DEF Pending, Returning
  <2>2. e \in Events
    BY <2>1, PendingType
  <2> HIDE DEF e
  <2>3. delivered' \in Seq(Events) /\ ToSet(delivered') = ToSet(delivered) \cup {e}
    <3>1. /\ delivered' \in Seq(Events) /\ Len(delivered') = Len(delivered) + 1
          /\ \A i \in 1 .. Len(delivered) : delivered'[i] = delivered[i]
          /\ delivered'[Len(delivered) + 1] = e
          /\ Len(delivered) \in Nat
      BY <2>1, <2>2
    <3>2. /\ DOMAIN delivered = 1 .. Len(delivered)
          /\ DOMAIN delivered' = 1 .. Len(delivered) + 1
      BY <3>1
    <3> QED BY <3>1, <3>2 DEF ToSet
  <2>4. IsFiniteSet(ToSet(delivered'))
    BY <2>3, FS_AddElement
  <2> QED BY <1>1, <2>1, <2>3, <2>4 DEF Returned
<1>3. CASE result.status # "ok"
  BY <1>1, <1>3 DEF Returning, Pending, Returned
<1> QED BY <1>2, <1>3

LEMMA ReturnStep ==
  ASSUME SendInv, NetFromSent, PathInv, CallInv, ReturnInv, [Next]_vars,
         SendInv', SentOnce', SentWithin', NetFromSent', PathInv', CallInv'
  PROVE  ReturnInv'
<1>0. /\ delivered \in Seq(Events) /\ IsFiniteSet(ToSet(delivered))
      /\ stats \in StatCounts /\ copies \in Nat
      /\ RecvTypes
  BY DEF ReturnInv, ReturnTypes, PathInv, BufType, CallInv
<1>1. (copies' = 0 => copies = 0) /\ (TakesStats' <=> TakesStats)
  BY <1>0, ReaderStays DEF TakesStats, OpensSocket, InStages
<1>2. Pending \subseteq Events /\ IsFiniteSet(Pending)
  BY PendingType DEF CallInv
<1>3. IsFiniteSet(Returned)
  BY <1>0, <1>2, FS_Union DEF Returned
<1>4. /\ stats' \in StatCounts
      /\ \/ /\ delivered' = delivered /\ Pending' = Pending
            /\ stats'.acceptedBytes = stats.acceptedBytes
         \/ Returning /\ stats' = stats
         \/ \E i \in 1 .. Len(net) : /\ AcceptPacket(i) \/ (StagedAccept(i) /\ InStages)
                                     /\ delivered' = delivered /\ Pending = {}
  BY <1>0, CountSteps
<1>5. ReturnTypes'
  BY <1>0, <1>4, ReturningMoves DEF ReturnTypes
<1>6. ReturnedAreSpent'
  <2> SUFFICES ASSUME copies' = 0, NEW e \in ToSet(delivered') PROVE Spent(e)'
    BY DEF ReturnedAreSpent
  <2>1. ToSet(delivered') \subseteq Returned
    BY <1>0, <1>4, ReturningMoves DEF Returned
  <2>2. Spent(e) /\ e \in Events
    BY <1>1, <2>1, ReturnedSpent
  <2> QED BY <1>0, <2>2, SpentStays
<1>7. CountsReturned'
  <2> SUFFICES ASSUME TakesStats, TakesStats', copies' = 0, copies = 0
               PROVE  stats'.acceptedBytes = SumOver(EventLength, Returned')
    BY <1>1 DEF CountsReturned
  <2>0. stats.acceptedBytes = SumOver(EventLength, Returned)
    BY DEF ReturnInv, CountsReturned
  <2>1. CASE /\ delivered' = delivered /\ Pending' = Pending
             /\ stats'.acceptedBytes = stats.acceptedBytes
    <3>1. Returned' = Returned
      BY <2>1 DEF Returned
    <3> QED BY <2>0, <2>1, <3>1
  <2>2. CASE Returning /\ stats' = stats
    <3>1. Returned' = Returned
      BY <1>0, <2>2, ReturningMoves DEF Returned
    <3> QED BY <2>0, <2>2, <3>1
  <2>3. ASSUME NEW i \in 1 .. Len(net), AcceptPacket(i), delivered' = delivered, Pending = {}
        PROVE  stats'.acceptedBytes = SumOver(EventLength, Returned')
    <3> DEFINE p == net[i]
               n == Copied(p).totalBytesRead
               e == <<p.src, p.tick>>
    <3>1. n \in Nat /\ stats'.acceptedBytes = IF n >= p.length THEN stats.acceptedBytes + n
                                                              ELSE stats.acceptedBytes
      BY <1>0, <2>3, StatsCounted, Zenon
    <3>2. result = Running /\ result' = IF n >= p.length THEN Ok(p, n) ELSE result
      BY <2>3 DEF AcceptPacket, Read, ReadAny, Reading
    <3>3. Returned = ToSet(delivered)
      BY <2>3 DEF Returned
    <3>4. CASE ~(n >= p.length)
      <4>1. Pending' = {}
        BY <3>2, <3>4 DEF Pending, Running
      <4>2. Returned' = Returned
        BY <2>3, <3>3, <4>1 DEF Returned
      <4> QED BY <2>0, <3>1, <3>4, <4>2
    <3>5. CASE n >= p.length
      <4>1. /\ result'.status = "ok" /\ result'.bytes = n
            /\ <<result'.src, result'.tick>> = e
        BY <3>2, <3>5 DEF Ok
      <4>2. Pending' = {e}
        BY <4>1 DEF Pending
      <4>3. Returned' = Returned \cup {e}
        BY <2>3, <3>3, <4>2 DEF Returned
      <4>4. n = EventLength[e]
        BY <4>1 DEF CallInv, ReturnsEntireBuffer
      <4>5. p \in NetPackets
        BY DEF NetFromSent
      <4>6. e \in Events
        BY <4>5 DEF NetPackets, Events
      <4>7. EventLength[e] \in Nat /\ \A x \in Returned : EventLength[x] \in Nat
        BY <4>6, ReturnedSpent, HeldFacts
      <4>8. stats'.acceptedBytes = stats.acceptedBytes + EventLength[e]
        BY <3>1, <3>5, <4>4
      <4>9. e \in Returned => EventLength[e] = 0
        <5> SUFFICES ASSUME e \in Returned, EventLength[e] > 0 PROVE FALSE
          BY <4>7
        <5>1. Spent(e)
          BY ReturnedSpent
        <5> QED BY <5>1 DEF Spent
      <4> HIDE DEF e, n, p
      <4>10. CASE e \in Returned
        <5>1. Returned \cup {e} = Returned
          BY <4>10
        <5>2. stats.acceptedBytes \in Nat
          BY <1>0 DEF StatCounts
        <5>3. stats'.acceptedBytes = stats.acceptedBytes
          BY <4>8, <4>9, <4>10, <5>2
        <5> QED BY <2>0, <4>3, <5>1, <5>3, Zenon
      <4>11. CASE e \notin Returned
        <5>1. \A x \in Returned \cup {e} : EventLength[x] \in Int
          BY <4>7
        <5>2. SumOver(EventLength, Returned \cup {e})
                 = EventLength[e] + SumOver(EventLength, Returned)
          BY <1>3, <4>11, <5>1, SumAdd, Zenon
        <5>3. stats.acceptedBytes \in Nat
          BY <1>0 DEF StatCounts
        <5> QED BY <2>0, <4>3, <4>7, <4>8, <5>2, <5>3
      <4> QED BY <4>10, <4>11
    <3> QED BY <3>4, <3>5
  <2> QED BY <1>4, <2>1, <2>2, <2>3 DEF TakesStats
<1> QED BY <1>5, <1>6, <1>7 DEF ReturnInv

LEMMA ReturnInit == Init => ReturnInv
<1> SUFFICES ASSUME Init PROVE ReturnInv
  OBVIOUS
<1>1. /\ delivered = <<>> /\ result = Running /\ stats.acceptedBytes = 0
      /\ stats \in StatCounts
  BY DEF Init, ReceiveInit, StatCounts
<1>2. ToSet(delivered) = {} /\ Pending = {} /\ delivered \in Seq(Events)
  BY <1>1 DEF ToSet, Pending, Running
<1>3. Returned = {} /\ IsFiniteSet({})
  BY <1>2, FS_EmptySet DEF Returned
<1>4. SumOver(EventLength, {}) = 0
  BY <1>3, SumType, Zenon
<1> QED BY <1>1, <1>2, <1>3, <1>4 DEF ReturnInv, ReturnTypes, ReturnedAreSpent, CountsReturned

\* The sum in the property is the sum of the lemmas.
LEMMA BytesAreSum == \A S : EventBytes(S) = SumOver(EventLength, S)
BY DEF EventBytes, FoldSet, MapThenFoldSet, Sums, SumOver, Pick

LEMMA Counted == Spec => []ReturnInv
<1>1. SendInv => SentOnce /\ SentWithin
  BY SentOnceHolds, SentWithinHolds
<1>2. Init => ReturnInv
  BY ReturnInit
<1>3. /\ SendInv /\ NetFromSent /\ PathInv /\ CallInv /\ ReturnInv /\ [Next]_vars
      /\ (SendInv /\ SentOnce /\ SentWithin /\ NetFromSent /\ PathInv /\ CallInv)'
      => ReturnInv'
  BY ReturnStep
<1> QED BY <1>1, <1>2, <1>3, Received, PTL DEF Spec

\* The statistics of the reassembly functions count the bytes of every event
\* returned, each once, and no others (ejfat_assemble_ersap.hpp:996-1013): not what
\* a call left unfinished, and no event a second time, as long as the network
\* doubles nothing.
THEOREM StatsExact == Spec => []StatsMatchReturns
<1>1. ReturnInv => StatsMatchReturns
  <2> SUFFICES ASSUME ReturnInv, TakesStats, result = Running, copies = 0
               PROVE  stats.acceptedBytes = EventBytes(ToSet(delivered))
    BY DEF StatsMatchReturns
  <2>1. Returned = ToSet(delivered)
    BY DEF Returned, Pending, Running
  <2>2. stats.acceptedBytes = SumOver(EventLength, ToSet(delivered))
    BY <2>1 DEF ReturnInv, CountsReturned
  <2> QED BY <2>2, BytesAreSum, Zenon
<1> QED BY <1>1, Counted, PTL

-----------------------------------------------------------------------------
(* A path without loss or reordering.                                      *)

\* A single source, whose events have data and fit into a buffer of a fixed size,
\* and packets for which a growing buffer has room at first.
InOrderPath ==
    /\ ~Reorder /\ ~CanLose /\ MaxCopies = 0
    /\ ~CanFailSend /\ ~CanFailRecv
    /\ \A a, b \in Sources : a = b
    /\ \A e \in Events : EventLength[e] > 0
    /\ \/ Readers \cap {"getCompletePacketizedBuffer", "getBufferNoCopy"} = {}
       \/ \A e \in Events : EventLength[e] <= BufLen
    /\ PathLimit <= JumboBytes

\* A place in the stream is a tick and the bytes of its event before the place.
From(p) == <<p.tick, p.offset>>
To(p)   == <<p.tick, p.offset + p.bytes>>
Full(src, x) == x[2] = EventLength[<<src, x[1]>>]

\* Behind place x the stream goes on at y.
Continues(src, x, y) == IF Full(src, x) THEN y[2] = 0 /\ x[1] < y[1] ELSE y = x

\* The receiver has a part of an event.
Mid    == ~rcv.veryFirstRead /\ result.status # "ok"
ReadTo == <<rcv.prevTick, rcv.totalBytesRead>>

\* The receiver is ready for the stream from y.
Takes(y) == IF Mid THEN y = ReadTo
            ELSE y[2] = 0 /\ \A e \in Returned : e[2] < y[1]

SentTo(src) == <<snd[src].tick, snd[src].localOffset>>

\* The packets on the way follow each other, and the first what has been read.
NetInOrder ==
    /\ \A i \in 1 .. Len(net) : net[i].bytes <= PathLimit
    /\ \A i \in 1 .. Len(net) - 1 : Continues(net[i].src, To(net[i]), From(net[i + 1]))
    /\ Len(net) > 0 => Takes(From(net[1]))

\* The source goes on where the last packet on the way ends, or where the receiver
\* stands; at the end of an event it may still be there.
Ahead(src) ==
    IF Len(net) > 0
    THEN LET x == To(net[Len(net)])
         IN  SentTo(src) = x \/ (Full(src, x) /\ Continues(src, x, SentTo(src)))
    ELSE \/ Takes(SentTo(src))
         \/ ~Mid /\ Full(src, SentTo(src)) /\ \A e \in Returned : e[2] <= SentTo(src)[1]

\* The receivers do not read what is sent with the old header.
SourceInOrder(src) ==
    IF sender[src] \in OldHeader THEN net = <<>>
    ELSE snd[src].tick \in Ticks => Ahead(src)

StreamInOrder == NetInOrder /\ \A src \in Sources : SourceInOrder(src)

\* The event in hand has more bytes to come and follows those returned.
HandInOrder ==
    Mid => /\ InHand \in Events
           /\ rcv.totalBytesRead < EventLength[InHand]
           /\ \A e \in Returned : e[2] < rcv.prevTick

-----------------------------------------------------------------------------

LEMMA OneSource ==
  ASSUME InOrderPath, NEW a \in Sources, NEW b \in Sources
  PROVE  a = b
BY DEF InOrderPath

LEMMA LengthsInOrder ==
  ASSUME InOrderPath, NEW src \in Sources, NEW tick \in Ticks
  PROVE  /\ EventLength[<<src, tick>>] \in Nat
         /\ EventLength[<<src, tick>>] > 0
         /\ tick \in Nat
BY EventLengthType, ChannelAssumption DEF InOrderPath, Events

\* What a step of a source does to its place in the stream.
LEMMA SourceMoves ==
  ASSUME InOrderPath, SendInv, NEW src \in Sources, Sending(src)
  PROVE  /\ sender' = sender
         /\ \/ net' = net /\ SentTo(src)' = SentTo(src)
            \/ net' = net /\ sender[src] \in OldHeader
            \/ /\ net' = net /\ snd[src].tick \in Ticks /\ Full(src, SentTo(src))
               /\ SentTo(src)'[1] \in Ticks
                     => SentTo(src)[1] < SentTo(src)'[1] /\ SentTo(src)'[2] = 0
            \/ \E p \in NetPackets :
                  /\ net' = Append(net, p)
                  /\ p.src = src /\ p.bytes <= PathLimit
                  /\ snd[src].tick \in Ticks /\ sender[src] \notin OldHeader
                  /\ From(p) = SentTo(src) /\ ~Full(src, From(p))
                  /\ To(p) = SentTo(src)'
<1> DEFINE c == snd[src]
           d == snd'[src]
           n == EventLength[<<src, c.tick>>]
<1>0. snd \in [Sources -> Calls] /\ c \in Calls
  BY DEF SendInv, SendTypes
<1>1. sender' = sender
  BY DEF Sending, SendStep, SendFails
<1>2. c.tick \in Ticks => /\ n \in Nat /\ n > 0
                          /\ Midway(c, PacketsOf(src, c.tick), n)
  <2> SUFFICES ASSUME c.tick \in Ticks
               PROVE  n \in Nat /\ n > 0 /\ Midway(c, PacketsOf(src, c.tick), n)
    OBVIOUS
  <2>1. EventOk(c.tick, c, PacketsOf(src, c.tick), n, sender[src] \in OldHeader)
    BY DEF SendInv, EventsOk
  <2> QED BY <2>1, LengthsInOrder DEF EventOk
<1>3. ASSUME NEW fn, SendPacket(src, fn), sender[src] \in OldHeader <=> fn \in OldHeader
      PROVE  \/ net' = net /\ sender[src] \in OldHeader
             \/ \E p \in NetPackets :
                  /\ net' = Append(net, p)
                  /\ p.src = src /\ p.bytes <= PathLimit
                  /\ c.tick \in Ticks /\ sender[src] \notin OldHeader
                  /\ From(p) = SentTo(src) /\ ~Full(src, From(p))
                  /\ To(p) = SentTo(src)'
  <2> DEFINE k == BytesToWrite(c)
             p == Packet(src, c.tick, c.localOffset, k)
  <2>1. /\ c.tick \in Ticks /\ Looping(c) /\ k <= PathLimit
        /\ snd' = [snd EXCEPT ![src] = AfterSend(c, fn)]
        /\ net' = IF fn \in OldHeader THEN net ELSE Append(net, p)
    BY <1>3 DEF SendPacket, InLoop, SourceDone
  <2>2. d = AfterSend(c, fn)
    BY <1>0, <2>1
  <2>3. /\ c.localOffset + c.remainingBytes = n /\ c.maxUdpPayload >= 1
        /\ (c.firstLoop => c.veryFirstPacket) /\ (c.veryFirstPacket => c.localOffset = 0)
        /\ n \in Nat /\ n > 0
    BY <1>2, <2>1 DEF Midway
  <2>4. c.localOffset \in Nat /\ c.remainingBytes \in Nat /\ k \in Nat
    BY <1>0, <2>3, BytesToWriteBounds DEF Calls
  <2>5. d.tick = c.tick /\ d.localOffset = c.localOffset + k
    <3> HIDE DEF c, d
    <3>1. /\ AfterSend(c, fn).tick = c.tick
          /\ AfterSend(c, fn).localOffset = c.localOffset + BytesToWrite(c)
      BY <1>0, <2>3, AfterSendFields, Zenon
    <3> QED BY <2>2, <3>1
  <2>6. c.localOffset # n
    <3> HIDE DEF c, k, n
    <3>1. c.firstLoop \/ c.remainingBytes > 0
      BY <2>1 DEF Looping
    <3> QED BY <2>3, <2>4, <3>1
  <2> HIDE DEF c, d, k
  <2>7. /\ p \in NetPackets /\ p.src = src /\ p.tick = c.tick
        /\ p.offset = c.localOffset /\ p.bytes = k
    BY <2>1, <2>3, <2>4 DEF NetPackets, Packet
  <2> HIDE DEF p
  <2>8. From(p) = <<c.tick, c.localOffset>> /\ To(p) = <<d.tick, d.localOffset>>
    BY <2>5, <2>7 DEF From, To
  <2>9. ~Full(src, From(p))
    BY <2>6, <2>8 DEF Full
  <2> QED BY <1>3, <2>1, <2>7, <2>8, <2>9 DEF SentTo, c, d
<1>4. ASSUME NEW fn, ShrinkPayload(src, fn) PROVE net' = net /\ SentTo(src)' = SentTo(src)
  <2>1. /\ net' = net
        /\ \E x, y, z : snd' = [snd EXCEPT ![src].maxUdpPayload = x, ![src].veryLastPacket = y,
                                           ![src].firstLoop = z]
    BY <1>4 DEF ShrinkPayload
  <2>2. d.tick = c.tick /\ d.localOffset = c.localOffset
    BY <1>0, <2>1 DEF Calls
  <2> QED BY <2>1, <2>2 DEF SentTo
<1>5. ASSUME SendReturns(src)
      PROVE  /\ net' = net /\ c.tick \in Ticks /\ Full(src, SentTo(src))
             /\ SentTo(src)'[1] \in Ticks
                   => SentTo(src)[1] < SentTo(src)'[1] /\ SentTo(src)'[2] = 0
  <2> DEFINE t == NextTick(c.tick)
  <2>1. c.tick \in Ticks /\ ~Looping(c) /\ StartNext(src) /\ net' = net
    BY <1>5 DEF SendReturns, SourceDone
  <2>2. /\ c.localOffset + c.remainingBytes = n /\ n \in Nat
    BY <1>2, <2>1 DEF Midway
  <2>3. c.localOffset \in Nat /\ c.remainingBytes \in Nat /\ c.tick \in Nat
    BY <1>0 DEF Calls
  <2>4. c.localOffset = n
    BY <2>1, <2>2, <2>3 DEF Looping
  <2>5. t \in Nat /\ c.tick < t
    BY <2>1, <2>3, NextTickSkipsNone
  <2>6. d = IF t \in Ticks THEN NewCall(src, t, sender[src]) ELSE [c EXCEPT !.tick = t]
    BY <1>0, <2>1 DEF StartNext
  <2> HIDE DEF t
  <2>7. d.tick = t /\ (t \in Ticks => d.localOffset = 0)
    BY <1>0, <2>6 DEF NewCall, Calls
  <2> HIDE DEF c, d
  <2> QED BY <2>1, <2>4, <2>5, <2>7 DEF SentTo, Full, c, d
<1>6. ASSUME SendBufferOpens(src) PROVE net' = net /\ SentTo(src)' = SentTo(src)
  <2>1. net' = net /\ snd' = [snd EXCEPT ![src].open = TRUE]
    BY <1>6 DEF SendBufferOpens, InOrderPath
  <2>2. d.tick = c.tick /\ d.localOffset = c.localOffset
    BY <1>0, <2>1 DEF Calls
  <2> QED BY <2>1, <2>2 DEF SentTo
<1>7. SendStep(src)
  BY DEF Sending, SendFails, InOrderPath
<1>8. \/ \E fn : Loop(src, fn) /\ (sender[src] \in OldHeader <=> fn \in OldHeader)
      \/ SendBufferOpens(src)
  BY <1>7 DEF SendStep, SendNew, FastNew, Fast, Send, Sendto, Sendmsg, OldHeader
<1>9. \/ \E fn : SendPacket(src, fn) /\ (sender[src] \in OldHeader <=> fn \in OldHeader)
      \/ \E fn : ShrinkPayload(src, fn)
      \/ SendReturns(src)
      \/ SendBufferOpens(src)
  BY <1>8 DEF Loop
<1> HIDE DEF c
<1> QED BY <1>1, <1>3, <1>4, <1>5, <1>6, <1>9, Zenon DEF c

\* What is returned are events.
LEMMA ReturnedTicks ==
  ASSUME RecvTypes, delivered \in Seq(Events), NEW e \in Returned
  PROVE  e[2] \in Nat /\ e \in Events
<1>1. e \in Events
  BY PendingType DEF Returned, ToSet
<1> QED BY <1>1, ChannelAssumption DEF Events

\* A source that goes on keeps the stream in order.
LEMMA SendingInOrder ==
  ASSUME InOrderPath, SendInv, NetFromSent, RecvTypes, delivered \in Seq(Events),
         HandInOrder, StreamInOrder,
         NEW src \in Sources, Sending(src)
  PROVE  StreamInOrder'
<1> DEFINE x == SentTo(src)
           y == SentTo(src)'
           n == Len(net)
           q == net[n]
<1>1. /\ net \in Seq(NetPackets) /\ n \in Nat
      /\ snd \in [Sources -> Calls] /\ rcv \in Locals
  BY DEF NetFromSent, SendInv, SendTypes, RecvTypes
<1>2. /\ \A s \in Sources : s = src
      /\ SourceInOrder(src)
      /\ \A i \in 1 .. n : net[i].bytes <= PathLimit
      /\ \A i \in 1 .. n - 1 : Continues(net[i].src, To(net[i]), From(net[i + 1]))
      /\ n > 0 => Takes(From(net[1]))
  BY OneSource DEF StreamInOrder, NetInOrder
<1>3. /\ UNCHANGED <<rcv, result, delivered>> /\ sender' = sender
      /\ Mid' = Mid /\ Returned' = Returned /\ ReadTo' = ReadTo
      /\ \A z : Takes(z)' <=> Takes(z)
  BY SourceMoves DEF Sending, rcvVars, Mid, Returned, Pending, ReadTo, Takes
<1>4. n > 0 => q \in NetPackets /\ q.src = src
  <2>1. n > 0 => q \in NetPackets
    BY <1>1
  <2> QED BY <1>2, <2>1 DEF NetPackets
<1>5. x = <<snd[src].tick, snd[src].localOffset>> /\ y = <<snd'[src].tick, snd'[src].localOffset>>
  BY DEF SentTo
<1>6. ASSUME net' = net, SourceInOrder(src)' PROVE StreamInOrder'
  BY <1>2, <1>3, <1>6 DEF StreamInOrder, NetInOrder
<1>7. CASE net' = net /\ SentTo(src)' = SentTo(src)
  <2>1. snd'[src].tick = snd[src].tick
    BY <1>5, <1>7
  <2>2. Ahead(src)' <=> Ahead(src)
    BY <1>3, <1>7 DEF Ahead
  <2>3. SourceInOrder(src)'
    BY <1>2, <1>3, <1>7, <2>1, <2>2 DEF SourceInOrder
  <2> QED BY <1>6, <1>7, <2>3
<1>8. CASE net' = net /\ sender[src] \in OldHeader
  <2>1. SourceInOrder(src)'
    BY <1>2, <1>3, <1>8 DEF SourceInOrder
  <2> QED BY <1>6, <1>8, <2>1
<1>9. ASSUME net' = net, snd[src].tick \in Ticks, Full(src, x),
             y[1] \in Ticks => x[1] < y[1] /\ y[2] = 0
      PROVE  StreamInOrder'
  <2>1. CASE sender[src] \in OldHeader \/ y[1] \notin Ticks
    <3>1. SourceInOrder(src)'
      BY <1>2, <1>3, <1>5, <1>9, <2>1 DEF SourceInOrder
    <3> QED BY <1>6, <1>9, <3>1
  <2>2. CASE sender[src] \notin OldHeader /\ y[1] \in Ticks
    <3>1. Ahead(src)
      BY <1>2, <1>9, <2>2 DEF SourceInOrder
    <3>2. x[1] < y[1] /\ y[2] = 0 /\ x[1] \in Nat /\ y[1] \in Nat
      <4>1. x[1] = snd[src].tick
        BY <1>5
      <4> HIDE DEF x, y
      <4> QED BY <1>9, <2>2, <4>1, ChannelAssumption
    <3>3. CASE n > 0
      <4>1. x = To(q) \/ (Full(src, To(q)) /\ Continues(src, To(q), x))
        BY <3>1, <3>3 DEF Ahead
      <4>2. Full(src, To(q)) /\ (To(q)[1] = x[1] \/ To(q)[1] < x[1])
        BY <1>9, <4>1 DEF Continues
      <4>3. To(q)[1] \in Nat
        BY <1>4, <3>3, ChannelAssumption DEF To, NetPackets
      <4>4. Full(src, To(q)) /\ Continues(src, To(q), y)
        BY <3>2, <4>2, <4>3 DEF Continues
      <4>5. Ahead(src)'
        BY <1>9, <3>3, <4>4 DEF Ahead
      <4>6. SourceInOrder(src)'
        BY <1>3, <2>2, <4>5 DEF SourceInOrder
      <4> QED BY <1>6, <1>9, <4>6
    <3>4. CASE ~(n > 0)
      <4>1. Takes(x) \/ (~Mid /\ Full(src, x) /\ \A e \in Returned : e[2] <= x[1])
        BY <3>1, <3>4 DEF Ahead
      <4>2. x[2] > 0
        BY <1>5, <1>9, LengthsInOrder DEF Full
      <4>3. ~Mid /\ \A e \in Returned : e[2] < x[1] \/ e[2] <= x[1]
        <5>1. CASE Mid
          <6>1. x = <<rcv.prevTick, rcv.totalBytesRead>> /\ InHand \in Events
                /\ rcv.totalBytesRead < EventLength[InHand]
            BY <4>1, <5>1 DEF Takes, ReadTo, HandInOrder
          <6>2. InHand = <<src, x[1]>> /\ x[2] = rcv.totalBytesRead
            BY <1>2, <6>1 DEF InHand, Events
          <6>3. x[2] < EventLength[<<src, x[1]>>] /\ x[2] = EventLength[<<src, x[1]>>]
            BY <1>9, <6>1, <6>2 DEF Full
          <6>4. EventLength[<<src, x[1]>>] \in Nat
            BY <1>5, <1>9, LengthsInOrder
          <6> QED BY <6>3, <6>4
        <5>2. CASE ~Mid
          BY <4>1, <4>2, <5>2 DEF Takes
        <5> QED BY <5>1, <5>2
      <4>4. \A e \in Returned : e[2] < y[1]
        <5> SUFFICES ASSUME NEW e \in Returned PROVE e[2] < y[1]
          OBVIOUS
        <5>1. e[2] \in Nat
          BY ReturnedTicks
        <5> QED BY <3>2, <4>3, <5>1
      <4>5. Takes(y)
        BY <3>2, <4>3, <4>4 DEF Takes
      <4>6. Ahead(src)'
        BY <1>3, <1>9, <3>4, <4>5 DEF Ahead
      <4>7. SourceInOrder(src)'
        BY <1>3, <2>2, <4>6 DEF SourceInOrder
      <4> QED BY <1>6, <1>9, <4>7
    <3> QED BY <3>3, <3>4
  <2> QED BY <2>1, <2>2
<1>10. ASSUME NEW p \in NetPackets, net' = Append(net, p), p.src = src, p.bytes <= PathLimit,
              snd[src].tick \in Ticks, sender[src] \notin OldHeader,
              From(p) = x, ~Full(src, From(p)), To(p) = y
       PROVE  StreamInOrder'
  <2>1. Ahead(src)
    BY <1>2, <1>10 DEF SourceInOrder
  <2>2. /\ Len(net') = n + 1 /\ net'[n + 1] = p
        /\ \A i \in 1 .. n : net'[i] = net[i]
    BY <1>1, <1>10
  <2>3. n > 0 => Continues(src, To(q), From(p))
    <3> SUFFICES ASSUME n > 0 PROVE Continues(src, To(q), x)
      BY <1>10
    <3>1. x = To(q) \/ (Full(src, To(q)) /\ Continues(src, To(q), x))
      BY <2>1 DEF Ahead
    <3> QED BY <1>10, <3>1 DEF Continues
  <2>4. n = 0 => Takes(From(p))
    BY <1>10, <2>1 DEF Ahead
  <2> HIDE DEF x, y, n
  <2>5. \A i \in 1 .. n + 1 : net'[i].bytes <= PathLimit
    <3> SUFFICES ASSUME NEW i \in 1 .. n + 1 PROVE net'[i].bytes <= PathLimit
      OBVIOUS
    <3>1. i \in 1 .. n \/ i = n + 1
      BY <1>1
    <3> QED BY <1>2, <1>10, <2>2, <3>1, Zenon
  <2>6. ASSUME NEW i \in 1 .. n
        PROVE  Continues(net'[i].src, To(net'[i]), From(net'[i + 1]))
    <3>1. CASE i = n
      <4>1. n > 0 /\ net'[i] = q /\ net'[i + 1] = p
        BY <1>1, <2>2, <2>6, <3>1
      <4> QED BY <1>4, <2>3, <4>1, Zenon
    <3>2. CASE i # n
      <4>1. i \in 1 .. n - 1 /\ i + 1 \in 1 .. n
        BY <1>1, <2>6, <3>2
      <4> QED BY <1>2, <2>2, <2>6, <4>1, Zenon
    <3> QED BY <3>1, <3>2
  <2>7. Takes(From(net[1]))'
    <3>1. Takes(From(net[1])')
      <4>1. CASE n = 0
        BY <2>2, <2>4, <4>1 DEF From
      <4>2. CASE n # 0
        <5>1. 1 \in 1 .. n /\ n > 0
          BY <1>1, <4>2
        <5>2. net'[1] = net[1] /\ Takes(From(net[1]))
          BY <1>2, <2>2, <5>1, Zenon
        <5> QED BY <5>2 DEF From
      <4> QED BY <4>1, <4>2
    <3> QED BY <1>3, <3>1 DEF Takes
  <2>8. NetInOrder'
    <3>1. (n + 1) - 1 = n /\ n + 1 > 0
      BY <1>1
    <3> QED BY <2>2, <2>5, <2>6, <2>7, <3>1, Zenon DEF NetInOrder
  <2>9. Ahead(src)'
    <3>1. Len(net') > 0 /\ net'[Len(net')] = p
      BY <1>1, <2>2
    <3> QED BY <1>10, <3>1 DEF Ahead, y
  <2> QED BY <1>2, <1>3, <1>10, <2>8, <2>9 DEF StreamInOrder, SourceInOrder
<1> HIDE DEF x, y
<1>11. \/ net' = net /\ SentTo(src)' = SentTo(src)
       \/ net' = net /\ sender[src] \in OldHeader
       \/ /\ net' = net /\ snd[src].tick \in Ticks /\ Full(src, x)
          /\ y[1] \in Ticks => x[1] < y[1] /\ y[2] = 0
       \/ \E p \in NetPackets :
             /\ net' = Append(net, p)
             /\ p.src = src /\ p.bytes <= PathLimit
             /\ snd[src].tick \in Ticks /\ sender[src] \notin OldHeader
             /\ From(p) = x /\ ~Full(src, From(p))
             /\ To(p) = y
  BY SourceMoves, Zenon DEF x, y
<1> QED BY <1>7, <1>8, <1>9, <1>10, <1>11, Zenon

\* A buffer of a fixed size keeps it, one that grows has room for what was read and
\* at first for one packet.
RoomInOrder ==
    /\ bufLen \in Nat
    /\ ~Grows => bufLen = BufLen
    /\ Grows => JumboBytes <= bufLen /\ (Mid => rcv.totalBytesRead <= bufLen)

CallInOrder == /\ HandInOrder /\ RoomInOrder
               /\ ~rcv.dumpTick /\ rcv.discardedBufs = 0

\* A packet that goes on where the receiver stands has room.
LEMMA FitsInRoom ==
  ASSUME InOrderPath, RoomInOrder, reader \in Readers, ~InStages, NEW p \in NetPackets,
         p.length = EventLength[<<p.src, p.tick>>], p.offset + p.bytes <= p.length,
         p.bytes <= PathLimit, p.offset = 0 \/ (Mid /\ p.offset = rcv.totalBytesRead)
  PROVE  ~TooBig(p, Room)
<1>1. /\ p.offset \in Nat /\ p.bytes \in Nat /\ p.length \in Nat
      /\ <<p.src, p.tick>> \in Events
  BY DEF NetPackets, Events
<1>2. bufLen \in Nat /\ PathLimit <= JumboBytes
      /\ PathLimit \in Nat /\ JumboBytes \in Nat /\ BufLen \in Nat
  BY PayloadAssumption, AssembleAssumption DEF RoomInOrder, InOrderPath
<1>3. CASE Grows
  <2>1. p.bytes <= bufLen /\ p.offset <= bufLen
    BY <1>1, <1>2, <1>3 DEF RoomInOrder
  <2> QED BY <1>1, <1>2, <1>3, <2>1 DEF TooBig, Room
<1>4. CASE ~Grows
  <2>1. bufLen = BufLen
    BY <1>4 DEF RoomInOrder
  <2>2. reader \in {"getCompletePacketizedBuffer", "getBufferNoCopy"}
    BY <1>4, AssembleAssumption DEF Grows, InStages
  <2>3. p.length <= BufLen
    BY <1>1, <2>2 DEF InOrderPath
  <2> QED BY <1>1, <1>2, <1>4, <2>1, <2>3 DEF TooBig, Room
<1> QED BY <1>3, <1>4

\* The first packet on the way is the one the receiver needs.
LEMMA FirstIsNext ==
  ASSUME InOrderPath, SendInv, NetFromSent, CallInv, delivered \in Seq(Events),
         CallInOrder, StreamInOrder, reader \in Readers, Len(net) > 0, Reading,
         NEW p, p = net[1]
  PROVE  /\ p \in NetPackets /\ p.length = EventLength[<<p.src, p.tick>>]
         /\ p.offset + p.bytes <= p.length /\ p.bytes > 0 /\ p.bytes <= PathLimit
         /\ rcv.veryFirstRead \/ ~NewTick(p)
         /\ p.offset = IF rcv.veryFirstRead THEN 0 ELSE rcv.totalBytesRead
         /\ \A e \in Returned : e[2] < p.tick
         /\ ~InStages => Verdict(p) = "fits" /\ ~TooBig(p, Room)
         /\ InStages => StagedExpects(p) /\ ~Foreign(p)
<1>1. net \in Seq(NetPackets) /\ 1 \in 1 .. Len(net)
  BY DEF NetFromSent
<1>2. /\ p \in NetPackets /\ p.length = EventLength[<<p.src, p.tick>>]
      /\ p.offset + p.bytes <= p.length /\ (p.bytes = 0 => p.length = 0)
  BY <1>1, OnTheWayFacts
<1>3. /\ p.src \in Sources /\ p.tick \in Ticks /\ p.tick \in Nat
      /\ p.offset \in Nat /\ p.bytes \in Nat /\ p.length \in Nat
  BY <1>2, ChannelAssumption DEF NetPackets
<1>4. p.length > 0 /\ p.bytes > 0
  BY <1>2, <1>3, LengthsInOrder
<1>5. p.bytes <= PathLimit /\ Takes(From(p))
  BY <1>1 DEF StreamInOrder, NetInOrder
<1>6. result.status # "ok" /\ rcv \in Locals /\ rcv.totalBytesRead \in Nat
  BY DEF Reading, Running, CallInv, RecvTypes, Locals
<1>7. Mid <=> ~rcv.veryFirstRead
  BY <1>6 DEF Mid
<1>8. /\ From(p)[1] = p.tick /\ From(p)[2] = p.offset
  BY DEF From
<1>9. CASE rcv.veryFirstRead
  <2>1. p.offset = 0 /\ \A e \in Returned : e[2] < p.tick
    BY <1>5, <1>7, <1>8, <1>9 DEF Takes
  <2>2. ~InStages => Verdict(p) = "fits"
    BY <1>3, <1>4, <1>9, <2>1 DEF Verdict, DividesByZero, OtherSource, MissedFirst, CallInOrder
  <2>3. InStages => StagedExpects(p) /\ ~Foreign(p)
    BY <1>9, <2>1 DEF StagedExpects, Foreign
  <2>4. ~TooBig(p, Room) \/ InStages
    BY <1>2, <1>3, <1>4, <1>5, <1>9, <2>1, FitsInRoom DEF CallInOrder
  <2> QED BY <1>2, <1>4, <1>5, <1>9, <2>1, <2>2, <2>3, <2>4
<1>10. CASE ~rcv.veryFirstRead
  <2>1. /\ p.tick = rcv.prevTick /\ p.offset = rcv.totalBytesRead
        /\ \A e \in Returned : e[2] < p.tick
        /\ InHand \in Events
    BY <1>5, <1>7, <1>8, <1>10 DEF Takes, ReadTo, CallInOrder, HandInOrder
  <2>2. rcv.srcId = p.src
    BY <1>3, <2>1, OneSource DEF InHand, Events
  <2>3. ~InStages => Verdict(p) = "fits"
    BY <1>10, <2>1, <2>2 DEF Verdict, DividesByZero, OtherSource, MissedFirst, NewTick, CallInOrder
  <2>4. InStages => StagedExpects(p) /\ ~Foreign(p)
    BY <1>10, <2>1, <2>2 DEF StagedExpects, Foreign, CallInv, PartsFollow
  <2>5. ~TooBig(p, Room) \/ InStages
    BY <1>2, <1>3, <1>4, <1>5, <1>6, <1>7, <1>10, <2>1, FitsInRoom DEF CallInOrder
  <2> QED BY <1>2, <1>4, <1>5, <1>10, <2>1, <2>3, <2>4, <2>5 DEF NewTick
<1> QED BY <1>9, <1>10

\* A packet that is read is the first one, and is taken.
LEMMA TakesInTurn ==
  ASSUME InOrderPath, SendInv, NetFromSent, CallInv, delivered \in Seq(Events),
         CallInOrder, StreamInOrder, reader \in Readers,
         NEW i \in 1 .. Len(net), Receiving(i)
  PROVE  /\ i = 1 /\ Len(net) > 0 /\ Reading /\ Arrives(1)
         /\ (AcceptPacket(1) /\ ~InStages) \/ (StagedAccept(1) /\ InStages)
         /\ UNCHANGED <<sndVars, copies, delivered, reader>>
<1>1. ReadAny(i)
  BY Zenon DEF Receiving, ReceiveStep, GetCompletePacketizedBuffer,
     GetCompleteAllocatedBuffer, GetPacketizedBuffer, Complete, Crash,
     RejectOtherSource, DumpNewTick, DumpSameTick, AcceptPacket, BufferTooSmall,
     Overrun, StagedOutOfOrder, StagedReject, StagedAccept, Read
<1>2. i = 1 /\ Reading /\ Arrives(1) /\ UNCHANGED reader /\ Len(net) > 0
  BY <1>1 DEF ReadAny, Deliverable, InOrderPath, NetFromSent
<1> DEFINE p == net[1]
<1>3. /\ ~InStages => Verdict(p) = "fits" /\ ~TooBig(p, Room)
      /\ InStages => StagedExpects(p) /\ ~Foreign(p)
  BY <1>2, FirstIsNext
<1> HIDE DEF p
<1>4. CASE InStages
  <2>1. ~StagedOutOfOrder(1) /\ ~StagedReject(1)
    BY <1>3, <1>4 DEF StagedOutOfOrder, StagedReject, p
  <2>2. StagedAccept(1)
    BY <1>2, <1>4, <2>1 DEF Receiving, ReceiveStep, GetCompletePacketizedBuffer,
       GetCompleteAllocatedBuffer, GetPacketizedBuffer, Complete, Crash,
       RejectOtherSource, DumpNewTick, DumpSameTick, AcceptPacket, BufferTooSmall,
       Overrun, Read
  <2> QED BY <1>2, <1>4, <2>2 DEF Receiving
<1>5. CASE ~InStages
  <2>1. /\ ~Crash(1) /\ ~RejectOtherSource(1) /\ ~DumpNewTick(1) /\ ~DumpSameTick(1)
        /\ ~BufferTooSmall(1) /\ ~Overrun(1)
    BY <1>3, <1>5 DEF Crash, RejectOtherSource, DumpNewTick, DumpSameTick, BufferTooSmall,
       Overrun, Read, p
  <2>2. AcceptPacket(1)
    BY <1>2, <1>5, <2>1 DEF Receiving, ReceiveStep, GetCompletePacketizedBuffer,
       GetCompleteAllocatedBuffer, GetPacketizedBuffer, Complete, StagedOutOfOrder,
       StagedReject, StagedAccept
  <2> QED BY <1>2, <1>5, <2>2 DEF Receiving
<1> QED BY <1>4, <1>5

\* The locals that a copied packet leaves alone if it starts no event over.
LEMMA CopiedLeaves ==
  ASSUME rcv \in Locals, NEW p, rcv.veryFirstRead \/ ~NewTick(p)
  PROVE  /\ Copied(p).discardedBufs = rcv.discardedBufs
         /\ Copied(p).expectedTick = rcv.expectedTick
<1> DEFINE c == Restart(p)
           r == Copied(p)
<1>1. c = [rcv EXCEPT !.totalBytesRead = 0, !.pktCount = 0, !.srcId = p.src] \/ c = rcv
  BY DEF Restart, Begin
<1>2. r = [c EXCEPT !.totalBytesRead = @ + p.bytes,
                    !.pktCount = @ + 1,
                    !.veryFirstRead = FALSE,
                    !.dumpTick = IF NewTick(p) THEN FALSE ELSE @,
                    !.prevTick = p.tick]
  BY DEF Copied
<1> HIDE DEF c, r
<1>3. /\ c.discardedBufs = rcv.discardedBufs /\ c.expectedTick = rcv.expectedTick
      /\ DOMAIN c = DOMAIN rcv
  BY <1>1 DEF Locals
<1>4. "discardedBufs" \in DOMAIN c /\ "expectedTick" \in DOMAIN c
  BY <1>3 DEF Locals
<1> QED BY <1>2, <1>3, <1>4 DEF r

\* What taking the first packet does.
LEMMA TakingInOrder ==
  ASSUME InOrderPath, SendInv, NetFromSent, CallInv, delivered \in Seq(Events),
         stats \in StatCounts,
         CallInOrder, StreamInOrder, reader \in Readers, Len(net) > 0, Reading,
         NEW p, p = net[1],
         (AcceptPacket(1) /\ ~InStages) \/ (StagedAccept(1) /\ InStages)
  PROVE  LET n == p.offset + p.bytes
         IN  /\ ~rcv'.veryFirstRead /\ ~rcv'.dumpTick /\ rcv'.discardedBufs = 0
             /\ rcv'.prevTick = p.tick /\ rcv'.srcId = p.src /\ rcv'.totalBytesRead = n
             /\ rcv'.expectedTick = rcv.expectedTick
             /\ IF n >= p.length
                THEN /\ result'.status = "ok" /\ result'.src = p.src /\ result'.tick = p.tick
                     /\ stats'.droppedBuffers = stats.droppedBuffers
                                                + IF TakesStats THEN DroppedTicks(p.tick) ELSE 0
                ELSE /\ result'.status \in IF InStages THEN {"running", "part"} ELSE {"running"}
                     /\ stats' = stats
             /\ stats'.discardedBuffers = stats.discardedBuffers
             /\ bufLen' \in Nat
             /\ ~Grows => bufLen' = bufLen
             /\ Grows => bufLen <= bufLen' /\ n <= bufLen'
             /\ broken' = broken
<1> DEFINE n == p.offset + p.bytes
<1>1. /\ p \in NetPackets /\ p.offset + p.bytes <= p.length
      /\ rcv.veryFirstRead \/ ~NewTick(p)
      /\ p.offset = IF rcv.veryFirstRead THEN 0 ELSE rcv.totalBytesRead
      /\ ~InStages => Verdict(p) = "fits" /\ ~TooBig(p, Room)
      /\ InStages => StagedExpects(p) /\ ~Foreign(p)
  BY FirstIsNext
<1>2. /\ rcv \in Locals /\ result = Running /\ bufLen \in Nat
      /\ RecvTypes /\ ~rcv.dumpTick /\ rcv.discardedBufs = 0
  BY DEF CallInv, RecvTypes, CallInOrder, RoomInOrder, Reading
<1>3. p.offset \in Nat /\ p.bytes \in Nat /\ p.length \in Nat
  BY <1>1 DEF NetPackets
<1>4. CASE AcceptPacket(1) /\ ~InStages
  <2> DEFINE r == Copied(p)
             d == r.totalBytesRead >= p.length
             x == stats.acceptedBytes + r.totalBytesRead
             y == stats.acceptedPackets + r.pktCount
             z == stats.discardedBuffers + r.discardedBufs
             w == stats.droppedBuffers + DroppedTicks(p.tick)
  <2>1. /\ rcv' = r
        /\ result' = IF d THEN Ok(p, r.totalBytesRead) ELSE result
        /\ bufLen' = IF TooBig(p, bufLen) THEN Room ELSE bufLen
        /\ broken' = broken
    BY <1>4 DEF AcceptPacket
  <2>2. stats' = IF d /\ TakesStats
                 THEN [stats EXCEPT !.acceptedBytes = x, !.acceptedPackets = y,
                                    !.discardedBuffers = z, !.droppedBuffers = w]
                 ELSE stats
    BY <1>4 DEF AcceptPacket
  <2>3. ~OtherSource(p)
    BY <1>1, <1>4, VerdictFits
  <2>4. /\ ~r.veryFirstRead /\ ~r.dumpTick /\ r.prevTick = p.tick /\ r.srcId = p.src
        /\ r.totalBytesRead = (IF Fresh(p) THEN 0 ELSE rcv.totalBytesRead) + p.bytes
    BY <1>1, <1>2, <2>3, CopiedFields
  <2>5. r.discardedBufs = 0 /\ r.expectedTick = rcv.expectedTick
    BY <1>1, <1>2, CopiedLeaves
  <2> HIDE DEF r
  <2>6. r.totalBytesRead = n
    BY <1>1, <1>3, <2>4 DEF Fresh
  <2>7. /\ bufLen' \in Nat
        /\ ~Grows => bufLen' = bufLen
        /\ Grows => bufLen <= bufLen' /\ n <= bufLen'
    <3>1. CASE TooBig(p, bufLen)
      BY <1>1, <1>2, <1>3, <1>4, <2>1, <3>1 DEF Room, TooBig
    <3>2. CASE ~TooBig(p, bufLen)
      BY <1>1, <1>2, <1>3, <1>4, <2>1, <3>2 DEF Room, TooBig
    <3> QED BY <3>1, <3>2
  <2>8. z = stats.discardedBuffers
    BY <2>5 DEF StatCounts
  <2> HIDE DEF d, x, y, z, w
  <2>9. /\ stats'.discardedBuffers = stats.discardedBuffers
        /\ stats'.droppedBuffers = IF d /\ TakesStats THEN w ELSE stats.droppedBuffers
        /\ ~d => stats' = stats
    BY <2>2, <2>8 DEF StatCounts
  <2>10. stats.droppedBuffers \in Nat
    BY DEF StatCounts
  <2>11. d => /\ result'.status = "ok" /\ result'.src = p.src /\ result'.tick = p.tick
    BY <2>1 DEF Ok
  <2>12. ~d => result'.status = "running"
    BY <1>2, <2>1 DEF Running
  <2>13. d <=> n >= p.length
    BY <2>6 DEF d
  <2>14. d => stats'.droppedBuffers = stats.droppedBuffers
                                      + IF TakesStats THEN DroppedTicks(p.tick) ELSE 0
    BY <2>9, <2>10 DEF w
  <2> HIDE DEF n
  <2> QED BY <1>4, <2>1, <2>4, <2>5, <2>6, <2>7, <2>9, <2>11, <2>12, <2>13, <2>14 DEF n
<1>5. CASE StagedAccept(1) /\ InStages
  <2> DEFINE t == rcv.totalBytesRead + p.bytes
             u == rcv.remainingLen - p.bytes
             v == rcv.pktCount + 1
             r == [rcv EXCEPT !.veryFirstRead = FALSE, !.srcId = p.src, !.prevTick = p.tick,
                              !.totalBytesRead = t, !.remainingLen = u,
                              !.pktCount = v, !.nextOffset = n]
  <2>1. /\ rcv' = r
        /\ result' = IF r.nextOffset >= p.length THEN Ok(p, r.totalBytesRead)
                     ELSE IF r.remainingLen < JumboBytes THEN [status |-> "part"]
                     ELSE result
        /\ bufLen' = bufLen /\ stats' = stats /\ broken' = broken
    BY <1>5 DEF StagedAccept
  <2>2. rcv.veryFirstRead => rcv.totalBytesRead = 0
    BY <1>5 DEF CallInv, PartsFollow
  <2>3. t = n
    BY <1>1, <1>2, <1>3, <2>2 DEF Locals
  <2>4. stats.droppedBuffers \in Nat
    BY DEF StatCounts
  <2>5. ~TakesStats /\ ~Grows
    BY <1>5 DEF TakesStats, InStages, Grows
  <2> HIDE DEF n, t, u, v
  <2>6. /\ ~r.veryFirstRead /\ r.dumpTick = rcv.dumpTick /\ r.discardedBufs = rcv.discardedBufs
        /\ r.prevTick = p.tick /\ r.srcId = p.src /\ r.totalBytesRead = t
        /\ r.expectedTick = rcv.expectedTick /\ r.nextOffset = n
    BY <1>2 DEF Locals
  <2> HIDE DEF r
  <2>7. n >= p.length => /\ result'.status = "ok" /\ result'.src = p.src /\ result'.tick = p.tick
    BY <2>1, <2>6 DEF Ok
  <2>8. ~(n >= p.length) => result'.status \in {"running", "part"}
    BY <1>2, <2>1, <2>6 DEF Running
  <2> QED BY <1>2, <1>5, <2>1, <2>3, <2>4, <2>5, <2>6, <2>7, <2>8 DEF n
<1> QED BY <1>4, <1>5

\* Once the first packet is taken the receiver is ready for what follows it, and
\* has the whole event if that packet ends it.
LEMMA ReadyForNext ==
  ASSUME InOrderPath, SendInv, NetFromSent, CallInv, delivered \in Seq(Events),
         stats \in StatCounts,
         CallInOrder, StreamInOrder, reader \in Readers, Len(net) > 0, Reading,
         NEW p, p = net[1],
         (AcceptPacket(1) /\ ~InStages) \/ (StagedAccept(1) /\ InStages),
         delivered' = delivered
  PROVE  /\ \A y : y[1] \in Nat /\ Continues(p.src, To(p), y) => Takes(y)'
         /\ Full(p.src, To(p)) => ~Mid' /\ \A e \in Returned' : e[2] <= p.tick
         /\ Full(p.src, To(p)) => Returned' = Returned \cup {<<p.src, p.tick>>}
         /\ ~Full(p.src, To(p)) => Returned' = Returned /\ Mid'
<1> DEFINE n == p.offset + p.bytes
           x == To(p)
           e == <<p.src, p.tick>>
<1>1. /\ p \in NetPackets /\ p.length = EventLength[e] /\ n <= p.length
      /\ \A a \in Returned : a[2] < p.tick
  BY FirstIsNext
<1>2. /\ p.offset \in Nat /\ p.bytes \in Nat /\ p.length \in Nat /\ p.tick \in Nat
      /\ x = <<p.tick, n>>
  BY <1>1, ChannelAssumption DEF NetPackets, To
<1>3. /\ ~rcv'.veryFirstRead /\ rcv'.prevTick = p.tick /\ rcv'.totalBytesRead = n
      /\ n >= p.length
            => result'.status = "ok" /\ result'.src = p.src /\ result'.tick = p.tick
      /\ ~(n >= p.length) => result'.status \in {"running", "part"}
  BY TakingInOrder
<1>4. Full(p.src, x) <=> n >= p.length
  BY <1>1, <1>2 DEF Full
<1>5. Pending = {}
  BY DEF Pending, Reading, Running
<1> HIDE DEF n, x
<1>6. CASE n >= p.length
  <2>1. Pending' = {e} /\ ~Mid'
    BY <1>3, <1>6 DEF Pending, Mid
  <2>2. Returned' = Returned \cup {e}
    BY <1>5, <2>1 DEF Returned
  <2>3. \A a \in Returned' : a[2] <= p.tick
    <3> SUFFICES ASSUME NEW a \in Returned' PROVE a[2] <= p.tick
      OBVIOUS
    <3>1. CASE a = e
      BY <1>2, <3>1
    <3>2. CASE a \in Returned
      <4>1. a[2] \in Nat /\ a[2] < p.tick
        BY <1>1, <3>2, ReturnedTicks DEF CallInv
      <4> QED BY <1>2, <4>1
    <3> QED BY <2>2, <3>1, <3>2
  <2>4. ASSUME NEW y, y[1] \in Nat, Continues(p.src, x, y) PROVE Takes(y)'
    <3>1. y[2] = 0 /\ p.tick < y[1]
      BY <1>2, <1>4, <1>6, <2>4 DEF Continues
    <3>2. ASSUME NEW a \in Returned' PROVE a[2] < y[1]
      <4>1. a[2] \in Nat /\ a[2] <= p.tick
        <5>1. CASE a = e
          BY <1>2, <5>1
        <5>2. CASE a \in Returned
          BY <2>3, <5>2, <3>2, ReturnedTicks DEF CallInv
        <5> QED BY <2>2, <3>2, <5>1, <5>2
      <4> QED BY <1>2, <2>4, <3>1, <4>1
    <3> QED BY <2>1, <3>1, <3>2 DEF Takes
  <2> QED BY <1>4, <1>6, <2>1, <2>2, <2>3, <2>4 DEF x
<1>7. CASE ~(n >= p.length)
  <2>1. Pending' = {} /\ Mid'
    BY <1>3, <1>7 DEF Pending, Mid
  <2>2. Returned' = Returned
    BY <1>5, <2>1 DEF Returned
  <2>3. ReadTo' = x
    BY <1>2, <1>3 DEF ReadTo
  <2>4. ASSUME NEW y, y[1] \in Nat, Continues(p.src, x, y) PROVE Takes(y)'
    <3>1. y = x
      BY <1>4, <1>7, <2>4 DEF Continues
    <3> QED BY <2>1, <2>3, <3>1 DEF Takes
  <2> QED BY <1>4, <1>7, <2>1, <2>2, <2>4 DEF x
<1> QED BY <1>6, <1>7

\* The packet behind the one taken, or the source, is next.
LEMMA TakenStreamInOrder ==
  ASSUME InOrderPath, SendInv, NetFromSent, CallInv, delivered \in Seq(Events),
         stats \in StatCounts,
         CallInOrder, StreamInOrder, reader \in Readers,
         NEW i \in 1 .. Len(net), Receiving(i)
  PROVE  StreamInOrder'
<1> DEFINE p == net[1]
           n == Len(net)
<1>1. /\ n > 0 /\ Reading /\ Arrives(1) /\ delivered' = delivered
      /\ (AcceptPacket(1) /\ ~InStages) \/ (StagedAccept(1) /\ InStages)
      /\ UNCHANGED sndVars
  BY TakesInTurn
<1>2. p \in NetPackets
  BY <1>1, FirstIsNext
<1>3. /\ \A y : y[1] \in Nat /\ Continues(p.src, To(p), y) => Takes(y)'
      /\ Full(p.src, To(p)) => ~Mid' /\ \A e \in Returned' : e[2] <= p.tick
  BY <1>1, ReadyForNext
<1>4. /\ snd' = snd /\ sender' = sender
  BY <1>1 DEF sndVars
<1>5. /\ net \in Seq(NetPackets) /\ 1 \in 1 .. n /\ n \in Nat
  BY <1>1 DEF NetFromSent
<1>6. /\ Len(net') = n - 1
      /\ \A j \in 1 .. n - 1 : net'[j] = net[j + 1]
  <2>1. /\ Len(RemoveAt(net, 1)) = n - 1
        /\ \A j \in 1 .. n - 1 : RemoveAt(net, 1)[j] = IF j < 1 THEN net[j] ELSE net[j + 1]
    BY <1>5, RemoveAtKeeps
  <2>2. \A j \in 1 .. n - 1 : ~(j < 1)
    BY <1>5
  <2> QED BY <1>1, <2>1, <2>2 DEF Arrives
<1>7. /\ \A j \in 1 .. n : net[j].bytes <= PathLimit
      /\ \A j \in 1 .. n - 1 : Continues(net[j].src, To(net[j]), From(net[j + 1]))
  BY DEF StreamInOrder, NetInOrder
<1> HIDE DEF n, p
<1>8. NetInOrder'
  <2>1. \A j \in 1 .. n - 1 : net'[j].bytes <= PathLimit
    <3>1. \A j \in 1 .. n - 1 : j + 1 \in 1 .. n
      BY <1>5
    <3> QED BY <1>6, <1>7, <3>1
  <2>2. ASSUME NEW j \in 1 .. (n - 1) - 1
        PROVE  Continues(net'[j].src, To(net'[j]), From(net'[j + 1]))
    <3>1. j \in 1 .. n - 1 /\ j + 1 \in 1 .. n - 1
      BY <1>5
    <3>2. net'[j] = net[j + 1] /\ net'[j + 1] = net[(j + 1) + 1]
      BY <1>6, <3>1
    <3> QED BY <1>7, <3>1, <3>2
  <2>3. n - 1 > 0 => Takes(From(net[1]))'
    <3> SUFFICES ASSUME n - 1 > 0 PROVE Takes(From(net[1]))'
      OBVIOUS
    <3>1. 1 \in 1 .. n - 1 /\ 1 + 1 = 2
      BY <1>5
    <3>2. Continues(p.src, To(p), From(net[2])) /\ net'[1] = net[2]
      BY <1>6, <1>7, <3>1 DEF p
    <3>3. PICK y : y = From(net'[1])
      OBVIOUS
    <3>4. 2 \in 1 .. n
      BY <1>5, <3>1
    <3>5. y[1] \in Nat
      <4>1. net[2] \in NetPackets
        BY <1>5, <3>4 DEF n
      <4> QED BY <3>2, <3>3, <4>1, ChannelAssumption DEF From, NetPackets
    <3>6. Takes(y)'
      BY <1>3, <3>2, <3>3, <3>5
    <3> QED BY <3>3, <3>6 DEF Takes, From
  <2> QED BY <1>6, <2>1, <2>2, <2>3 DEF NetInOrder
<1>9. ASSUME NEW src \in Sources PROVE SourceInOrder(src)'
  <2>0. sender[src] \notin OldHeader /\ (snd[src].tick \in Ticks => Ahead(src))
    <3>1. net # <<>>
      BY <1>1, <1>5 DEF n
    <3> QED BY <3>1 DEF StreamInOrder, SourceInOrder
  <2> SUFFICES ASSUME snd[src].tick \in Ticks PROVE Ahead(src)'
    BY <1>4, <2>0 DEF SourceInOrder
  <2>1. src = p.src /\ SentTo(src)' = SentTo(src)
    <3>1. p.src \in Sources
      BY <1>2 DEF NetPackets
    <3> QED BY <1>4, <3>1, OneSource DEF SentTo
  <2> DEFINE x == To(net[n])
  <2>9. PICK y : y = SentTo(src)
    OBVIOUS
  <2>2. y = x \/ (Full(src, x) /\ Continues(src, x, y))
    BY <1>1, <2>0, <2>9 DEF Ahead, n
  <2>3. CASE n > 1
    <3>1. n - 1 \in 1 .. n - 1 /\ (n - 1) + 1 = n /\ n - 1 > 0
      BY <1>5, <2>3
    <3>2. net'[n - 1] = net[n]
      BY <1>6, <3>1
    <3>3. To(net[Len(net)])' = x
      BY <1>6, <3>2 DEF To
    <3> HIDE DEF x
    <3>4. SentTo(src)' = y
      BY <2>1, <2>9
    <3> QED BY <1>6, <2>2, <3>1, <3>3, <3>4 DEF Ahead
  <2>4. CASE n = 1
    <3>1. x = To(p) /\ Len(net') = 0
      BY <1>5, <1>6, <2>4 DEF p
    <3>2. p.tick = x[1]
      BY <3>1 DEF To
    <3>0. y[1] \in Nat
      BY <2>9, ChannelAssumption DEF SentTo
    <3>6. x[1] \in Nat
      BY <1>2, <3>1, <3>2, ChannelAssumption DEF NetPackets
    <3> HIDE DEF x
    <3>3. \/ Takes(y)'
          \/ ~Mid' /\ Full(src, y) /\ \A e \in Returned' : e[2] <= y[1]
      <4>1. CASE Continues(src, x, y)
        BY <1>3, <2>1, <3>0, <3>1, <4>1
      <4>2. CASE y = x /\ Full(src, x)
        BY <1>3, <2>1, <3>1, <3>2, <4>2
      <4>3. CASE y = x /\ ~Full(src, x)
        <5>1. Continues(src, x, y)
          BY <4>3 DEF Continues
        <5> QED BY <4>1, <5>1
      <4> QED BY <2>2, <4>1, <4>2, <4>3
    <3>4. SentTo(src)' = y
      BY <2>1, <2>9
    <3>5. ~(Len(net') > 0)
      BY <3>1
    <3> QED BY <3>3, <3>4, <3>5 DEF Ahead, Takes
  <2>5. n > 1 \/ n = 1
    BY <1>1, <1>5
  <2> QED BY <2>3, <2>4, <2>5
<1> QED BY <1>8, <1>9 DEF StreamInOrder

LEMMA TakenCallInOrder ==
  ASSUME InOrderPath, SendInv, NetFromSent, CallInv, delivered \in Seq(Events),
         stats \in StatCounts,
         CallInOrder, StreamInOrder, reader \in Readers,
         NEW i \in 1 .. Len(net), Receiving(i)
  PROVE  CallInOrder'
<1> DEFINE p == net[1]
           n == p.offset + p.bytes
<1>1. /\ Len(net) > 0 /\ Reading /\ delivered' = delivered /\ reader' = reader
      /\ (AcceptPacket(1) /\ ~InStages) \/ (StagedAccept(1) /\ InStages)
  BY TakesInTurn
<1>2. /\ p \in NetPackets /\ p.length = EventLength[<<p.src, p.tick>>] /\ n <= p.length
      /\ \A e \in Returned : e[2] < p.tick
  BY <1>1, FirstIsNext
<1>3. /\ ~(Full(p.src, To(p))) => Returned' = Returned
      /\ Full(p.src, To(p)) => ~Mid'
  BY <1>1, ReadyForNext
<1>4. /\ ~rcv'.dumpTick /\ rcv'.discardedBufs = 0
      /\ rcv'.prevTick = p.tick /\ rcv'.srcId = p.src /\ rcv'.totalBytesRead = n
      /\ bufLen' \in Nat
      /\ ~Grows => bufLen' = bufLen
      /\ Grows => bufLen <= bufLen' /\ n <= bufLen'
  BY <1>1, TakingInOrder
<1>5. /\ p.offset \in Nat /\ p.bytes \in Nat /\ p.length \in Nat
      /\ p.src \in Sources /\ p.tick \in Ticks
  BY <1>2 DEF NetPackets
<1>6. Full(p.src, To(p)) <=> n = EventLength[<<p.src, p.tick>>]
  BY DEF Full, To
<1>7. Grows' <=> Grows
  BY <1>1 DEF Grows
<1> HIDE DEF p
<1>8. HandInOrder'
  <2> SUFFICES ASSUME Mid'
               PROVE  /\ InHand' \in Events
                      /\ rcv'.totalBytesRead < EventLength[InHand']
                      /\ \A e \in Returned' : e[2] < rcv'.prevTick
    BY DEF HandInOrder
  <2>1. InHand' = <<p.src, p.tick>>
    BY <1>4 DEF InHand
  <2>2. n < p.length /\ Returned' = Returned
    BY <1>2, <1>3, <1>5, <1>6
  <2> QED BY <1>2, <1>4, <1>5, <2>1, <2>2 DEF Events
<1>9. RoomInOrder'
  <2>1. ~Grows => bufLen' = BufLen
    BY <1>4 DEF CallInOrder, RoomInOrder
  <2>2. Grows => JumboBytes <= bufLen'
    BY <1>4, AssembleAssumption DEF CallInOrder, RoomInOrder
  <2> QED BY <1>4, <1>7, <2>1, <2>2 DEF RoomInOrder
<1> QED BY <1>4, <1>8, <1>9 DEF CallInOrder

-----------------------------------------------------------------------------

\* Every event returned is of a later tick than those before it.
Increasing ==
    /\ \A i \in DOMAIN delivered : i > 1 => delivered[i - 1][2] < delivered[i][2]
    /\ result.status = "ok" => \A e \in ToSet(delivered) : e[2] < result.tick

\* No error and nothing discarded.
Clean == /\ stats.discardedBuffers = 0
         /\ result.status \in {"running", "ok", "part"}
         /\ broken = "no"

\* Ticks from the first event returned to the last, when k of them were returned.
Skipped(last, k) == last - Head(delivered)[2] + 1 - k

\* The next call expects the tick after the last one returned, and the estimate is
\* the ticks skipped so far.
Estimated ==
    TakesStats /\ KnowExpectedTick =>
        /\ result.status \in {"running", "ok"}
        /\ result.status # "ok" =>
              rcv.expectedTick = IF delivered = <<>> THEN NoTick ELSE Last(delivered)[2] + 1
        /\ stats.droppedBuffers =
              IF delivered = <<>> THEN 0
              ELSE IF result.status = "ok" THEN Skipped(result.tick, Len(delivered) + 1)
              ELSE Skipped(Last(delivered)[2], Len(delivered))

InOrderInv == /\ copies = 0 /\ reader \in Readers
              /\ StreamInOrder /\ CallInOrder
              /\ Increasing /\ Clean /\ Estimated

\* The first and the last event returned.
LEMMA EndsOfReturned ==
  ASSUME delivered \in Seq(Events), delivered # <<>>
  PROVE  /\ Last(delivered) \in ToSet(delivered) /\ Last(delivered)[2] \in Nat
         /\ Head(delivered)[2] \in Nat
         /\ Len(delivered) \in Nat
<1>1. Len(delivered) \in 1 .. Len(delivered) /\ 1 \in 1 .. Len(delivered)
      /\ DOMAIN delivered = 1 .. Len(delivered)
  BY EmptySeq, LenProperties
<1>2. Last(delivered) = delivered[Len(delivered)] /\ Head(delivered) = delivered[1]
  BY <1>1, HeadTailProperties DEF Last
<1>3. delivered[Len(delivered)] \in Events /\ delivered[1] \in Events
  BY <1>1
<1>4. \A e \in Events : e[2] \in Nat
  BY ChannelAssumption DEF Events
<1> QED BY <1>1, <1>2, <1>3, <1>4 DEF ToSet

LEMMA TakenCounts ==
  ASSUME InOrderPath, SendInv, NetFromSent, CallInv, delivered \in Seq(Events),
         stats \in StatCounts, InOrderInv,
         NEW i \in 1 .. Len(net), Receiving(i)
  PROVE  Increasing' /\ Clean' /\ Estimated'
<1> DEFINE p == net[1]
           d == p.offset + p.bytes >= p.length
<1>1. /\ Len(net) > 0 /\ Reading /\ delivered' = delivered /\ reader' = reader
      /\ (AcceptPacket(1) /\ ~InStages) \/ (StagedAccept(1) /\ InStages)
      /\ CallInOrder /\ StreamInOrder /\ reader \in Readers
  BY TakesInTurn DEF InOrderInv
<1>2. p \in NetPackets /\ \A e \in Returned : e[2] < p.tick
  BY <1>1, FirstIsNext
<1>3. /\ rcv'.expectedTick = rcv.expectedTick
      /\ d => /\ result'.status = "ok" /\ result'.tick = p.tick
              /\ stats'.droppedBuffers = stats.droppedBuffers
                                         + IF TakesStats THEN DroppedTicks(p.tick) ELSE 0
      /\ ~d => /\ result'.status \in IF InStages THEN {"running", "part"} ELSE {"running"}
               /\ stats' = stats
      /\ stats'.discardedBuffers = stats.discardedBuffers
      /\ broken' = broken
  BY <1>1, TakingInOrder
<1>4. result = Running /\ result.status = "running" /\ Returned = ToSet(delivered)
  BY <1>1 DEF Reading, Running, Returned, Pending
<1>5. p.tick \in Nat /\ stats.droppedBuffers \in Nat
  BY <1>2, ChannelAssumption DEF NetPackets, StatCounts
<1>6. (TakesStats' <=> TakesStats) /\ (TakesStats => ~InStages)
  BY <1>1 DEF TakesStats, OpensSocket, InStages
<1> HIDE DEF p, d
<1>7. Increasing'
  <2>1. result'.status = "ok" => \A e \in ToSet(delivered) : e[2] < result'.tick
    BY <1>2, <1>3, <1>4
  <2> QED BY <1>1, <2>1 DEF InOrderInv, Increasing
<1>8. Clean'
  BY <1>3 DEF InOrderInv, Clean
<1>9. Estimated'
  <2> SUFFICES ASSUME TakesStats, KnowExpectedTick
               PROVE  /\ result'.status \in {"running", "ok"}
                      /\ rcv'.expectedTick = IF delivered = <<>> THEN NoTick
                                             ELSE Last(delivered)[2] + 1
                      /\ stats'.droppedBuffers =
                           IF delivered = <<>> THEN 0
                           ELSE IF result'.status = "ok"
                                THEN Skipped(result'.tick, Len(delivered) + 1)
                           ELSE Skipped(Last(delivered)[2], Len(delivered))
    BY <1>1, <1>6 DEF Estimated, Skipped
  <2>1. /\ rcv.expectedTick = IF delivered = <<>> THEN NoTick ELSE Last(delivered)[2] + 1
        /\ stats.droppedBuffers = IF delivered = <<>> THEN 0
                                  ELSE Skipped(Last(delivered)[2], Len(delivered))
    BY <1>4 DEF InOrderInv, Estimated
  <2>2. result'.status \in {"running", "ok"} /\ (~d => result'.status # "ok")
    BY <1>3, <1>6
  <2>3. CASE ~d
    BY <1>3, <2>1, <2>2, <2>3
  <2>4. CASE d /\ delivered = <<>>
    <3>1. DroppedTicks(p.tick) = 0
      BY <2>1, <2>4 DEF DroppedTicks
    <3> QED BY <1>3, <1>5, <2>1, <2>2, <2>4, <3>1
  <2>5. CASE d /\ delivered # <<>>
    <3> DEFINE l == Last(delivered)[2]
               h == Head(delivered)[2]
               k == Len(delivered)
    <3>1. l \in Nat /\ h \in Nat /\ k \in Nat /\ Last(delivered) \in ToSet(delivered)
      BY <2>5, EndsOfReturned
    <3>2. l < p.tick
      BY <1>2, <1>4, <3>1
    <3> HIDE DEF l
    <3>3. DroppedTicks(p.tick) = p.tick - (l + 1)
      <4>1. rcv.expectedTick = l + 1 /\ l + 1 # NoTick /\ ~(p.tick < l + 1)
        BY <1>5, <2>1, <2>5, <3>1, <3>2 DEF NoTick, l
      <4> QED BY <4>1 DEF DroppedTicks
    <3>4. stats.droppedBuffers = l - h + 1 - k
      BY <2>1, <2>5 DEF Skipped, l
    <3>5. stats'.droppedBuffers = stats.droppedBuffers + (p.tick - (l + 1))
      BY <1>3, <2>5, <3>3
    <3> HIDE DEF h, k
    <3>6. stats'.droppedBuffers = p.tick - h + 1 - (k + 1)
      BY <1>5, <3>1, <3>4, <3>5
    <3>7. result'.status = "ok" /\ result'.tick = p.tick
      BY <1>3, <2>5
    <3> QED BY <1>3, <2>1, <2>5, <3>6, <3>7 DEF Skipped, h, k
  <2> QED BY <2>3, <2>4, <2>5
<1> QED BY <1>7, <1>8, <1>9

\* A step that leaves the path, the sources and what is read alone.
LEMMA StreamStays ==
  ASSUME net' = net, UNCHANGED sndVars, StreamInOrder, Returned' = Returned, Mid' <=> Mid,
         ~Mid \/ ReadTo' = ReadTo
  PROVE  StreamInOrder'
<1>1. \A y : Takes(y)' <=> Takes(y)
  BY DEF Takes
<1>2. snd' = snd /\ sender' = sender
  BY DEF sndVars
<1>3. NetInOrder'
  <2>1. Len(net) > 0 => Takes(From(net[1]))'
    <3> SUFFICES ASSUME Len(net) > 0 PROVE Takes(From(net[1]))'
      OBVIOUS
    <3>1. PICK y : y = From(net[1])
      OBVIOUS
    <3>2. Takes(y)'
      BY <1>1, <3>1 DEF StreamInOrder, NetInOrder
    <3> QED BY <3>1, <3>2 DEF Takes, From
  <2> QED BY <2>1 DEF StreamInOrder, NetInOrder
<1>4. ASSUME NEW src \in Sources PROVE SourceInOrder(src)'
  <2>1. SourceInOrder(src)
    BY DEF StreamInOrder
  <2>2. PICK y : y = SentTo(src)
    OBVIOUS
  <2>3. SentTo(src)' = y
    BY <1>2, <2>2 DEF SentTo
  <2>4. Ahead(src) => Ahead(src)'
    <3>1. Takes(SentTo(src))' <=> Takes(y)'
      BY <2>3 DEF Takes
    <3>2. Takes(SentTo(src)) <=> Takes(y)
      BY <2>2
    <3>3. Takes(SentTo(src))' <=> Takes(SentTo(src))
      BY <1>1, <3>1, <3>2
    <3>4. To(net[Len(net)])' = To(net[Len(net)])
      BY DEF To
    <3>5. SentTo(src)' = SentTo(src)
      BY <2>2, <2>3
    <3> QED BY <3>3, <3>4, <3>5 DEF Ahead
  <2> QED BY <1>2, <2>1, <2>4 DEF SourceInOrder
<1> QED BY <1>3, <1>4 DEF StreamInOrder

LEMMA ReturningInOrder ==
  ASSUME InOrderPath, RecvTypes, delivered \in Seq(Events), IsFiniteSet(ToSet(delivered)),
         stats \in StatCounts, InOrderInv, Returning
  PROVE  InOrderInv'
<1>1. /\ result # Running /\ result' = Running
      /\ UNCHANGED <<net, reader, buf, bufLen, stats, broken, sndVars, copies>>
      /\ delivered' = IF result.status = "ok"
                      THEN Append(delivered, <<result.src, result.tick>>) ELSE delivered
      /\ rcv' = IF result.status = "part"
                THEN [rcv EXCEPT !.remainingLen = BufLen, !.rejectedPkt = 0]
                ELSE NewRead(IF KnowExpectedTick /\ result.status = "ok"
                             THEN result.tick + 1 ELSE NoTick, SocketNext)
  BY DEF Returning, CallAgain
<1>2. /\ delivered' \in Seq(Events) /\ ToSet(delivered') = Returned /\ Pending' = {}
      /\ Returned' = Returned
  BY ReturningMoves DEF Returned
<1>3. rcv \in Locals /\ result \in Results
  BY DEF RecvTypes
<1>4. result'.status = "running" /\ result.status \in {"ok", "part"}
  <2>1. result.status = "running" => result = Running
    BY <1>3 DEF Results, Running
  <2> QED BY <1>1, <2>1 DEF Running, InOrderInv, Clean
<1>5. /\ (Grows' <=> Grows) /\ (TakesStats' <=> TakesStats)
  BY <1>1 DEF Grows, TakesStats, OpensSocket, InStages
<1>6. Clean'
  BY <1>1, <1>4 DEF InOrderInv, Clean
<1>7. CASE result.status = "part"
  <2>1. /\ rcv'.veryFirstRead = rcv.veryFirstRead /\ rcv'.dumpTick = rcv.dumpTick
        /\ rcv'.prevTick = rcv.prevTick /\ rcv'.srcId = rcv.srcId
        /\ rcv'.totalBytesRead = rcv.totalBytesRead
        /\ rcv'.discardedBufs = rcv.discardedBufs
    BY <1>1, <1>3, <1>7 DEF Locals
  <2>2. (Mid' <=> Mid) /\ ReadTo' = ReadTo /\ InHand' = InHand
    BY <1>4, <1>7, <2>1 DEF Mid, ReadTo, InHand
  <2>3. StreamInOrder'
    BY <1>1, <1>2, <2>2, StreamStays DEF InOrderInv
  <2>4. CallInOrder'
    BY <1>1, <1>2, <1>5, <2>1, <2>2 DEF InOrderInv, CallInOrder, HandInOrder, RoomInOrder
  <2>5. Increasing'
    BY <1>1, <1>4, <1>7 DEF InOrderInv, Increasing
  <2>6. ~TakesStats \/ ~KnowExpectedTick
    BY <1>7 DEF InOrderInv, Estimated
  <2>7. Estimated'
    BY <1>5, <2>6 DEF Estimated
  <2> QED BY <1>1, <1>6, <2>3, <2>4, <2>5, <2>7 DEF InOrderInv
<1>8. CASE result.status = "ok"
  <2> DEFINE e == <<result.src, result.tick>>
             n == Len(delivered)
  <2>1. delivered' = Append(delivered, e) /\ e \in Events
    <3>1. result.src \in Sources /\ result.tick \in Ticks
      BY <1>3, <1>8 DEF Results
    <3> QED BY <1>1, <1>8, <3>1 DEF Events
  <2> DEFINE x == IF KnowExpectedTick THEN result.tick + 1 ELSE NoTick
             y == SocketNext
  <2>2. rcv' = NewRead(x, y)
    BY <1>1, <1>8
  <2> HIDE DEF x, y
  <2>3. /\ rcv'.veryFirstRead /\ ~rcv'.dumpTick /\ rcv'.discardedBufs = 0
        /\ rcv'.expectedTick = x
    BY <2>2 DEF NewRead
  <2>4. ~Mid' /\ ~Mid
    BY <1>8, <2>3 DEF Mid
  <2>5. StreamInOrder'
    BY <1>1, <1>2, <2>4, StreamStays DEF InOrderInv
  <2>6. CallInOrder'
    BY <1>1, <1>5, <2>3, <2>4 DEF InOrderInv, CallInOrder, HandInOrder, RoomInOrder
  <2>7. e[2] = result.tick /\ result.tick \in Nat
    BY <1>3, <1>8, ChannelAssumption DEF Results
  <2> HIDE DEF e, n
  <2>8. /\ Len(delivered') = n + 1 /\ n \in Nat
        /\ DOMAIN delivered = 1 .. n /\ DOMAIN delivered' = 1 .. n + 1
        /\ \A i \in 1 .. n : delivered'[i] = delivered[i]
        /\ delivered'[n + 1] = e
    BY <2>1 DEF n
  <2>9. Increasing'
    <3> SUFFICES ASSUME NEW i \in 1 .. n + 1, i > 1
                 PROVE  delivered'[i - 1][2] < delivered'[i][2]
      BY <1>4, <2>8 DEF Increasing
    <3>1. CASE i = n + 1
      <4>1. i - 1 \in 1 .. n /\ i - 1 = n
        BY <2>8, <3>1
      <4>2. delivered'[i - 1] \in ToSet(delivered)
        BY <2>8, <4>1 DEF ToSet
      <4>3. delivered'[i - 1][2] < result.tick
        BY <1>8, <4>2 DEF InOrderInv, Increasing
      <4> QED BY <2>7, <2>8, <3>1, <4>3
    <3>2. CASE i # n + 1
      <4>1. i \in 1 .. n /\ i - 1 \in 1 .. n
        BY <2>8, <3>2
      <4>2. delivered[i - 1][2] < delivered[i][2]
        BY <2>8, <4>1 DEF InOrderInv, Increasing
      <4> QED BY <2>8, <4>1, <4>2
    <3> QED BY <3>1, <3>2
  <2>10. Estimated'
    <3> SUFFICES ASSUME TakesStats, KnowExpectedTick
                 PROVE  /\ rcv'.expectedTick = Last(delivered')[2] + 1
                        /\ stats'.droppedBuffers = Last(delivered')[2] - Head(delivered')[2]
                                                   + 1 - Len(delivered')
                        /\ delivered' # <<>>
      BY <1>4, <1>5 DEF Estimated, Skipped
    <3>1. Last(delivered') = e /\ delivered' # <<>>
      BY <2>8 DEF Last
    <3>2. x = result.tick + 1
      BY DEF x
    <3>3. stats'.droppedBuffers = IF delivered = <<>> THEN 0
                                  ELSE Skipped(result.tick, n + 1)
      BY <1>1, <1>8 DEF InOrderInv, Estimated, n
    <3>4. CASE delivered = <<>>
      <4>1. n = 0 /\ Head(delivered') = e
        BY <2>1, <3>4 DEF n
      <4> QED BY <2>3, <2>7, <2>8, <3>1, <3>2, <3>3, <3>4, <4>1
    <3>5. CASE delivered # <<>>
      <4>1. Head(delivered') = Head(delivered)
        <5>1. 1 \in 1 .. n
          BY <2>8, <3>5 DEF n
        <5>2. delivered'[1] = delivered[1]
          BY <2>8, <5>1
        <5> QED BY <1>2, <3>1, <3>5, <5>2, HeadTailProperties
      <4> QED BY <2>3, <2>7, <2>8, <3>1, <3>2, <3>3, <3>5, <4>1 DEF Skipped
    <3> QED BY <3>4, <3>5
  <2> QED BY <1>1, <1>6, <2>5, <2>6, <2>9, <2>10 DEF InOrderInv
<1> QED BY <1>4, <1>7, <1>8

LEMMA OpeningInOrder ==
  ASSUME InOrderPath, RecvTypes, InOrderInv, Opening
  PROVE  InOrderInv'
<1>1. UNCHANGED <<net, reader, buf, bufLen, stats, broken, sndVars, copies, delivered, result>>
  BY DEF Opening, OpenSocket, InOrderPath
<1> DEFINE y == IF rcv.socket = "none" THEN "bound" ELSE "deaf"
<1>2. rcv' = [rcv EXCEPT !.socket = y] /\ rcv \in Locals
  BY DEF Opening, OpenSocket, InOrderPath, RecvTypes
<1> HIDE DEF y
<1>3. /\ rcv'.veryFirstRead = rcv.veryFirstRead /\ rcv'.dumpTick = rcv.dumpTick
      /\ rcv'.prevTick = rcv.prevTick /\ rcv'.srcId = rcv.srcId
      /\ rcv'.totalBytesRead = rcv.totalBytesRead
      /\ rcv'.discardedBufs = rcv.discardedBufs /\ rcv'.expectedTick = rcv.expectedTick
  BY <1>2 DEF Locals
<1>4. (Mid' <=> Mid) /\ ReadTo' = ReadTo /\ InHand' = InHand /\ Returned' = Returned
  BY <1>1, <1>3 DEF Mid, ReadTo, InHand, Returned, Pending
<1>5. StreamInOrder'
  BY <1>1, <1>4, StreamStays DEF InOrderInv
<1>6. CallInOrder'
  BY <1>1, <1>3, <1>4 DEF InOrderInv, CallInOrder, HandInOrder, RoomInOrder, Grows
<1>7. Increasing' /\ Clean'
  BY <1>1 DEF InOrderInv, Increasing, Clean
<1>8. Estimated'
  BY <1>1, <1>3 DEF InOrderInv, Estimated, Skipped, TakesStats, OpensSocket, InStages
<1> QED BY <1>1, <1>5, <1>6, <1>7, <1>8 DEF InOrderInv

LEMMA InOrderStep ==
  ASSUME InOrderPath, SendInv, NetFromSent, CallInv, ReturnInv, InOrderInv, [Next]_vars
  PROVE  InOrderInv'
<1>0. /\ delivered \in Seq(Events) /\ IsFiniteSet(ToSet(delivered)) /\ stats \in StatCounts
      /\ RecvTypes /\ StreamInOrder /\ CallInOrder /\ reader \in Readers /\ HandInOrder
      /\ copies = 0
  BY DEF ReturnInv, ReturnTypes, CallInv, InOrderInv, CallInOrder
<1>1. ASSUME NEW src \in Sources, Sending(src) PROVE InOrderInv'
  <2>1. StreamInOrder'
    BY <1>0, <1>1, SendingInOrder
  <2>2. UNCHANGED <<rcvVars, copies, delivered>>
    BY <1>1 DEF Sending
  <2> QED BY <2>1, <2>2 DEF rcvVars, InOrderInv, CallInOrder, HandInOrder, RoomInOrder,
             Increasing, Clean, Estimated, Skipped, Mid, InHand, Returned, Pending, Grows,
             TakesStats, OpensSocket, InStages
<1>2. ASSUME NEW i \in 1 .. Len(net), Receiving(i) PROVE InOrderInv'
  <2>1. StreamInOrder' /\ CallInOrder' /\ Increasing' /\ Clean' /\ Estimated'
    BY <1>0, <1>2, TakenStreamInOrder, TakenCallInOrder, TakenCounts
  <2>2. UNCHANGED <<copies, reader>>
    BY <1>0, <1>2, TakesInTurn
  <2> QED BY <2>1, <2>2 DEF InOrderInv
<1>3. ASSUME NEW i \in 1 .. Len(net), Lose(i) \/ Duplicate(i) PROVE FALSE
  BY <1>0, <1>3 DEF Lose, Duplicate, InOrderPath
<1>4. CASE Returning
  BY <1>0, <1>4, ReturningInOrder
<1>5. CASE Failing
  BY <1>5 DEF Failing, ReceiveFails, InOrderPath
<1>6. CASE Opening
  BY <1>0, <1>6, OpeningInOrder
<1>7. CASE Finished \/ UNCHANGED vars
  <2>1. UNCHANGED vars
    BY <1>7 DEF Finished
  <2>2. Mid' = Mid /\ ReadTo' = ReadTo /\ Returned' = Returned
    BY <2>1 DEF vars, rcvVars, Mid, ReadTo, Returned, Pending
  <2>3. StreamInOrder'
    BY <1>0, <2>1, <2>2, StreamStays DEF vars
  <2> QED BY <2>1, <2>2, <2>3 DEF vars, rcvVars, InOrderInv, CallInOrder, HandInOrder,
             RoomInOrder, Increasing, Clean, Estimated, Skipped, InHand, Grows,
             TakesStats, OpensSocket, InStages
<1> QED BY <1>1, <1>2, <1>3, <1>4, <1>5, <1>6, <1>7, Zenon DEF Next

LEMMA InOrderInit == InOrderPath /\ Init => InOrderInv
<1> SUFFICES ASSUME InOrderPath, Init PROVE InOrderInv
  OBVIOUS
<1>1. /\ copies = 0 /\ reader \in Readers /\ delivered = <<>> /\ net = <<>>
      /\ result = Running /\ broken = "no"
      /\ stats.discardedBuffers = 0 /\ stats.droppedBuffers = 0
      /\ bufLen = IF Grows THEN JumboBytes ELSE BufLen
  BY DEF Init, SendInit, ReceiveInit
<1>2. PICK y : rcv = NewRead(NoTick, y)
  BY DEF Init, ReceiveInit
<1>3. /\ rcv.veryFirstRead /\ ~rcv.dumpTick /\ rcv.discardedBufs = 0
      /\ rcv.expectedTick = NoTick
  BY <1>2 DEF NewRead
<1>4. result.status = "running" /\ ~Mid /\ Returned = {}
  BY <1>1, <1>3 DEF Running, Mid, Returned, Pending, ToSet
<1>5. Len(net) = 0
  BY <1>1
<1>6. NetInOrder
  BY <1>5 DEF NetInOrder
<1>7. ASSUME NEW src \in Sources PROVE SourceInOrder(src)
  <2> SUFFICES ASSUME snd[src].tick \in Ticks PROVE Takes(SentTo(src))
    BY <1>1, <1>5 DEF SourceInOrder, Ahead
  <2>1. snd[src].localOffset = 0
    BY DEF Init, SendInit, NewCall
  <2> QED BY <1>4, <2>1 DEF Takes, SentTo
<1>8. CallInOrder
  <2>1. JumboBytes \in Nat /\ BufLen \in Nat
    BY AssembleAssumption
  <2> QED BY <1>1, <1>3, <1>4, <2>1 DEF CallInOrder, HandInOrder, RoomInOrder
<1>9. Increasing /\ Clean /\ Estimated
  BY <1>1, <1>3, <1>4 DEF Increasing, Clean, Estimated
<1> QED BY <1>1, <1>6, <1>7, <1>8, <1>9 DEF InOrderInv, StreamInOrder

LEMMA InOrderInvHolds == ASSUME InOrderPath PROVE Spec => []InOrderInv
<1>1. Init => InOrderInv
  BY InOrderInit
<1>2. SendInv /\ NetFromSent /\ CallInv /\ ReturnInv /\ InOrderInv /\ [Next]_vars
         => InOrderInv'
  BY InOrderStep
<1> QED BY <1>1, <1>2, Received, Counted, PTL DEF Spec

\* Over a path that neither loses nor reorders, the events of a single source are
\* returned in the order of their ticks, no call returns an error, none is counted as
\* discarded, and doubling the buffer once (ejfat_assemble_ersap.hpp:1327-1331) always
\* makes it large enough: whatever the reader and the lengths, as long as a buffer
\* of a fixed size holds the event and one that grows begins with a packet's room.
THEOREM InOrderComplete == ASSUME InOrderPath PROVE Spec => []InOrderIsComplete
<1>1. InOrderInv => InOrderIsComplete
  BY DEF InOrderInv, Increasing, Clean, InOrderIsComplete
<1> QED BY <1>1, InOrderInvHolds, PTL

\* On such a path the estimate of dropped buffers (ejfat_assemble_ersap.hpp:988-994)
\* of a caller that says which tick it expects is exactly the number of ticks
\* between the first event returned and the last that were not returned.
THEOREM EstimateExact ==
  ASSUME InOrderPath, KnowExpectedTick PROVE Spec => []DroppedEstimateExact
<1>1. InOrderInv => DroppedEstimateExact
  BY DEF InOrderInv, Estimated, Skipped, Running, DroppedEstimateExact
<1> QED BY <1>1, InOrderInvHolds, PTL
=============================================================================
