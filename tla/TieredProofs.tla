---------------------------- MODULE TieredProofs ----------------------------
(***************************************************************************)
(* Theorems about TieredAssembly for every set of events, size of the ring *)
(* and of the maps, and whatever the network does to the packets.          *)
(***************************************************************************)
EXTENDS TieredAssembly, FiniteSetTheorems, SequenceTheorems, TLAPS

-----------------------------------------------------------------------------
(* Numbers and sets.                                                       *)

\* A set of naturals that is not empty has a least element.
LEMMA LeastExists ==
  ASSUME NEW T \in SUBSET Nat, T # {}
  PROVE  \E m \in T : \A n \in T : m <= n
<1> DEFINE Below == {0 .. n : n \in T}
           R == StrictSubsetOrdering(Nat)
<1>1. Below \subseteq FiniteSubsetsOf(Nat)
  <2> SUFFICES ASSUME NEW n \in T PROVE 0 .. n \in FiniteSubsetsOf(Nat)
    OBVIOUS
  <2>1. IsFiniteSet(0 .. n)
    BY FS_Interval
  <2>2. 0 .. n \in SUBSET Nat
    OBVIOUS
  <2> QED BY <2>1, <2>2 DEF FiniteSubsetsOf
<1>2. IsWellFoundedOn(R, FiniteSubsetsOf(Nat))
  BY FS_StrictSubsetOrderingWellFounded
<1>3. Below # {}
  OBVIOUS
<1>4. \E x \in Below : \A y \in Below : ~(<<y, x>> \in R)
  <2> HIDE DEF Below, R
  <2> QED BY <1>1, <1>2, <1>3, WFMin
<1>5. PICK m \in T : \A y \in Below : ~(<<y, 0 .. m>> \in R)
  BY <1>4
<1>6. ASSUME NEW n \in T PROVE m <= n
  <2> SUFFICES ASSUME n < m PROVE FALSE
    OBVIOUS
  <2>1. m \in Nat /\ n \in Nat
    OBVIOUS
  <2>2. 0 .. n \subseteq 0 .. m /\ m \in 0 .. m /\ m \notin 0 .. n
    BY <2>1
  <2>3. 0 .. n \in SUBSET Nat /\ 0 .. m \in SUBSET Nat
    OBVIOUS
  <2>4. <<0 .. n, 0 .. m>> \in R
    BY <2>2, <2>3, Zenon DEF StrictSubsetOrdering
  <2> QED BY <1>5, <2>4
<1> QED BY <1>6

\* The oldest of a map of ticks.
LEMMA MinIsLeast ==
  ASSUME NEW T \in SUBSET Nat, T # {}
  PROVE  Min(T) \in T /\ \A n \in T : Min(T) <= n
BY LeastExists, Zenon DEF Min

\* What a number is made of when it is divided.
LEMMA DivMod ==
  ASSUME NEW R \in Nat \ {0}, NEW a \in Nat
  PROVE  /\ a = R * (a \div R) + (a % R)
         /\ a \div R \in Int
         /\ a % R \in Int
BY SMT

\* A positive multiple of R is not below R.
LEMMA MultipleBound ==
  ASSUME NEW R \in Nat \ {0}, NEW p \in Int, NEW q \in Int,
         R * q - R * p < R, R * q - R * p > 0
  PROVE  FALSE
<1>1. R * q - R * p = R * (q - p)
  BY SMT
<1>2. CASE q - p >= 1
  <2>1. R * (q - p) >= R
    BY <1>2, SMT
  <2> QED BY <2>1, <1>1, SMT
<1>3. CASE q - p <= 0
  <2>1. R * (p - q) >= 0
    BY <1>3, SMT
  <2>2. R * (q - p) = 0 - R * (p - q)
    BY SMT
  <2> QED BY <2>1, <2>2, <1>1, SMT
<1> QED BY <1>2, <1>3

\* Two sequences less than a ring apart lie in different slots.
LEMMA SlotsDiffer ==
  ASSUME NEW a \in Nat, NEW b \in Nat, a < b, b - a < RingSize
  PROVE  S!Slot(a) # S!Slot(b)
<1> DEFINE p == a \div RingSize
           q == b \div RingSize
<1>0. RingSize \in Nat \ {0}
  BY TieredAssumption
<1> SUFFICES ASSUME a % RingSize = b % RingSize PROVE FALSE
  BY DEF S!Slot
<1>1. /\ a = RingSize * p + (a % RingSize)
      /\ b = RingSize * q + (b % RingSize)
      /\ p \in Int /\ q \in Int
      /\ a % RingSize \in Int
  BY <1>0, DivMod
<1> HIDE DEF p, q
<1>2. RingSize * p \in Int /\ RingSize * q \in Int
  BY <1>0, <1>1
<1>3. b - a = RingSize * q - RingSize * p
  BY <1>1, <1>2
<1>4. RingSize * q - RingSize * p < RingSize /\ RingSize * q - RingSize * p > 0
  BY <1>0, <1>3
<1> QED BY <1>0, <1>1, <1>4, MultipleBound

LEMMA SlotType ==
  ASSUME NEW s \in Nat
  PROVE  S!Slot(s) \in S!Slots
BY TieredAssumption, SMT DEF S!Slot, S!Slots

Middle(T, lo, hi) == {s \in T : lo < s /\ s < hi}

\* A set of released sequences as large as the gap it lies in fills the gap.
LEMMA FullMiddle ==
  ASSUME NEW T \in SUBSET Nat, NEW lo \in Int, NEW hi \in Int, lo < hi,
         Cardinality(Middle(T, lo, hi)) = hi - lo - 1
  PROVE  \A s \in Nat : lo < s /\ s < hi => s \in T
<1> DEFINE gap == lo + 1 .. hi - 1
<1>0. lo + 1 \in Int /\ hi - 1 \in Int
  OBVIOUS
<1>1. IsFiniteSet(gap) /\ Cardinality(gap) = hi - lo - 1
  <2>1. /\ IsFiniteSet(gap)
        /\ Cardinality(gap) = IF lo + 1 > hi - 1 THEN 0 ELSE (hi - 1) - (lo + 1) + 1
    BY <1>0, FS_Interval, Zenon
  <2> QED BY <2>1
<1>2. Middle(T, lo, hi) \in SUBSET gap
  <2> SUFFICES ASSUME NEW s \in Middle(T, lo, hi) PROVE s \in gap
    BY Zenon
  <2>1. s \in Nat /\ lo < s /\ s < hi
    BY DEF Middle
  <2> QED BY <2>1
<1> HIDE DEF gap
<1>3. Middle(T, lo, hi) = gap
  BY <1>1, <1>2, FS_Subset
<1> QED BY <1>3 DEF Middle, gap

-----------------------------------------------------------------------------
(* The inductive invariant.                                                *)

\* None of the things has happened that break the bookkeeping of buffers.
Clean == upset \cap {"duplicate", "alias", "outOfOrder", "copyReturned"} = {}

Packets == {p \in [tick : Ticks, offset : Offsets] : p.offset \in OffsetsOf(p.tick)}
Bodies  == [eventNum : Ticks \cup {NoTick}, offsets : SUBSET Offsets,
            isValidData : BOOLEAN, memory : [Offsets -> Ticks \cup {NoTick}]]
Copies  == [body : Bodies, producerSequence : Int]
Waiting == [slot : S!Slots, time : Nat]

\* Types of what the maps and packets are about.
MapTypes ==
    /\ fast \in [DOMAIN fast -> Waiting] /\ DOMAIN fast \subseteq Ticks
    /\ DOMAIN slow \subseteq Ticks
    /\ {prevTick, largestTick, largestSlowTick} \subseteq Ticks \cup {NoTickYet}
    /\ net \subseteq Packets
    /\ pc \notin {"recv", "exit"} => pkt \in Packets
    /\ microSec \in Nat
    /\ stats \in [built : Nat, discarded : Nat, opened : Nat]
    /\ dumpBufs \in BOOLEAN
    /\ claimed \in -1 .. MaxSeq

\* Until the source restarts, the tick that gets a buffer is the highest of all.
TierInv ==
    "restart" \notin upset =>
        /\ pc # "restart"
        /\ largestSlowTick <= largestTick
        /\ pc = "get" => pkt.tick > largestTick

\* Types of the supply's variables.
RingTypes ==
    /\ items \in [S!Slots -> S!SupplyItem]
    /\ {claimed, cursor, sequence, maxSequence, availableConsumerSequence} \subseteq -1 .. MaxSeq
    /\ between \in Nat
    /\ nextConsumerSequence \in 0 .. MaxSeq + 1
    /\ users \in [S!Seqs -> Nat]
    /\ done \subseteq S!Seqs

\* A buffer being filled says of itself whose turn it is.  The thread has them
\* all until it gives them back, to the supply or in the order of their claims
\* to the reader.
FillingInv ==
    /\ \A s \in filling : /\ s \in 0 .. claimed /\ s \notin done
                          /\ items[S!Slot(s)].producerSequence = s
    /\ IF dumpBufs
       THEN 0 .. claimed \ done \subseteq filling
       ELSE /\ cursor <= claimed
            /\ filling = {s \in S!Seqs : cursor < s /\ s <= claimed}
            /\ availableConsumerSequence <= cursor
            /\ nextConsumerSequence <= cursor + 1
            /\ \A s \in done : s < nextConsumerSequence
            /\ \A s \in S!Seqs : users[s] > 0 => s < nextConsumerSequence /\ s \notin done

RingInv == RingTypes /\ S!GateInv /\ S!ReleasedInv /\ S!BetweenCounts /\ FillingInv

\* The buffers being filled are those of the fast map, each of one event, and the
\* one into which a copy was read back.
OneEach ==
    /\ \A t \in DOMAIN fast : \E s \in filling :
          fast[t].slot = S!Slot(s) /\ (pc = "passOn" => s # claimed)
    /\ \A t, u \in DOMAIN fast : fast[t].slot = fast[u].slot => t = u
    /\ \A s \in filling : \/ \E t \in DOMAIN fast : fast[t].slot = S!Slot(s)
                          \/ pc = "passOn" /\ s = claimed
    /\ pc = "passOn" => claimed \in filling

\* A new event has the highest tick of both maps.
Highest ==
    /\ \A t \in DOMAIN fast \cup DOMAIN slow : t <= largestTick
    /\ pc = "get" => \A t \in DOMAIN fast \cup DOMAIN slow : t < pkt.tick
    /\ pc = "limit" /\ AboveLimit =>
          /\ ~bufItem.copy
          /\ \A t \in DOMAIN fast : t <= pkt.tick
    /\ pc # "limit" => ~AboveLimit
    /\ Cardinality(DOMAIN fast) <= FastMapMax + 1

\* Begun less than FAST_STORE_MICROSEC ago.
Recent(t) == ~TooLong(fast[t].time)

\* Events begin in the order of their ticks, and between packets all are recent.
Begun ==
    /\ \A t \in DOMAIN fast : fast[t].time <= microSec
    /\ \A t, u \in DOMAIN fast : t < u => fast[t].time <= fast[u].time
    /\ \/ pc \in {"recv", "restart", "get"}
       \/ pc \in {"limit", "store", "resurrect"} /\ fromSlowMap
       => \A t \in DOMAIN fast : Recent(t)
    /\ pc \in {"limit", "store", "finish"} /\ ~bufItem.copy => Recent(pkt.tick)
    /\ pc = "expire" /\ ~bufItem.copy /\ prevTick \in DOMAIN fast => Recent(prevTick)

\* bufItem is the buffer of tick.
Belongs(tick) == \/ tick \in Ticks /\ bufItem = InCopy(tick)
                 \/ tick \in DOMAIN fast /\ bufItem = InRing(fast[tick].slot)

\* bufItem is the buffer of the packet, and between packets that of the event
\* before, unless none of that event's packets are left.
Linked ==
    /\ pc \in {"limit", "store", "finish", "resurrect", "passOn"} => Belongs(pkt.tick)
    /\ pc \in {"recv", "expire"} =>
          /\ bufItem = prevBufItem
          /\ Belongs(prevTick) \/ \A p \in net : p.tick # prevTick
    /\ pc \in {"finish", "resurrect", "passOn"} => bufItem = prevBufItem /\ prevTick = pkt.tick
    /\ pc \in {"restart", "get"} => ~fromSlowMap
    /\ pc \in {"resurrect", "passOn"} => fromSlowMap
    /\ pc \in {"limit", "store", "resurrect", "passOn"} /\ fromSlowMap =>
          pkt.tick \in DOMAIN slow /\ bufItem = InCopy(pkt.tick)

\* What the packets of tick that came have written, and no other; those in left
\* are to come.
BuildingWith(item, tick, left) ==
    /\ item.eventNum = tick
    /\ item.offsets \subseteq OffsetsOf(tick)
    /\ \A o \in item.offsets : item.memory[o] = tick
    /\ \A p \in left : p.tick = tick => p.offset \notin item.offsets

Building(item, tick) == BuildingWith(item, tick, net)

\* A copy that a packet may still be written to.
LiveCopy(t) == \/ t \in DOMAIN slow /\ slow[t].ref = InCopy(t)
               \/ bufItem = InCopy(t)

Contents ==
    /\ body \in [S!Slots -> Bodies]
    /\ copies \in [Ticks -> Copies]
    /\ \A t \in DOMAIN slow : slow[t].ref.copy => slow[t].ref = InCopy(t)
    /\ \A t \in DOMAIN fast : Building(body[fast[t].slot], t)
    /\ \A t \in Ticks : LiveCopy(t) => Building(copies[t].body, t)

\* The packet at hand is new, and an event is finished by its last packet.
Arrived ==
    /\ pc \in {"restart", "get", "limit", "store"} => pkt \notin net
    /\ pc \in {"limit", "store"} => pkt.offset \notin Item(bufItem).offsets
    /\ pc \in {"finish", "resurrect"} => Item(bufItem).offsets = OffsetsOf(pkt.tick)
    /\ \A t \in DOMAIN fast : body[fast[t].slot].offsets = OffsetsOf(t) =>
                                  pc = "finish" /\ t = pkt.tick

Sound == RingInv /\ OneEach /\ Highest /\ Begun /\ Linked /\ Contents /\ Arrived

Buffers == Clean => Sound

\* An event that is complete is counted before it leaves its map.
Counted ==
    upset = {} =>
        stats.opened + (IF pc \in {"finish", "resurrect", "passOn"} THEN 1 ELSE 0)
            = stats.built + stats.discarded
              + Cardinality(DOMAIN fast) + Cardinality(DOMAIN slow)

NotOutOfOrder == dumpBufs => "outOfOrder" \notin upset

-----------------------------------------------------------------------------
(* The ring.                                                               *)

\* Sizes are counted as in module Supplier.
LEMMA SameCardinality ==
  ASSUME NEW T
  PROVE  S!Cardinality(T) = Cardinality(T)
BY Zenon DEF S!Cardinality, Cardinality

LEMMA CountsMiddle ==
  S!BetweenCounts <=> between = Cardinality(Middle(done, sequence, maxSequence))
BY SameCardinality, Zenon DEF S!BetweenCounts, Middle

\* What is not released lies before the gate.
LEMMA AheadOfGate ==
  ASSUME RingTypes, S!ReleasedInv, NEW s \in S!Seqs, s \notin done
  PROVE  s > sequence
BY TieredAssumption DEF RingTypes, S!ReleasedInv, S!Seqs

\* What the counting of release() computes: the number of released sequences in
\* the middle.
LEMMA CountingStep ==
  ASSUME RingTypes, S!GateInv, S!ReleasedInv, S!BetweenCounts,
         NEW seq \in S!Seqs, seq \notin done
  PROVE  LET newMax == IF seq > maxSequence THEN seq ELSE maxSequence
             count  == IF S!Counted(seq) THEN between + 1 ELSE between
         IN  count = Cardinality(Middle(done \cup {seq}, sequence, newMax))
<1> DEFINE newMax == IF seq > maxSequence THEN seq ELSE maxSequence
           count  == IF S!Counted(seq) THEN between + 1 ELSE between
           old    == Middle(done, sequence, maxSequence)
           new    == Middle(done \cup {seq}, sequence, newMax)
<1> USE TieredAssumption DEF S!Seqs
<1>1. /\ seq \in Int /\ sequence \in Int /\ maxSequence \in Int
      /\ done \subseteq Int
      /\ seq > sequence
      /\ lastSequenceReleased = sequence /\ sequence <= maxSequence
      /\ \A s \in done : s <= maxSequence
      /\ maxSequence >= 0 => maxSequence \in done
      /\ -1 <= sequence
  BY AheadOfGate DEF RingTypes, S!GateInv, S!ReleasedInv
<1>2. between = Cardinality(old) /\ between \in Nat
  BY CountsMiddle DEF RingTypes
<1>3. IsFiniteSet(old)
  <2>1. old \in SUBSET (0 .. MaxSeq)
    BY DEF Middle, RingTypes
  <2>2. 0 \in Int /\ MaxSeq \in Int
    OBVIOUS
  <2>3. IsFiniteSet(0 .. MaxSeq)
    BY <2>2, FS_Interval, Zenon
  <2> HIDE DEF old
  <2> QED BY <2>1, <2>3, FS_Subset, Zenon
<1>4. CASE seq > maxSequence /\ maxSequence > lastSequenceReleased
  <2>1. newMax = seq /\ count = between + 1
    BY <1>4 DEF S!Counted
  <2>2. new = old \cup {maxSequence}
    <3>1. maxSequence >= 0 /\ maxSequence \in done /\ sequence < maxSequence
      BY <1>1, <1>4
    <3>2. ASSUME NEW x \in done \cup {seq}
          PROVE  sequence < x /\ x < seq <=>
                   (x \in done /\ sequence < x /\ x < maxSequence) \/ x = maxSequence
      BY <1>1, <1>4, <3>1
    <3> QED BY <2>1, <3>1, <3>2 DEF Middle
  <2>3. maxSequence \notin old
    BY <1>1 DEF Middle
  <2>4. Cardinality(old \cup {maxSequence}) = Cardinality(old) + 1
    <3> HIDE DEF old
    <3> QED BY <1>3, <2>3, FS_AddElement
  <2> HIDE DEF old, new, newMax, count
  <2>5. count = Cardinality(new)
    BY <1>2, <2>1, <2>2, <2>4
  <2> QED BY <2>5 DEF count, new, newMax
<1>5. CASE seq > maxSequence /\ ~(maxSequence > lastSequenceReleased)
  <2>1. newMax = seq /\ count = between
    BY <1>1, <1>5 DEF S!Counted
  <2>2. new = old
    <3>1. ASSUME NEW x \in done \cup {seq}
          PROVE  \/ /\ ~(sequence < x /\ x < seq)
                    /\ ~(sequence < x /\ x < maxSequence)
                 \/ x = seq
      BY <1>1, <1>5
    <3>2. ~(seq < seq) /\ ~(seq < maxSequence)
      BY <1>1, <1>5
    <3> QED BY <2>1, <3>1, <3>2 DEF Middle
  <2> QED BY <1>2, <2>1, <2>2
<1>6. CASE ~(seq > maxSequence)
  <2>1. newMax = maxSequence /\ count = between + 1
    BY <1>1, <1>6 DEF S!Counted
  <2>2. seq # maxSequence
    BY <1>1, <1>6
  <2>3. new = old \cup {seq} /\ seq \notin old
    BY <1>1, <1>6, <2>1, <2>2 DEF Middle
  <2>4. Cardinality(old \cup {seq}) = Cardinality(old) + 1
    <3> HIDE DEF old
    <3> QED BY <1>3, <2>3, FS_AddElement
  <2> HIDE DEF old, new, newMax, count
  <2>5. count = Cardinality(new)
    BY <1>2, <2>1, <2>3, <2>4
  <2> QED BY <2>5 DEF count, new, newMax
<1> QED BY <1>4, <1>5, <1>6

\* A release under supplyMutex keeps the gate and the count right.
LEMMA ReleaseKeepsGate ==
  ASSUME RingTypes, S!GateInv, S!ReleasedInv, S!BetweenCounts,
         NEW seq \in S!Seqs, seq \notin done, seq <= claimed,
         S!ReleaseInAnyOrder(seq), done' = done \cup {seq}, claimed' = claimed
  PROVE  /\ S!GateInv' /\ S!ReleasedInv' /\ S!BetweenCounts'
         /\ sequence' \in -1 .. MaxSeq /\ maxSequence' \in -1 .. MaxSeq /\ between' \in Nat
<1> USE TieredAssumption
<1> DEFINE newMax == IF seq > maxSequence THEN seq ELSE maxSequence
           count  == IF S!Counted(seq) THEN between + 1 ELSE between
           moves  == S!GateMoves(newMax, count)
<1>1. /\ done' = done \cup {seq}
      /\ maxSequence' = newMax
      /\ sequence' = IF moves THEN newMax ELSE sequence
      /\ lastSequenceReleased' = IF moves THEN newMax ELSE lastSequenceReleased
      /\ between' = IF moves THEN 0 ELSE count
      /\ claimed' = claimed
  BY DEF S!ReleaseInAnyOrder
<1>3. /\ seq \in Nat /\ sequence \in Int /\ maxSequence \in Int /\ claimed \in Int
      /\ done \subseteq S!Seqs /\ sequence >= -1 /\ claimed <= MaxSeq
      /\ between \in Nat
  BY DEF RingTypes, S!Seqs
<1>4. /\ lastSequenceReleased = sequence /\ sequence <= maxSequence
      /\ maxSequence <= claimed /\ claimed - RingSize <= sequence
      /\ seq > sequence
  BY AheadOfGate DEF S!GateInv
<1>5. /\ newMax \in Int /\ newMax > sequence /\ newMax <= claimed /\ newMax >= 0
      /\ newMax >= maxSequence /\ newMax >= seq
  BY <1>3, <1>4
<1>6. newMax \in done \cup {seq}
  BY <1>3, <1>4 DEF S!ReleasedInv
<1>7. count = Cardinality(Middle(done \cup {seq}, sequence, newMax)) /\ count \in Nat
  BY <1>3, CountingStep
<1> HIDE DEF newMax, count
<1>8. moves => \A s \in Nat : sequence < s /\ s < newMax => s \in done \cup {seq}
  <2> SUFFICES ASSUME moves
               PROVE  \A s \in Nat : sequence < s /\ s < newMax => s \in done \cup {seq}
    OBVIOUS
  <2>1. count = newMax - sequence - 1
    BY <1>3, <1>4, <1>5, <1>7 DEF S!GateMoves
  <2>2. done \cup {seq} \in SUBSET Nat
    BY <1>3 DEF S!Seqs
  <2> QED BY <1>3, <1>5, <1>7, <2>1, <2>2, FullMiddle
<1>9. S!GateInv'
  <2>1. CASE moves
    BY <1>1, <1>3, <1>4, <1>5, <2>1 DEF S!GateInv
  <2>2. CASE ~moves
    BY <1>1, <1>3, <1>4, <1>5, <1>7, <2>2 DEF S!GateInv, S!GateMoves
  <2> QED BY <2>1, <2>2
<1>10. S!ReleasedInv'
  <2>1. ASSUME NEW s \in S!Seqs, s <= sequence' PROVE s \in done'
    <3>1. s \in Nat /\ (s <= sequence => s \in done)
      BY DEF S!ReleasedInv, S!Seqs
    <3>2. CASE moves
      <4>1. s <= newMax
        BY <1>1, <2>1, <3>2
      <4>2. s <= sequence \/ (sequence < s /\ s < newMax) \/ s = newMax
        BY <1>3, <1>5, <3>1, <4>1
      <4> QED BY <1>1, <1>6, <1>8, <3>1, <3>2, <4>2
    <3>3. CASE ~moves
      BY <1>1, <2>1, <3>1, <3>3
    <3> QED BY <3>2, <3>3
  <2>2. ASSUME NEW s \in done' PROVE s <= maxSequence'
    <3>1. s \in done => s <= maxSequence /\ s \in Int
      BY <1>3 DEF S!ReleasedInv, S!Seqs
    <3> QED BY <1>1, <1>3, <1>5, <3>1
  <2> QED BY <1>1, <1>6, <2>1, <2>2 DEF S!ReleasedInv
<1>11. S!BetweenCounts'
  <2>1. between' = Cardinality(Middle(done', sequence', maxSequence'))
    <3>1. CASE moves
      <4>1. Middle(done', newMax, newMax) = {}
        <5>1. ASSUME NEW s \in done' PROVE ~(newMax < s /\ s < newMax)
          <6>1. s \in Int
            BY <1>1, <1>3 DEF S!Seqs
          <6> QED BY <6>1, <1>5
        <5> QED BY <5>1 DEF Middle
      <4> QED BY <1>1, <3>1, <4>1, FS_EmptySet
    <3>2. CASE ~moves
      BY <1>1, <1>7, <3>2
    <3> QED BY <3>1, <3>2
  <2>2. S!BetweenCounts' <=> between' = Cardinality(Middle(done', sequence', maxSequence'))
    BY SameCardinality, Zenon DEF S!BetweenCounts, Middle
  <2> QED BY <2>1, <2>2
<1>12. sequence' \in -1 .. MaxSeq /\ maxSequence' \in -1 .. MaxSeq /\ between' \in Nat
  BY <1>1, <1>3, <1>4, <1>5, <1>7
<1> QED BY <1>9, <1>10, <1>11, <1>12

\* get() takes the next sequence and resets its item.
LEMMA GetShape ==
  ASSUME RingTypes, S!Get(1)
  PROVE  /\ claimed' = claimed + 1 /\ claimed' \in Nat /\ claimed' <= MaxSeq
         /\ claimed' - RingSize <= sequence
         /\ filling' = filling \cup {claimed'}
         /\ items' = [items EXCEPT ![S!Slot(claimed')] =
                         [S!NewItem EXCEPT !.producerSequence = claimed']]
         /\ UNCHANGED <<cursor, sequence, lastSequenceReleased, maxSequence, between,
                        nextConsumerSequence, availableConsumerSequence, users, done>>
<1> DEFINE new == claimed + 1 .. claimed + 1
<1>1. /\ S!RoomFor(1)
      /\ claimed' = claimed + 1
      /\ items' = [i \in S!Slots |->
                      IF \E s \in new : S!Slot(s) = i
                      THEN S!ResetItem(items[i], CHOOSE s \in new : S!Slot(s) = i)
                      ELSE items[i]]
      /\ filling' = filling \cup new
      /\ UNCHANGED <<cursor, sequence, lastSequenceReleased, maxSequence, between,
                     nextConsumerSequence, availableConsumerSequence, users, done>>
  BY DEF S!Get, S!Claim, S!bookkeeping, S!consumer
<1>2. claimed \in Int /\ claimed >= -1 /\ MaxSeq \in Nat
  BY TieredAssumption DEF RingTypes
<1>3. new = {claimed + 1}
  BY <1>2
<1>4. claimed' \in Nat /\ claimed' <= MaxSeq /\ claimed' - RingSize <= sequence
  BY <1>1, <1>2, TieredAssumption DEF S!RoomFor
<1>5. ASSUME NEW i \in S!Slots
      PROVE  items'[i] = IF i = S!Slot(claimed')
                         THEN [S!NewItem EXCEPT !.producerSequence = claimed']
                         ELSE items[i]
  <2>1. (\E s \in new : S!Slot(s) = i) <=> i = S!Slot(claimed')
    BY <1>1, <1>3, Zenon
  <2>2. CASE i = S!Slot(claimed')
    <3>1. (CHOOSE s \in new : S!Slot(s) = i) = claimed'
      BY <1>1, <1>3, <2>2, Zenon
    <3> HIDE DEF new
    <3> QED BY <1>1, <2>1, <2>2, <3>1, Zenon DEF S!ResetItem
  <2>3. CASE i # S!Slot(claimed')
    <3> HIDE DEF new
    <3> QED BY <1>1, <2>1, <2>3, Zenon
  <2> QED BY <2>2, <2>3
<1>6. items' = [items EXCEPT ![S!Slot(claimed')] =
                   [S!NewItem EXCEPT !.producerSequence = claimed']]
  <2>1. S!Slot(claimed') \in S!Slots
    BY <1>4, SlotType
  <2>2. DOMAIN items = S!Slots /\ items' = [i \in S!Slots |-> items'[i]]
    BY <1>1 DEF RingTypes
  <2> HIDE DEF new
  <2>3. items' = [i \in S!Slots |-> IF i = S!Slot(claimed')
                         THEN [S!NewItem EXCEPT !.producerSequence = claimed']
                         ELSE items[i]]
    BY <1>5, <2>2, Zenon
  <2>4. items = [i \in S!Slots |-> items[i]]
    BY DEF RingTypes
  <2> QED BY <2>1, <2>3, <2>4
<1> QED BY <1>1, <1>3, <1>4, <1>6

\* Two buffers being filled have different slots.
LEMMA FillingApart ==
  ASSUME RingInv, NEW r \in filling, NEW s \in filling, S!Slot(r) = S!Slot(s)
  PROVE  r = s
BY DEF RingInv, FillingInv

LEMMA FillingSeqs ==
  ASSUME RingInv
  PROVE  /\ \A s \in filling : s \in S!Seqs /\ s \in Nat /\ s <= claimed /\ s > sequence
         /\ claimed \in Int /\ sequence \in Int
<1>1. claimed \in -1 .. MaxSeq /\ sequence \in -1 .. MaxSeq /\ MaxSeq \in Nat
  BY TieredAssumption DEF RingInv, RingTypes
<1>2. ASSUME NEW s \in filling
      PROVE  s \in S!Seqs /\ s \in Nat /\ s <= claimed /\ s > sequence
  <2>1. s \in 0 .. claimed /\ s \notin done
    BY DEF RingInv, FillingInv
  <2>2. s \in S!Seqs /\ s \in Nat /\ s <= claimed
    BY <1>1, <2>1 DEF S!Seqs
  <2> QED BY <2>1, <2>2, AheadOfGate DEF RingInv
<1> QED BY <1>1, <1>2

\* A new buffer is one that is not being filled.
LEMMA RingGet ==
  ASSUME RingInv, S!Get(1), dumpBufs' = dumpBufs
  PROVE  /\ RingInv'
         /\ claimed' \in Nat /\ claimed' \notin filling
         /\ filling' = filling \cup {claimed'}
         /\ \A s \in filling : S!Slot(s) # S!Slot(claimed')
<1> USE TieredAssumption
<1>0. RingTypes
  BY DEF RingInv
<1>1. /\ claimed' = claimed + 1 /\ claimed' \in Nat /\ claimed' <= MaxSeq
      /\ claimed' - RingSize <= sequence
      /\ filling' = filling \cup {claimed'}
      /\ items' = [items EXCEPT ![S!Slot(claimed')] =
                      [S!NewItem EXCEPT !.producerSequence = claimed']]
      /\ UNCHANGED <<cursor, sequence, lastSequenceReleased, maxSequence, between,
                     nextConsumerSequence, availableConsumerSequence, users, done>>
  BY <1>0, GetShape
<1> DEFINE new == claimed'
           slot == S!Slot(new)
           fresh == [S!NewItem EXCEPT !.producerSequence = new]
<1>2. new \in S!Seqs /\ slot \in S!Slots
  BY <1>1, SlotType DEF S!Seqs
<1>3. fresh \in S!SupplyItem /\ fresh.producerSequence = new
  <2>1. 0 \in S!Seqs /\ FALSE \in BOOLEAN /\ 0 \in Int
    BY DEF S!Seqs
  <2>2. S!NewItem \in S!SupplyItem
    BY <2>1, Zenon DEF S!NewItem, S!SupplyItem
  <2> QED BY <1>2, <2>2 DEF S!SupplyItem
<1>4. \A s \in filling : s \in Nat /\ s <= claimed /\ s > sequence /\ s \notin done
      /\ items[S!Slot(s)].producerSequence = s /\ s \in 0 .. claimed
  BY FillingSeqs DEF RingInv, FillingInv
<1>5. claimed \in Int /\ claimed >= -1 /\ sequence \in Int /\ sequence >= -1
      /\ maxSequence \in Int
  BY <1>0 DEF RingTypes
<1>6. \A s \in filling : s # new /\ S!Slot(s) # slot
  <2> SUFFICES ASSUME NEW s \in filling PROVE s # new /\ S!Slot(s) # slot
    OBVIOUS
  <2>1. s < new /\ new - s < RingSize
    BY <1>1, <1>4, <1>5
  <2> HIDE DEF new
  <2> QED BY <1>2, <1>4, <2>1, SlotsDiffer DEF S!Seqs, slot
<1>7. new \notin done
  <2>1. maxSequence <= claimed /\ \A s \in done : s <= maxSequence
    BY DEF RingInv, S!GateInv, S!ReleasedInv
  <2> QED BY <1>1, <1>5, <2>1
<1>8. RingTypes'
  <2>1. items' \in [S!Slots -> S!SupplyItem]
    <3> HIDE DEF fresh, slot
    <3> QED BY <1>0, <1>1, <1>2, <1>3 DEF RingTypes, fresh, slot, new
  <2>2. claimed' \in -1 .. MaxSeq
    BY <1>1
  <2> QED BY <1>0, <1>1, <2>1, <2>2 DEF RingTypes
<1>9. S!GateInv'
  <2>1. maxSequence <= claimed'
    BY <1>1, <1>5 DEF RingInv, S!GateInv
  <2> QED BY <1>1, <2>1 DEF RingInv, S!GateInv
<1>10. S!ReleasedInv' /\ S!BetweenCounts'
  BY <1>1 DEF RingInv, S!ReleasedInv, S!BetweenCounts
<1>11. FillingInv'
  <2>1. ASSUME NEW s \in filling'
        PROVE  s \in 0 .. claimed' /\ s \notin done' /\ items'[S!Slot(s)].producerSequence = s
    <3>1. CASE s = new
      <4>1. items'[slot] = fresh
        BY <1>0, <1>1, <1>2 DEF RingTypes
      <4> HIDE DEF fresh, slot
      <4> QED BY <1>1, <1>3, <1>7, <3>1, <4>1 DEF slot, new
    <3>2. CASE s \in filling
      <4>1. S!Slot(s) \in S!Slots /\ S!Slot(s) # slot
        BY <1>4, <1>6, <3>2, SlotType
      <4>2. items'[S!Slot(s)] = items[S!Slot(s)]
        BY <1>0, <1>1, <4>1 DEF RingTypes
      <4>3. items[S!Slot(s)].producerSequence = s /\ s \in Nat /\ s <= claimed /\ s \notin done
        BY <1>4, <3>2
      <4>4. s \in 0 .. claimed'
        BY <1>1, <1>5, <4>3
      <4> QED BY <1>1, <4>2, <4>3, <4>4
    <3> QED BY <1>1, <2>1, <3>1, <3>2
  <2>2. CASE dumpBufs
    <3>1. 0 .. claimed \ done \subseteq filling
      BY <2>2 DEF RingInv, FillingInv
    <3>2. 0 .. claimed' \ done' \subseteq filling'
      BY <1>1, <1>5, <3>1
    <3> QED BY <2>1, <2>2, <3>2 DEF FillingInv
  <2>3. CASE ~dumpBufs
    <3>1. /\ cursor <= claimed
          /\ filling = {s \in S!Seqs : cursor < s /\ s <= claimed}
          /\ availableConsumerSequence <= cursor
          /\ nextConsumerSequence <= cursor + 1
          /\ \A s \in done : s < nextConsumerSequence
          /\ \A s \in S!Seqs : users[s] > 0 => s < nextConsumerSequence /\ s \notin done
      BY <2>3 DEF RingInv, FillingInv
    <3>2. cursor \in Int
      BY <1>0 DEF RingTypes
    <3>3. cursor' <= claimed'
      BY <1>1, <1>5, <3>1, <3>2
    <3>4. filling' = {s \in S!Seqs : cursor' < s /\ s <= claimed'}
      <4>1. ASSUME NEW s \in S!Seqs
            PROVE  cursor < s /\ s <= claimed + 1
                      <=> (cursor < s /\ s <= claimed) \/ s = claimed + 1
        BY <1>5, <3>1, <3>2 DEF S!Seqs
      <4> QED BY <1>1, <1>2, <3>1, <4>1
    <3>5. /\ availableConsumerSequence' <= cursor' /\ nextConsumerSequence' <= cursor' + 1
          /\ \A s \in done' : s < nextConsumerSequence'
          /\ \A s \in S!Seqs : users'[s] > 0 => s < nextConsumerSequence' /\ s \notin done'
      BY <1>1, <3>1
    <3> QED BY <2>1, <2>3, <3>3, <3>4, <3>5, Zenon DEF FillingInv
  <2> QED BY <2>2, <2>3
<1> QED BY <1>1, <1>6, <1>8, <1>9, <1>10, <1>11 DEF RingInv

\* A buffer being filled goes back to the supply, or, if it is the one claimed
\* first, to the reader.
LEMMA RingHandBack ==
  ASSUME RingInv, NEW seq \in filling, dumpBufs' = dumpBufs,
         IF dumpBufs THEN ReleaseItem(seq) ELSE PublishItem(seq),
         dumpBufs \/ \A r \in filling : ~(r < seq)
  PROVE  /\ RingInv'
         /\ filling' = filling \ {seq} /\ claimed' = claimed /\ items' = items
<1> USE TieredAssumption
<1>1. seq \in S!Seqs /\ seq \in Nat /\ seq <= claimed /\ seq > sequence /\ seq \notin done
      /\ claimed \in Int
  BY FillingSeqs DEF RingInv, FillingInv
<1>2. RingTypes /\ S!GateInv /\ S!ReleasedInv /\ S!BetweenCounts /\ FillingInv
  BY DEF RingInv
<1>3. CASE dumpBufs
  <2>1. /\ S!ReleaseInAnyOrder(seq)
        /\ done' = done \cup {seq} /\ filling' = filling \ {seq}
        /\ users' = [users EXCEPT ![seq] = 0]
        /\ UNCHANGED <<items, claimed, cursor, nextConsumerSequence,
                       availableConsumerSequence>>
    BY <1>3, Zenon DEF ReleaseItem
  <2>2. /\ S!GateInv' /\ S!ReleasedInv' /\ S!BetweenCounts'
        /\ sequence' \in -1 .. MaxSeq /\ maxSequence' \in -1 .. MaxSeq /\ between' \in Nat
    BY <1>1, <1>2, <2>1, ReleaseKeepsGate
  <2>3. RingTypes'
    <3>1. users' \in [S!Seqs -> Nat] /\ done' \subseteq S!Seqs
      BY <1>1, <1>2, <2>1 DEF RingTypes
    <3> QED BY <1>2, <2>1, <2>2, <3>1 DEF RingTypes
  <2>4. FillingInv'
    <3>1. \A s \in filling' : s \in 0 .. claimed' /\ s \notin done'
                              /\ items'[S!Slot(s)].producerSequence = s
      BY <1>2, <2>1 DEF FillingInv
    <3>2. 0 .. claimed' \ done' \subseteq filling'
      BY <1>2, <1>3, <2>1 DEF FillingInv
    <3> QED BY <1>3, <3>1, <3>2 DEF FillingInv
  <2> QED BY <2>1, <2>2, <2>3, <2>4 DEF RingInv
<1>4. CASE ~dumpBufs
  <2>1. /\ cursor' = seq /\ filling' = filling \ {seq}
        /\ UNCHANGED <<items, claimed, sequence, lastSequenceReleased, maxSequence,
                       between, nextConsumerSequence, availableConsumerSequence, users, done>>
    BY <1>4, Zenon DEF PublishItem
  <2>2. RingTypes'
    <3>1. cursor' \in -1 .. MaxSeq
      BY <1>1, <2>1 DEF S!Seqs
    <3> QED BY <1>2, <2>1, <3>1 DEF RingTypes
  <2>3. S!GateInv' /\ S!ReleasedInv' /\ S!BetweenCounts'
    BY <1>2, <2>1 DEF S!GateInv, S!ReleasedInv, S!BetweenCounts
  <2>4. /\ cursor <= claimed
        /\ filling = {s \in S!Seqs : cursor < s /\ s <= claimed}
        /\ availableConsumerSequence <= cursor
        /\ nextConsumerSequence <= cursor + 1
        /\ \A s \in done : s < nextConsumerSequence
        /\ \A s \in S!Seqs : users[s] > 0 => s < nextConsumerSequence /\ s \notin done
    BY <1>2, <1>4 DEF FillingInv
  <2>5. cursor \in Int /\ cursor < seq /\ availableConsumerSequence \in Int
        /\ nextConsumerSequence \in Int
    BY <1>2, <2>4 DEF RingTypes
  <2>6. cursor' <= claimed' /\ availableConsumerSequence' <= cursor'
        /\ nextConsumerSequence' <= cursor' + 1
    BY <1>1, <2>1, <2>4, <2>5
  <2>7. filling' = {s \in S!Seqs : cursor' < s /\ s <= claimed'}
    <3>1. ASSUME NEW s \in S!Seqs
          PROVE  s \in filling /\ s # seq <=> seq < s /\ s <= claimed
      <4>1. s \in Int
        BY DEF S!Seqs
      <4>2. s \in filling <=> cursor < s /\ s <= claimed
        BY <2>4
      <4>3. s \in filling => ~(s < seq)
        BY <1>4
      <4> QED BY <1>1, <2>5, <4>1, <4>2, <4>3
    <3>2. filling \subseteq S!Seqs
      BY <2>4
    <3> QED BY <2>1, <3>1, <3>2
  <2>8. \A s \in filling' : s \in 0 .. claimed' /\ s \notin done'
                            /\ items'[S!Slot(s)].producerSequence = s
    BY <1>2, <2>1 DEF FillingInv
  <2>9. /\ \A s \in done' : s < nextConsumerSequence'
        /\ \A s \in S!Seqs : users'[s] > 0 => s < nextConsumerSequence' /\ s \notin done'
    BY <2>1, <2>4
  <2>10. FillingInv'
    BY <1>4, <2>6, <2>7, <2>8, <2>9, Zenon DEF FillingInv
  <2> QED BY <2>1, <2>2, <2>3, <2>10 DEF RingInv
<1> QED BY <1>3, <1>4

\* What the reader does leaves the buffers being filled alone.
LEMMA RingRead ==
  ASSUME RingInv, ~dumpBufs, dumpBufs' = dumpBufs,
         S!ConsumerGet \/ \E s \in S!Seqs : users[s] > 0 /\ ReleaseItem(s)
  PROVE  RingInv' /\ filling' = filling /\ claimed' = claimed
<1> USE TieredAssumption
<1>1. RingTypes /\ S!GateInv /\ S!ReleasedInv /\ S!BetweenCounts /\ FillingInv
  BY DEF RingInv
<1>2. /\ cursor <= claimed
      /\ filling = {s \in S!Seqs : cursor < s /\ s <= claimed}
      /\ availableConsumerSequence <= cursor
      /\ nextConsumerSequence <= cursor + 1
      /\ \A s \in done : s < nextConsumerSequence
      /\ \A s \in S!Seqs : users[s] > 0 => s < nextConsumerSequence /\ s \notin done
  BY <1>1 DEF FillingInv
<1>3. /\ claimed \in Int /\ claimed <= MaxSeq /\ cursor \in -1 .. MaxSeq
      /\ availableConsumerSequence \in Int
      /\ nextConsumerSequence \in Nat /\ users \in [S!Seqs -> Nat]
      /\ items \in [S!Slots -> S!SupplyItem] /\ done \subseteq S!Seqs
  BY <1>1 DEF RingTypes
<1>4. CASE S!ConsumerGet
  <2> DEFINE next == nextConsumerSequence
  <2>1. /\ availableConsumerSequence < next => next <= cursor
        /\ availableConsumerSequence' = (IF availableConsumerSequence < next THEN cursor
                                         ELSE availableConsumerSequence)
        /\ items' = [items EXCEPT ![S!Slot(next)] =
                        [@ EXCEPT !.consumerSequence = next, !.fromConsumerGet = TRUE]]
        /\ next' = next + 1
        /\ users' = [users EXCEPT ![next] = 1]
        /\ UNCHANGED <<claimed, cursor, sequence, lastSequenceReleased, maxSequence,
                       between, filling, done>>
    BY <1>4, Zenon DEF S!ConsumerGet, S!Published, S!bookkeeping
  <2>2. next <= cursor /\ next \in S!Seqs /\ S!Slot(next) \in S!Slots
    <3>1. next <= cursor /\ next \in Nat
      BY <1>2, <1>3, <2>1
    <3> HIDE DEF next
    <3>2. next \in S!Seqs
      BY <1>3, <3>1 DEF S!Seqs
    <3> QED BY <3>1, <3>2, SlotType
  <2>3. items' \in [S!Slots -> S!SupplyItem]
        /\ \A i \in S!Slots : items'[i].producerSequence = items[i].producerSequence
    <3> DEFINE item == items[S!Slot(next)]
               now  == [item EXCEPT !.consumerSequence = next, !.fromConsumerGet = TRUE]
    <3>1. item \in S!SupplyItem
      BY <1>3, <2>2
    <3> HIDE DEF item
    <3>2. now \in S!SupplyItem /\ now.producerSequence = item.producerSequence
      BY <2>2, <3>1 DEF S!SupplyItem
    <3>3. items' = [items EXCEPT ![S!Slot(next)] = now]
      BY <2>1, Zenon DEF item
    <3> HIDE DEF now
    <3> QED BY <1>3, <2>2, <3>2, <3>3 DEF item
  <2>4. RingTypes'
    <3>0. /\ next' = next + 1 /\ users' = [users EXCEPT ![next] = 1]
          /\ availableConsumerSequence' = cursor
             \/ availableConsumerSequence' = availableConsumerSequence
      BY <2>1
    <3>1. /\ next' \in 0 .. MaxSeq + 1
          /\ users' \in [S!Seqs -> Nat]
          /\ availableConsumerSequence' \in -1 .. MaxSeq
      <4>1. next' \in 0 .. MaxSeq + 1
        BY <1>3, <2>2, <3>0
      <4>2. users' \in [S!Seqs -> Nat]
        BY <1>3, <3>0
      <4>3. availableConsumerSequence' \in -1 .. MaxSeq
        BY <1>1, <3>0 DEF RingTypes
      <4> QED BY <4>1, <4>2, <4>3
    <3>2. UNCHANGED <<claimed, cursor, sequence, maxSequence, between, done>>
      BY <2>1
    <3> HIDE DEF next
    <3>3. nextConsumerSequence' \in 0 .. MaxSeq + 1
      BY <3>1 DEF next
    <3> QED BY <1>1, <2>3, <3>1, <3>2, <3>3 DEF RingTypes
  <2>5. S!GateInv' /\ S!ReleasedInv' /\ S!BetweenCounts'
    BY <1>1, <2>1 DEF S!GateInv, S!ReleasedInv, S!BetweenCounts
  <2>6. availableConsumerSequence' <= cursor' /\ next' <= cursor' + 1
    <3>1. availableConsumerSequence' <= cursor
      BY <1>2, <1>3, <2>1
    <3>2. next' = next + 1 /\ cursor' = cursor
      BY <2>1
    <3>3. next + 1 <= cursor + 1
      BY <1>3, <2>2
    <3> QED BY <3>1, <3>2, <3>3
  <2>7. \A s \in done' : s < next'
    <3>1. \A s \in done : s \in Int /\ s < next
      BY <1>2, <1>3 DEF S!Seqs
    <3> QED BY <1>3, <2>1, <3>1
  <2>8. ASSUME NEW s \in S!Seqs, users'[s] > 0 PROVE s < next' /\ s \notin done'
    <3>1. s \in Int /\ next \in Int
      BY <1>3 DEF S!Seqs
    <3>2. CASE s = next
      BY <1>2, <2>1, <3>1, <3>2
    <3>3. CASE s # next
      <4>1. users'[s] = users[s]
        BY <1>3, <2>1, <3>3
      <4>2. s < next /\ s \notin done
        BY <1>2, <2>8, <4>1
      <4> QED BY <2>1, <3>1, <4>2
    <3> QED BY <3>2, <3>3
  <2>9. \A s \in filling' : s \in 0 .. claimed' /\ s \notin done'
                            /\ items'[S!Slot(s)].producerSequence = s
    <3> SUFFICES ASSUME NEW s \in filling
                 PROVE  /\ items'[S!Slot(s)].producerSequence = s
                        /\ s \in 0 .. claimed /\ s \notin done
      BY <2>1
    <3>1. s \in Nat /\ items[S!Slot(s)].producerSequence = s /\ s \in 0 .. claimed /\ s \notin done
      BY <1>1 DEF FillingInv
    <3>2. S!Slot(s) \in S!Slots
      BY <3>1, SlotType
    <3> QED BY <2>3, <3>1, <3>2
  <2>10. FillingInv'
    <3>1. cursor' <= claimed' /\ filling' = {s \in S!Seqs : cursor' < s /\ s <= claimed'}
      BY <1>2, <2>1
    <3> QED BY <2>6, <2>7, <2>8, <2>9, <3>1, Zenon DEF FillingInv
  <2> QED BY <2>1, <2>4, <2>5, <2>10 DEF RingInv
<1>5. CASE \E s \in S!Seqs : users[s] > 0 /\ ReleaseItem(s)
  <2>1. PICK seq \in S!Seqs : users[seq] > 0 /\ ReleaseItem(seq)
    BY <1>5
  <2>2. seq < nextConsumerSequence /\ seq \notin done /\ seq \in Nat
    BY <1>2, <2>1 DEF S!Seqs
  <2>3. seq <= cursor /\ seq <= claimed /\ seq \notin filling
    BY <1>2, <1>3, <2>2
  <2>4. /\ S!ReleaseInAnyOrder(seq)
        /\ done' = done \cup {seq} /\ filling' = filling \ {seq}
        /\ users' = [users EXCEPT ![seq] = 0]
        /\ UNCHANGED <<items, claimed, cursor, nextConsumerSequence,
                       availableConsumerSequence>>
    BY <2>1, Zenon DEF ReleaseItem
  <2>5. filling' = filling
    BY <2>3, <2>4
  <2>6. /\ S!GateInv' /\ S!ReleasedInv' /\ S!BetweenCounts'
        /\ sequence' \in -1 .. MaxSeq /\ maxSequence' \in -1 .. MaxSeq /\ between' \in Nat
    BY <1>1, <2>2, <2>3, <2>4, ReleaseKeepsGate
  <2>7. RingTypes'
    <3>1. users' \in [S!Seqs -> Nat] /\ done' \subseteq S!Seqs
      BY <1>3, <2>4
    <3> QED BY <1>1, <2>4, <2>6, <3>1 DEF RingTypes
  <2>8. FillingInv'
    <3>1. \A s \in filling' : s \in 0 .. claimed' /\ s \notin done'
                              /\ items'[S!Slot(s)].producerSequence = s
      BY <1>1, <2>3, <2>4, <2>5 DEF FillingInv
    <3>2. \A s \in done' : s < nextConsumerSequence'
      BY <1>2, <2>2, <2>4
    <3>3. \A s \in S!Seqs : users'[s] > 0 => s < nextConsumerSequence' /\ s \notin done'
      <4> SUFFICES ASSUME NEW s \in S!Seqs, users'[s] > 0
                   PROVE  s < nextConsumerSequence' /\ s \notin done'
        OBVIOUS
      <4>1. s # seq
        BY <1>3, <2>4
      <4>2. users'[s] = users[s]
        BY <1>3, <2>4, <4>1
      <4> QED BY <1>2, <2>4, <4>1, <4>2
    <3>4. /\ cursor' <= claimed'
          /\ filling' = {s \in S!Seqs : cursor' < s /\ s <= claimed'}
          /\ availableConsumerSequence' <= cursor'
          /\ nextConsumerSequence' <= cursor' + 1
      BY <1>2, <2>4, <2>5
    <3> QED BY <3>1, <3>2, <3>3, <3>4, Zenon DEF FillingInv
  <2> QED BY <2>4, <2>5, <2>6, <2>7, <2>8 DEF RingInv
<1> QED BY <1>4, <1>5

-----------------------------------------------------------------------------
(* Maps of ticks.                                                          *)

\* m with v for k.
IsWith(w, m, k, v) ==
    /\ DOMAIN w = DOMAIN m \cup {k}
    /\ w[k] = v
    /\ \A t \in DOMAIN m : t # k => w[t] = m[t]

LEMMA MapWith ==
  ASSUME NEW m, NEW k, NEW v
  PROVE  IsWith(With(m, k, v), m, k, v)
<1> DEFINE w == With(m, k, v)
<1>1. /\ DOMAIN w = DOMAIN m \cup {k}
      /\ \A t \in DOMAIN m \cup {k} : w[t] = IF t = k THEN v ELSE m[t]
  BY DEF With
<1> HIDE DEF w
<1> QED BY <1>1 DEF IsWith, w

\* m without some ticks.
IsWithout(w, m, ticks) ==
    /\ DOMAIN w = DOMAIN m \ ticks
    /\ \A t \in DOMAIN w : w[t] = m[t]

LEMMA MapWithout ==
  ASSUME NEW m, NEW ticks
  PROVE  IsWithout(Without(m, ticks), m, ticks)
BY DEF Without, IsWithout

\* A map of ticks with something in it has an oldest tick.
LEMMA OldestIn ==
  ASSUME NEW m, DOMAIN m \subseteq Ticks, DOMAIN m # {}
  PROVE  Oldest(m) \in DOMAIN m /\ \A t \in DOMAIN m : Oldest(m) <= t
BY TieredAssumption, MinIsLeast DEF Oldest

LEMMA NotEmpty ==
  ASSUME MapTypes, fast # << >>
  PROVE  DOMAIN fast # {}
<1> SUFFICES ASSUME DOMAIN fast = {} PROVE FALSE
  OBVIOUS
<1>1. fast \in [{} -> Waiting]
  BY DEF MapTypes
<1>2. fast \in Seq(Waiting)
  <2>1. 1 .. 0 = {} /\ 0 \in Nat
    OBVIOUS
  <2>2. fast \in [1 .. 0 -> Waiting]
    BY <1>1, <2>1, Zenon
  <2> QED BY <2>1, <2>2, SeqDef, Zenon
<1>3. DOMAIN fast = 1 .. Len(fast) /\ Len(fast) \in Nat \ {0}
  BY <1>2, LenProperties, EmptySeq, Zenon
<1> QED BY <1>3

LEMMA EmptyDomain == DOMAIN << >> = {}
OBVIOUS

LEMMA FiniteMaps ==
  ASSUME NEW T, T \subseteq Ticks
  PROVE  IsFiniteSet(T)
BY TieredAssumption, FS_Subset

LEMMA LimitNotEmpty ==
  ASSUME AboveLimit
  PROVE  DOMAIN fast # {}
BY TieredAssumption, FS_EmptySet DEF AboveLimit

-----------------------------------------------------------------------------
(* The order of the tiers.                                                 *)

TiersInv == MapTypes /\ TierInv /\ TiersOrdered

\* The oldest event of the fast map goes to the slow one.
LEMMA MoveKeepsTiers ==
  ASSUME TiersInv, DOMAIN fast # {}, NEW ref, MoveToSlow(Oldest(fast), ref),
         pc' \in {"store", "expire"}, pc # "recv", pc # "exit", claimed' = claimed
  PROVE  TiersInv'
<1> DEFINE tick == Oldest(fast)
           kept == IF SlowMapFull THEN Without(slow, {Oldest(slow)}) ELSE slow
           new  == [ref |-> ref, time |-> microSec]
<1>1. /\ slow' = With(kept, tick, new)
      /\ fast' = Without(fast, {tick})
      /\ largestSlowTick' = tick
      /\ stats' = IF SlowMapFull THEN [stats EXCEPT !.discarded = @ + 1] ELSE stats
      /\ upset \subseteq upset'
      /\ UNCHANGED <<pkt, prevTick, largestTick, microSec, dumpBufs, net>>
  BY Zenon DEF MoveToSlow, SlowTickAfter, Remember, current, previous, network
<1>2. /\ MapTypes /\ TierInv /\ TiersOrdered
      /\ tick \in DOMAIN fast /\ tick \in Ticks /\ tick \in Nat
      /\ \A t \in DOMAIN fast : tick <= t
      /\ DOMAIN fast \subseteq Nat /\ DOMAIN slow \subseteq Nat
  BY TieredAssumption, OldestIn DEF TiersInv, MapTypes
<1>3. /\ DOMAIN fast' = DOMAIN fast \ {tick}
      /\ \A t \in DOMAIN fast' : fast'[t] = fast[t]
  <2>1. IsWithout(fast', fast, {tick})
    BY <1>1, MapWithout, Zenon
  <2> QED BY <2>1 DEF IsWithout
<1>4. DOMAIN kept \subseteq DOMAIN slow
  <2>1. IsWithout(Without(slow, {Oldest(slow)}), slow, {Oldest(slow)})
    BY MapWithout, Zenon
  <2>2. DOMAIN Without(slow, {Oldest(slow)}) \subseteq DOMAIN slow
    BY <2>1 DEF IsWithout
  <2> QED BY <2>2
<1> HIDE DEF tick, kept, new
<1>5. DOMAIN slow' = DOMAIN kept \cup {tick}
  BY <1>1, MapWith DEF IsWith
<1>6. MapTypes'
  <2>1. fast' \in [DOMAIN fast' -> Waiting]
    BY <1>1, <1>2, <1>3 DEF MapTypes, Without
  <2>2. stats' \in [built : Nat, discarded : Nat, opened : Nat]
    BY <1>1, <1>2 DEF MapTypes
  <2>3. /\ DOMAIN fast' \subseteq Ticks /\ DOMAIN slow' \subseteq Ticks
        /\ {prevTick', largestTick', largestSlowTick'} \subseteq Ticks \cup {NoTickYet}
    BY <1>1, <1>2, <1>3, <1>4, <1>5 DEF MapTypes
  <2>4. /\ net' \subseteq Packets /\ pkt' \in Packets
        /\ microSec' \in Nat /\ dumpBufs' \in BOOLEAN
        /\ claimed' \in -1 .. MaxSeq
    BY <1>1, <1>2 DEF MapTypes
  <2> QED BY <2>1, <2>2, <2>3, <2>4 DEF MapTypes
<1>7. TierInv' /\ TiersOrdered'
  <2> SUFFICES ASSUME "restart" \notin upset' PROVE TierInv' /\ TiersOrdered'
    BY DEF TierInv, TiersOrdered
  <2>1. /\ \A t \in DOMAIN fast : largestSlowTick < t /\ t <= largestTick
        /\ \A t \in DOMAIN slow : t <= largestSlowTick
    BY <1>1, <1>2 DEF TiersOrdered
  <2>2. largestSlowTick \in Int /\ largestTick \in Int
    BY <1>2, TieredAssumption DEF MapTypes, NoTickYet
  <2>3. TierInv'
    BY <1>1, <1>2, <2>1 DEF TierInv
  <2>4. ASSUME NEW t \in DOMAIN fast' PROVE tick < t /\ t <= largestTick
    <3>1. t \in DOMAIN fast /\ t # tick /\ tick <= t /\ t \in Nat
      BY <1>2, <1>3
    <3> QED BY <1>2, <2>1, <3>1
  <2>5. ASSUME NEW t \in DOMAIN slow' PROVE t <= tick
    <3>1. CASE t = tick
      BY <1>2, <3>1
    <3>2. CASE t \in DOMAIN slow
      <4>1. t \in Nat /\ t <= largestSlowTick /\ largestSlowTick < tick
        BY <1>2, <2>1, <3>2
      <4> QED BY <1>2, <2>2, <4>1
    <3> QED BY <1>4, <1>5, <3>1, <3>2
  <2> QED BY <1>1, <2>3, <2>4, <2>5 DEF TiersOrdered
<1> QED BY <1>6, <1>7 DEF TiersInv

\* A packet arrives.
LEMMA ReceiveKeepsTiers ==
  ASSUME TiersInv, NEW p \in net, NEW again \in BOOLEAN, Receive(p, again)
  PROVE  TiersInv'
<1>1. /\ pkt' = p /\ net' \subseteq net /\ pc = "recv"
      /\ UNCHANGED <<claimed, prevTick, fast, slow, largestTick, largestSlowTick, microSec,
                     stats, dumpBufs>>
  BY DEF Receive, ReceiveSameTick, ReceiveKnownTick, ReceiveLateTick, ReceiveRestart,
         ReceiveNewTick, Recv, supply, previous, maps
<1>2. /\ upset \subseteq upset'
      /\ pc' = "restart" => "restart" \in upset'
      /\ pc' = "get" => p.tick > largestTick
  BY DEF Receive, ReceiveSameTick, ReceiveKnownTick, ReceiveLateTick, ReceiveRestart,
         ReceiveNewTick, Remember
<1>3. MapTypes'
  BY <1>1 DEF TiersInv, MapTypes
<1>4. TierInv'
  BY <1>1, <1>2 DEF TiersInv, TierInv
<1>5. TiersOrdered'
  BY <1>1, <1>2 DEF TiersInv, TiersOrdered
<1> QED BY <1>3, <1>4, <1>5 DEF TiersInv

\* A new event gets a buffer.
LEMMA GetKeepsTiers ==
  ASSUME TiersInv, GetBuffer
  PROVE  TiersInv'
<1> DEFINE new == [slot |-> S!Slot(claimed + 1), time |-> microSec']
<1>1. /\ pc = "get" /\ pc' = "limit"
      /\ claimed' = claimed + 1 /\ claimed + 1 <= MaxSeq
      /\ microSec' \in {microSec} \cup ({microSec + 1} \cap 0 .. MaxTime)
      /\ fast' = With(fast, pkt.tick, new)
      /\ largestTick' = pkt.tick
      /\ stats' = [stats EXCEPT !.opened = @ + 1]
      /\ UNCHANGED <<pkt, prevTick, slow, largestSlowTick, dumpBufs, net, upset>>
  BY DEF GetBuffer, S!Get, S!Claim, S!RoomFor, previous, network
<1>2. /\ MapTypes /\ TierInv /\ TiersOrdered
      /\ pkt \in Packets /\ pkt.tick \in Ticks /\ pkt.tick \in Nat
      /\ claimed \in -1 .. MaxSeq /\ microSec \in Nat
      /\ largestTick \in Int /\ largestSlowTick \in Int
  BY <1>1, TieredAssumption DEF TiersInv, MapTypes, Packets, NoTickYet
<1>3. new \in Waiting /\ microSec' \in Nat
  <2>1. claimed + 1 \in Nat /\ microSec' \in Nat
    BY <1>1, <1>2, TieredAssumption
  <2> QED BY <2>1, SlotType DEF Waiting
<1> HIDE DEF new
<1>4. /\ DOMAIN fast' = DOMAIN fast \cup {pkt.tick}
      /\ fast'[pkt.tick] = new
      /\ \A t \in DOMAIN fast : t # pkt.tick => fast'[t] = fast[t]
  <2>1. IsWith(fast', fast, pkt.tick, new)
    BY <1>1, MapWith, Zenon
  <2> QED BY <2>1 DEF IsWith
<1>5. MapTypes'
  <2>1. fast' \in [DOMAIN fast' -> Waiting]
    BY <1>1, <1>2, <1>3, <1>4 DEF MapTypes, With
  <2>2. stats' \in [built : Nat, discarded : Nat, opened : Nat]
    BY <1>1, <1>2 DEF MapTypes
  <2>3. /\ DOMAIN fast' \subseteq Ticks /\ DOMAIN slow' \subseteq Ticks
        /\ {prevTick', largestTick', largestSlowTick'} \subseteq Ticks \cup {NoTickYet}
    BY <1>1, <1>2, <1>4 DEF MapTypes
  <2>4. /\ net' \subseteq Packets /\ pkt' \in Packets
        /\ microSec' \in Nat /\ dumpBufs' \in BOOLEAN
        /\ claimed' \in -1 .. MaxSeq
    BY <1>1, <1>2, <1>3, TieredAssumption DEF MapTypes
  <2> QED BY <2>1, <2>2, <2>3, <2>4 DEF MapTypes
<1>6. TierInv' /\ TiersOrdered'
  <2> SUFFICES ASSUME "restart" \notin upset PROVE TierInv' /\ TiersOrdered'
    BY <1>1 DEF TierInv, TiersOrdered
  <2>1. /\ \A t \in DOMAIN fast : largestSlowTick < t /\ t <= largestTick
        /\ \A t \in DOMAIN slow : t <= largestSlowTick
        /\ largestSlowTick <= largestTick /\ pkt.tick > largestTick
    BY <1>1, <1>2 DEF TiersOrdered, TierInv
  <2>2. DOMAIN fast \subseteq Int
    BY <1>2, TieredAssumption DEF MapTypes
  <2>3. TierInv'
    BY <1>1, <1>2, <2>1 DEF TierInv
  <2>4. ASSUME NEW t \in DOMAIN fast' PROVE largestSlowTick < t /\ t <= pkt.tick
    <3>1. CASE t = pkt.tick
      BY <1>2, <2>1, <3>1
    <3>2. CASE t \in DOMAIN fast
      BY <1>2, <2>1, <2>2, <3>2
    <3> QED BY <1>4, <3>1, <3>2
  <2> QED BY <1>1, <2>1, <2>3, <2>4 DEF TiersOrdered
<1> QED BY <1>5, <1>6 DEF TiersInv

\* A step that adds to no map, after which the same or less is remembered.
LEMMA LessKeepsTiers ==
  ASSUME TiersInv,
         fast' \in [DOMAIN fast' -> Waiting],
         DOMAIN fast' \subseteq DOMAIN fast, DOMAIN slow' \subseteq DOMAIN slow,
         prevTick' \in Ticks \cup {NoTickYet},
         stats' \in [built : Nat, discarded : Nat, opened : Nat],
         claimed' \in -1 .. MaxSeq, upset \subseteq upset',
         pc' \notin {"recv", "exit"} => pc \notin {"recv", "exit"},
         pc' = "restart" => pc = "restart",
         pc' = "get" => pc \in {"restart", "get"},
         UNCHANGED <<pkt, largestTick, largestSlowTick, microSec, net, dumpBufs>>
  PROVE  TiersInv'
<1>1. MapTypes /\ TierInv /\ TiersOrdered
  BY DEF TiersInv
<1>2. MapTypes'
  BY <1>1 DEF MapTypes
<1>3. TierInv'
  BY <1>1 DEF TierInv
<1>4. TiersOrdered'
  BY <1>1 DEF TiersOrdered
<1> QED BY <1>2, <1>3, <1>4 DEF TiersInv

LEMMA WithoutTypes ==
  ASSUME MapTypes, NEW T, fast' = Without(fast, T)
  PROVE  fast' \in [DOMAIN fast' -> Waiting] /\ DOMAIN fast' \subseteq DOMAIN fast
BY DEF MapTypes, Without

LEMMA WithoutLess ==
  ASSUME NEW m, NEW T
  PROVE  DOMAIN Without(m, T) \subseteq DOMAIN m
BY DEF Without

LEMMA HandBackClaims ==
  ASSUME NEW ref, HandBack(ref)
  PROVE  claimed' = claimed
BY DEF HandBack, ReleaseItem, PublishItem

LEMMA CountsStats ==
  ASSUME MapTypes
  PROVE  /\ [stats EXCEPT !.built = @ + 1] \in [built : Nat, discarded : Nat, opened : Nat]
         /\ \A n \in Nat : [stats EXCEPT !.discarded = @ + n]
                              \in [built : Nat, discarded : Nat, opened : Nat]
         /\ [built |-> 0, discarded |-> 0, opened |-> 0]
                              \in [built : Nat, discarded : Nat, opened : Nat]
BY DEF MapTypes

LEMMA TiersStep ==
  ASSUME TiersInv, [Next]_vars
  PROVE  TiersInv'
<1>0. /\ MapTypes /\ fast \in [DOMAIN fast -> Waiting]
      /\ DOMAIN fast \subseteq Ticks /\ DOMAIN slow \subseteq Ticks
      /\ prevTick \in Ticks \cup {NoTickYet}
      /\ stats \in [built : Nat, discarded : Nat, opened : Nat]
      /\ claimed \in -1 .. MaxSeq
      /\ pc \notin {"recv", "exit"} => pkt.tick \in Ticks
  BY DEF TiersInv, MapTypes, Packets
<1>1. ASSUME NEW p \in net, NEW again \in BOOLEAN, Receive(p, again) PROVE TiersInv'
  BY <1>1, ReceiveKeepsTiers
<1>2. CASE RecvFails
  BY <1>0, <1>2, LessKeepsTiers, Zenon
     DEF RecvFails, supply, current, previous, maps, network
<1>3. CASE ClearOldest
  <2>1. claimed' = claimed
    BY <1>3, HandBackClaims, Zenon DEF ClearOldest
  <2>2. /\ fast' = Without(fast, {Oldest(fast)}) /\ upset \subseteq upset'
        /\ UNCHANGED <<pc, pkt, prevTick, slow, largestTick, largestSlowTick, microSec, net,
                       dumpBufs, stats>>
    BY <1>3, Zenon DEF ClearOldest, Remember, current, previous, network
  <2> QED BY <1>0, <2>1, <2>2, WithoutTypes, LessKeepsTiers, Zenon
<1>4. CASE ClearSlow
  <2>1. /\ slow' = << >> /\ upset' = upset /\ pc = "restart" /\ pc' = "get"
        /\ stats' = [built |-> 0, discarded |-> 0, opened |-> 0]
        /\ UNCHANGED <<fast, claimed, pkt, prevTick, largestTick, largestSlowTick, microSec,
                       net, dumpBufs>>
    BY <1>4, Zenon DEF ClearSlow, supply, current, previous, network
  <2>2. DOMAIN slow' \subseteq DOMAIN slow /\ pc \notin {"recv", "exit"} /\ pc' # "restart"
    BY <2>1, EmptyDomain
  <2> QED BY <1>0, <2>1, <2>2, CountsStats, LessKeepsTiers, Zenon
<1>5. CASE GetBuffer
  BY <1>5, GetKeepsTiers
<1>6. CASE MoveOldest
  <2>1. /\ MoveToSlow(Oldest(fast), InCopy(Oldest(fast))) /\ pc' = "store" /\ AboveLimit
        /\ pc = "limit"
    BY <1>6, Zenon DEF MoveOldest
  <2>2. claimed' = claimed /\ DOMAIN fast # {}
    BY <2>1, LimitNotEmpty, HandBackClaims, Zenon DEF MoveToSlow
  <2>3. pc' \in {"store", "expire"} /\ pc # "recv" /\ pc # "exit"
    BY <2>1
  <2> QED BY <2>1, <2>2, <2>3, MoveKeepsTiers, Zenon
<1>7. CASE BelowLimit
  BY <1>0, <1>7, LessKeepsTiers DEF BelowLimit, supply, current, previous, maps, network
<1>8. CASE IgnoreDuplicate
  BY <1>0, <1>8, LessKeepsTiers DEF IgnoreDuplicate, supply, current, previous, maps, network
<1>9. CASE StorePacket
  <2>1. /\ pc = "store" /\ pc' \in {"expire", "resurrect", "finish"}
        /\ prevTick' = pkt.tick
        /\ stats' = [stats EXCEPT !.built = @ + 1] \/ stats' = stats
        /\ UNCHANGED <<fast, slow, claimed, pkt, largestTick, largestSlowTick, microSec,
                       net, dumpBufs, upset>>
    BY <1>9 DEF StorePacket, supply, current, maps, network
  <2>2. stats' \in [built : Nat, discarded : Nat, opened : Nat]
    BY <1>0, <2>1, CountsStats, Zenon
  <2> QED BY <1>0, <2>1, <2>2, LessKeepsTiers
<1>10. CASE Finish
  <2>1. claimed' = claimed
    BY <1>10, HandBackClaims, Zenon DEF Finish
  <2>2. /\ fast' = Without(fast, {pkt.tick}) /\ upset \subseteq upset'
        /\ pc = "finish" /\ pc' = "expire"
        /\ UNCHANGED <<pkt, prevTick, slow, largestTick, largestSlowTick, microSec, net,
                       dumpBufs, stats>>
    BY <1>10, Zenon DEF Finish, FastAfterFinish, current, previous, network
  <2>3. fast' \in [DOMAIN fast' -> Waiting] /\ DOMAIN fast' \subseteq DOMAIN fast
    BY <1>0, <2>2, WithoutTypes, Zenon
  <2> QED BY <1>0, <2>1, <2>2, <2>3, LessKeepsTiers
<1>11. CASE Resurrect
  <2>1. /\ claimed' = claimed + 1 /\ claimed + 1 <= MaxSeq
        /\ pc = "resurrect" /\ pc' = "passOn"
        /\ UNCHANGED <<fast, slow, pkt, prevTick, largestTick, largestSlowTick, microSec,
                       net, dumpBufs, upset, stats>>
    BY <1>11 DEF Resurrect, S!Get, S!Claim, S!RoomFor, current, previous, maps, network
  <2>2. claimed' \in -1 .. MaxSeq
    BY <1>0, <2>1, TieredAssumption
  <2> QED BY <1>0, <2>1, <2>2, LessKeepsTiers
<1>12. CASE PassOn
  <2>1. claimed' = claimed
    BY <1>12, HandBackClaims, Zenon DEF PassOn
  <2>2. /\ slow' = Without(slow, {pkt.tick}) /\ upset \subseteq upset'
        /\ pc = "passOn" /\ pc' = "expire"
        /\ UNCHANGED <<fast, pkt, prevTick, largestTick, largestSlowTick, microSec, net,
                       dumpBufs, stats>>
    BY <1>12, Zenon DEF PassOn, Remember, current, previous, network
  <2>3. DOMAIN slow' \subseteq DOMAIN slow
    BY <2>2, WithoutLess, Zenon
  <2> QED BY <1>0, <2>1, <2>2, <2>3, LessKeepsTiers
<1>13. CASE MoveExpired
  <2>1. /\ MoveToSlow(Oldest(fast), InRing(fast[Oldest(fast)].slot)) /\ UNCHANGED pc
        /\ fast # << >> /\ pc = "expire"
    BY <1>13, Zenon DEF MoveExpired
  <2>2. claimed' = claimed /\ DOMAIN fast # {}
    BY <1>0, <2>1, NotEmpty, HandBackClaims, Zenon DEF MoveToSlow
  <2>3. pc' \in {"store", "expire"} /\ pc # "recv" /\ pc # "exit"
    BY <2>1
  <2> QED BY <2>1, <2>2, <2>3, MoveKeepsTiers, Zenon
<1>14. CASE DiscardExpired
  <2>1. /\ slow' = Without(slow, Expired)
        /\ stats' = [stats EXCEPT !.discarded = @ + Cardinality(Expired)]
        /\ pc' = "recv"
        /\ UNCHANGED <<fast, claimed, pkt, prevTick, largestTick, largestSlowTick, microSec,
                       net, dumpBufs, upset>>
    BY <1>14, Zenon DEF DiscardExpired, SlowAfterExpiry, supply, current, previous, network
  <2>2. Cardinality(Expired) \in Nat
    <3>1. Expired \subseteq Ticks
      BY <1>0 DEF Expired
    <3> QED BY <3>1, FiniteMaps, FS_CardinalityType, Zenon
  <2>3. DOMAIN slow' \subseteq DOMAIN slow
    BY <2>1, WithoutLess, Zenon
  <2>4. stats' \in [built : Nat, discarded : Nat, opened : Nat]
    BY <1>0, <2>1, <2>2, CountsStats, Zenon
  <2> QED BY <1>0, <2>1, <2>3, <2>4, LessKeepsTiers
<1>15. CASE ReadBuffer \/ ReleaseRead
  <2>1. claimed' = claimed
    BY <1>15 DEF ReadBuffer, ReleaseRead, S!ConsumerGet, ReleaseItem
  <2>2. UNCHANGED <<pc, fast, slow, pkt, prevTick, largestTick, largestSlowTick, microSec,
                    net, dumpBufs, upset, stats>>
    BY <1>15, Zenon DEF ReadBuffer, ReleaseRead, current, previous, maps, network
  <2> QED BY <1>0, <2>1, <2>2, LessKeepsTiers
<1>16. CASE UNCHANGED vars
  <2>1. UNCHANGED <<claimed, pc, fast, slow, pkt, prevTick, largestTick, largestSlowTick,
                    microSec, net, dumpBufs, upset, stats>>
    BY <1>16, Zenon DEF vars, supply, current, previous, maps, network
  <2> QED BY <1>0, <2>1, LessKeepsTiers
<1> QED BY <1>1, <1>2, <1>3, <1>4, <1>5, <1>6, <1>7, <1>8, <1>9, <1>10, <1>11, <1>12,
           <1>13, <1>14, <1>15, <1>16 DEF Next, Work, Finished

LEMMA TiersInit == Init => TiersInv
<1> SUFFICES ASSUME Init PROVE TiersInv
  OBVIOUS
<1>1. /\ claimed = -1 /\ pc = "recv" /\ fast = << >> /\ slow = << >>
      /\ prevTick = NoTickYet /\ largestTick = NoTickYet /\ largestSlowTick = NoTickYet
      /\ microSec = 0 /\ stats = [built |-> 0, discarded |-> 0, opened |-> 0]
      /\ dumpBufs \in DumpModes /\ net = Packets /\ upset = {}
  BY DEF Init, S!Init, Packets
<1>2. DOMAIN fast = {} /\ DOMAIN slow = {}
  BY <1>1, EmptyDomain
<1>3. fast \in [DOMAIN fast -> Waiting]
  BY <1>1
<1>4. claimed \in -1 .. MaxSeq /\ dumpBufs \in BOOLEAN
  BY <1>1, TieredAssumption
<1>5. MapTypes
  BY <1>1, <1>2, <1>3, <1>4 DEF MapTypes
<1>6. TierInv /\ TiersOrdered
  BY <1>1, <1>2 DEF TierInv, TiersOrdered, NoTickYet
<1> QED BY <1>5, <1>6 DEF TiersInv

LEMMA TiersAlways == Spec => []TiersInv
<1>1. TiersInv /\ [Next]_vars => TiersInv'
  BY TiersStep
<1> QED BY <1>1, TiersInit, PTL DEF Spec

\* The order of the maps by tick, on which the lookup relies
\* (packetBlasteeFullNewMP.cc:1213-1227), until the source restarts: every action
\* of the thread keeps it.
THEOREM TieredOrder == Spec => []TiersOrdered
<1>1. TiersInv => TiersOrdered
  BY DEF TiersInv
<1> QED BY <1>1, TiersAlways, PTL

-----------------------------------------------------------------------------
(* The buffers: a packet arrives.                                          *)

LEMMA Refs ==
  /\ \A i : InRing(i).copy = FALSE /\ InRing(i).at = i
  /\ \A t : InCopy(t).copy = TRUE /\ InCopy(t).at = t
  /\ NoItem.copy = FALSE
BY DEF InRing, InCopy, NoItem

LEMMA ItemsAt ==
  /\ \A i : Item(InRing(i)) = body[i]
  /\ \A t : Item(InCopy(t)) = copies[t].body
BY Refs, Zenon DEF Item

\* ref is the buffer of tick.
RefOf(ref, tick) == \/ tick \in Ticks /\ LiveCopy(tick) /\ ref = InCopy(tick)
                    \/ tick \in DOMAIN fast /\ ref = InRing(fast[tick].slot)

LEMMA BuildingItem ==
  ASSUME Contents, NEW tick, NEW ref, RefOf(ref, tick)
  PROVE  Building(Item(ref), tick)
<1>1. CASE tick \in Ticks /\ LiveCopy(tick) /\ ref = InCopy(tick)
  BY <1>1, ItemsAt, Zenon DEF Contents
<1>2. CASE tick \in DOMAIN fast /\ ref = InRing(fast[tick].slot)
  BY <1>2, ItemsAt, Zenon DEF Contents
<1> QED BY <1>1, <1>2 DEF RefOf

LEMMA BelongsRef ==
  ASSUME NEW tick, Belongs(tick)
  PROVE  RefOf(bufItem, tick)
BY DEF Belongs, RefOf, LiveCopy

\* A step that leaves the supply alone.
RingStays == /\ UNCHANGED <<items, claimed, cursor, sequence, lastSequenceReleased,
                            maxSequence, between, nextConsumerSequence,
                            availableConsumerSequence, filling, users, done>>
             /\ UNCHANGED dumpBufs

LEMMA RingSame ==
  ASSUME RingInv, RingStays
  PROVE  RingInv'
<1> USE DEF RingStays
<1>1. RingTypes'
  BY DEF RingInv, RingTypes
<1>2. S!GateInv' /\ S!ReleasedInv' /\ S!BetweenCounts'
  BY DEF RingInv, S!GateInv, S!ReleasedInv, S!BetweenCounts
<1>3. FillingInv'
  BY DEF RingInv, FillingInv
<1> QED BY <1>1, <1>2, <1>3 DEF RingInv

LEMMA EachSame ==
  ASSUME OneEach, UNCHANGED <<filling, claimed, fast>>, pc # "passOn", pc' # "passOn"
  PROVE  OneEach'
BY DEF OneEach

LEMMA SupplyStays ==
  ASSUME UNCHANGED supply, UNCHANGED dumpBufs
  PROVE  RingStays
BY DEF supply, RingStays

\* What recv() and the lookup of the tick do.
Looked(p) ==
    \/ /\ p.tick = prevTick /\ pc' = "store"
       /\ bufItem' = bufItem /\ ~fromSlowMap'
    \/ /\ p.tick \in DOMAIN slow /\ pc' = "limit"
       /\ bufItem' = slow[p.tick].ref /\ bufItem'.copy
    \/ /\ p.tick \in DOMAIN fast /\ pc' = "limit"
       /\ bufItem' = InRing(fast[p.tick].slot) /\ ~fromSlowMap'
    \/ /\ pc' = "recv"
       /\ bufItem' = prevBufItem /\ ~fromSlowMap'
    \/ /\ pc' \in {"restart", "exit"}
       /\ bufItem' = NoItem /\ ~fromSlowMap'
    \/ /\ p.tick > largestTick /\ pc' = "get"
       /\ bufItem' = NoItem /\ ~fromSlowMap'

LEMMA LookedUp ==
  ASSUME NEW p \in net, NEW again \in BOOLEAN, Receive(p, again), Clean'
  PROVE  Looked(p)
<1>1. CASE ReceiveSameTick(p, again)
  BY <1>1, Zenon DEF ReceiveSameTick, Looked
<1>2. CASE ReceiveKnownTick(p, again)
  <2>1. /\ Known(p.tick) /\ pc' = "limit"
        /\ fromSlowMap' = InSlow(p.tick)
        /\ bufItem' = IF InSlow(p.tick) THEN slow[p.tick].ref
                                        ELSE InRing(fast[p.tick].slot)
        /\ fromSlowMap' /\ ~bufItem'.copy => "alias" \in upset'
    BY <1>2, Zenon DEF ReceiveKnownTick
  <2>2. "alias" \notin upset'
    BY DEF Clean
  <2>3. CASE InSlow(p.tick)
    <3>1. p.tick \in DOMAIN slow /\ bufItem' = slow[p.tick].ref /\ bufItem'.copy
      BY <2>1, <2>2, <2>3, Zenon DEF InSlow
    <3> QED BY <2>1, <3>1, Zenon DEF Looked
  <2>4. CASE ~InSlow(p.tick)
    <3>1. p.tick \in DOMAIN fast /\ bufItem' = InRing(fast[p.tick].slot)
      BY <2>1, <2>4, Zenon DEF Known, InFast
    <3>2. ~fromSlowMap'
      BY <2>1, <2>4, Zenon
    <3> QED BY <2>1, <3>1, <3>2, Zenon DEF Looked
  <2> QED BY <2>3, <2>4
<1>3. CASE ReceiveLateTick(p, again)
  BY <1>3, Zenon DEF ReceiveLateTick, AfterLatePacket, Looked
<1>4. CASE ReceiveRestart(p, again)
  <2>1. pc' \in {"restart", "exit"} /\ bufItem' = NoItem /\ fromSlowMap' = FALSE
    BY <1>4 DEF ReceiveRestart
  <2>2. ~fromSlowMap'
    BY <2>1
  <2> QED BY <2>1, <2>2, Zenon DEF Looked
<1>5. CASE ReceiveNewTick(p, again)
  BY <1>5, Zenon DEF ReceiveNewTick, Looked
<1> QED BY <1>1, <1>2, <1>3, <1>4, <1>5 DEF Receive

LEMMA ReceiveKeepsSound ==
  ASSUME MapTypes, Sound, NEW p \in net, NEW again \in BOOLEAN, Receive(p, again), Clean'
  PROVE  Sound'
<1>0. /\ RingInv /\ OneEach /\ Highest /\ Begun /\ Linked /\ Contents /\ Arrived
      /\ net \subseteq Packets /\ p \in Packets /\ p.tick \in Ticks
  BY DEF Sound, MapTypes, Packets
<1>1. ~again
  BY DEF Receive, ReceiveSameTick, ReceiveKnownTick, ReceiveLateTick, ReceiveRestart,
         ReceiveNewTick, Clean, Remember
<1>2. Recv(p, again)
  BY DEF Receive, ReceiveSameTick, ReceiveKnownTick, ReceiveLateTick, ReceiveRestart,
         ReceiveNewTick
<1>3. /\ pc = "recv" /\ net' = net \ {p} /\ pkt' = p
      /\ UNCHANGED supply
      /\ UNCHANGED <<body, copies, prevTick, prevBufItem, fast, slow, largestTick, microSec,
                     dumpBufs>>
  BY <1>1, <1>2, Zenon DEF Recv, storage, previous, maps
<1>4. Looked(p)
  BY LookedUp
<1>5. /\ pc' \in {"store", "limit", "recv", "restart", "exit", "get"}
      /\ pc' = "get" => p.tick > largestTick
  BY <1>4 DEF Looked
<1>6. RingInv' /\ OneEach'
  <2>1. RingStays
    BY <1>3, SupplyStays
  <2>2. UNCHANGED <<filling, claimed, fast>> /\ pc # "passOn" /\ pc' # "passOn"
    BY <1>3, <1>5, <2>1 DEF RingStays
  <2> QED BY <1>0, <2>1, <2>2, RingSame, EachSame
<1>7. pc' \in {"store", "limit"} => RefOf(bufItem', p.tick)
  <2>1. CASE p.tick = prevTick /\ pc' = "store" /\ bufItem' = bufItem
    <3>1. Belongs(prevTick)
      BY <1>0, <1>3, <2>1 DEF Linked
    <3> QED BY <2>1, <3>1, BelongsRef
  <2>2. CASE p.tick \in DOMAIN slow /\ bufItem' = slow[p.tick].ref /\ bufItem'.copy
    <3>1. slow[p.tick].ref = InCopy(p.tick)
      BY <1>0, <2>2 DEF Contents
    <3> QED BY <1>0, <2>2, <3>1 DEF RefOf, LiveCopy
  <2>3. CASE p.tick \in DOMAIN fast /\ bufItem' = InRing(fast[p.tick].slot)
    BY <2>3 DEF RefOf
  <2> QED BY <1>4, <2>1, <2>2, <2>3 DEF Looked
<1>8. \A t \in Ticks : bufItem' = InCopy(t) => LiveCopy(t)
  <2> SUFFICES ASSUME NEW t \in Ticks, bufItem' = InCopy(t) PROVE LiveCopy(t)
    OBVIOUS
  <2>1. bufItem' = bufItem => LiveCopy(t)
    BY DEF LiveCopy
  <2>2. bufItem' # NoItem /\ \A i : bufItem' # InRing(i)
    BY Refs, Zenon
  <2>3. bufItem = prevBufItem
    BY <1>0, <1>3 DEF Linked
  <2>4. ASSUME p.tick \in DOMAIN slow, bufItem' = slow[p.tick].ref, bufItem'.copy
        PROVE  LiveCopy(t)
    <3>1. bufItem' = InCopy(p.tick)
      BY <1>0, <2>4 DEF Contents
    <3>2. t = p.tick
      <4>1. InCopy(t) = InCopy(p.tick)
        BY <3>1
      <4> QED BY <4>1 DEF InCopy
    <3> QED BY <2>4, <3>1, <3>2 DEF LiveCopy
  <2> QED BY <1>4, <2>1, <2>2, <2>3, <2>4 DEF Looked
<1>9. Highest'
  <2>1. AboveLimit' <=> AboveLimit
    BY <1>3 DEF AboveLimit
  <2>2. ~AboveLimit
    BY <1>0, <1>3 DEF Highest
  <2>3. \A t \in DOMAIN fast \cup DOMAIN slow : t <= largestTick /\ t \in Nat
    BY <1>0, TieredAssumption DEF Highest, MapTypes
  <2>4. largestTick \in Int /\ p.tick \in Nat
    BY <1>0, TieredAssumption DEF MapTypes, NoTickYet
  <2>5. pc' = "get" => \A t \in DOMAIN fast \cup DOMAIN slow : t < p.tick
    BY <1>5, <2>3, <2>4
  <2>6. Cardinality(DOMAIN fast) <= FastMapMax + 1
    BY <1>0 DEF Highest
  <2> QED BY <1>3, <2>1, <2>2, <2>3, <2>5, <2>6 DEF Highest
<1>10. Linked'
  <2>1. pc' \in {"limit", "store"} => Belongs(p.tick)'
    BY <1>3, <1>7 DEF RefOf, Belongs
  <2>2. pc' = "recv" => /\ bufItem' = bufItem /\ bufItem' = prevBufItem
                        /\ Belongs(prevTick) \/ \A q \in net : q.tick # prevTick
    BY <1>0, <1>3, <1>4 DEF Linked, Looked
  <2>3. pc' = "recv" => /\ bufItem' = prevBufItem'
                        /\ Belongs(prevTick)' \/ \A q \in net' : q.tick # prevTick'
    BY <1>3, <2>2 DEF Belongs
  <2>4. pc' \in {"restart", "get"} => ~fromSlowMap'
    BY <1>4 DEF Looked
  <2>5. pc' \in {"limit", "store"} /\ fromSlowMap'
           => p.tick \in DOMAIN slow /\ bufItem' = InCopy(p.tick)
    BY <1>0, <1>4 DEF Looked, Contents
  <2> QED BY <1>3, <1>5, <2>1, <2>3, <2>4, <2>5 DEF Linked
<1>11. Begun'
  <2>1. \A t \in DOMAIN fast : Recent(t) /\ Recent(t)'
    BY <1>0, <1>3 DEF Begun, Recent, TooLong
  <2>2. pc' \in {"limit", "store"} /\ ~bufItem'.copy => p.tick \in DOMAIN fast
    BY <1>7, Refs DEF RefOf
  <2>3. /\ \A t \in DOMAIN fast : fast[t].time <= microSec
        /\ \A t, u \in DOMAIN fast : t < u => fast[t].time <= fast[u].time
    BY <1>0 DEF Begun
  <2> QED BY <1>3, <1>5, <2>1, <2>2, <2>3 DEF Begun
<1>12. \A item, t : Building(item, t) => BuildingWith(item, t, net')
  BY <1>3 DEF Building, BuildingWith
<1>13. Contents'
  <2>1. \A t \in DOMAIN fast' : Building(body[fast[t].slot], t)'
    BY <1>0, <1>3, <1>12 DEF Contents, Building
  <2>2. \A t \in Ticks : LiveCopy(t)' => LiveCopy(t)
    BY <1>3, <1>8 DEF LiveCopy
  <2>3. \A t \in Ticks : LiveCopy(t)' => Building(copies[t].body, t)'
    BY <1>0, <1>3, <1>12, <2>2 DEF Contents, Building
  <2> QED BY <1>0, <1>3, <2>1, <2>3 DEF Contents
<1>14. Arrived'
  <2>1. pkt' \notin net'
    BY <1>3
  <2>2. pc' \in {"limit", "store"} => pkt'.offset \notin Item(bufItem)'.offsets
    <3> SUFFICES ASSUME pc' \in {"limit", "store"} PROVE pkt'.offset \notin Item(bufItem)'.offsets
      OBVIOUS
    <3>1. Building(Item(bufItem'), p.tick)
      BY <1>0, <1>7, BuildingItem
    <3>2. Item(bufItem)' = Item(bufItem')
      BY <1>3, Zenon DEF Item
    <3> QED BY <1>3, <3>1, <3>2 DEF Building, BuildingWith
  <2>3. \A t \in DOMAIN fast : body[fast[t].slot].offsets # OffsetsOf(t)
    BY <1>0, <1>3 DEF Arrived
  <2> QED BY <1>3, <1>5, <2>1, <2>2, <2>3 DEF Arrived
<1> QED BY <1>6, <1>9, <1>10, <1>11, <1>13, <1>14 DEF Sound

-----------------------------------------------------------------------------
(* The buffers: steps that write to none of them.                          *)

\* The slow map loses events at most.
SlowLess == /\ DOMAIN slow' \subseteq DOMAIN slow
            /\ \A t \in DOMAIN slow' : slow'[t] = slow[t]

LEMMA ContentsSame ==
  ASSUME Contents, SlowLess, UNCHANGED <<body, copies, bufItem, fast, net>>
  PROVE  Contents'
<1>1. \A t \in Ticks : LiveCopy(t)' => LiveCopy(t)
  BY DEF LiveCopy, SlowLess
<1>2. \A t \in Ticks : LiveCopy(t)' => Building(copies[t].body, t)'
  BY <1>1 DEF Contents, Building
<1>3. \A t \in DOMAIN fast' : Building(body[fast[t].slot], t)'
  BY DEF Contents, Building
<1>4. \A t \in DOMAIN slow' : slow'[t].ref.copy => slow'[t].ref = InCopy(t)
  BY DEF Contents, SlowLess
<1> QED BY <1>2, <1>3, <1>4 DEF Contents

LEMMA HighestSame ==
  ASSUME Highest, SlowLess, UNCHANGED <<fast, bufItem, pkt, largestTick>>,
         pc' # "get", pc' # "limit", ~AboveLimit
  PROVE  Highest'
<1>1. ~AboveLimit'
  BY DEF AboveLimit
<1> QED BY <1>1 DEF Highest, SlowLess

LEMMA BelowKeepsSound ==
  ASSUME MapTypes, Sound, BelowLimit
  PROVE  Sound'
<1>0. /\ RingInv /\ OneEach /\ Highest /\ Begun /\ Linked /\ Contents /\ Arrived
  BY DEF Sound
<1>1. /\ pc = "limit" /\ pc' = "store" /\ ~AboveLimit
      /\ UNCHANGED supply
      /\ UNCHANGED <<body, copies, bufItem, fromSlowMap, pkt, prevTick, prevBufItem, fast,
                     slow, largestTick, microSec, dumpBufs, net>>
  BY Zenon DEF BelowLimit, storage, current, previous, maps, network
<1>2. RingStays /\ SlowLess
  BY <1>1, SupplyStays DEF SlowLess
<1>3. RingInv' /\ OneEach'
  <2>1. UNCHANGED <<filling, claimed, fast>> /\ pc # "passOn" /\ pc' # "passOn"
    BY <1>1, <1>2 DEF RingStays
  <2> QED BY <1>0, <1>2, <2>1, RingSame, EachSame
<1>4. Highest' /\ Contents'
  BY <1>0, <1>1, <1>2, HighestSame, ContentsSame
<1>5. Begun'
  BY <1>0, <1>1 DEF Begun, Recent, TooLong
<1>6. Linked'
  BY <1>0, <1>1 DEF Linked, Belongs
<1>7. Arrived'
  BY <1>0, <1>1 DEF Arrived, Item
<1> QED BY <1>3, <1>4, <1>5, <1>6, <1>7 DEF Sound

LEMMA FailKeepsSound ==
  ASSUME MapTypes, Sound, RecvFails
  PROVE  Sound'
<1>0. /\ RingInv /\ OneEach /\ Highest /\ Begun /\ Linked /\ Contents /\ Arrived
  BY DEF Sound
<1>1. /\ pc = "recv" /\ pc' = "exit"
      /\ UNCHANGED supply
      /\ UNCHANGED <<body, copies, bufItem, fromSlowMap, pkt, prevTick, prevBufItem, fast,
                     slow, largestTick, microSec, dumpBufs, net>>
  BY Zenon DEF RecvFails, storage, current, previous, maps, network
<1>2. RingStays /\ SlowLess
  BY <1>1, SupplyStays DEF SlowLess
<1>3. RingInv' /\ OneEach'
  <2>1. UNCHANGED <<filling, claimed, fast>> /\ pc # "passOn" /\ pc' # "passOn"
    BY <1>1, <1>2 DEF RingStays
  <2> QED BY <1>0, <1>2, <2>1, RingSame, EachSame
<1>4. Highest' /\ Contents'
  <2>1. ~AboveLimit
    BY <1>0, <1>1 DEF Highest
  <2> QED BY <1>0, <1>1, <1>2, <2>1, HighestSame, ContentsSame
<1>5. Begun'
  BY <1>0, <1>1 DEF Begun
<1>6. Linked'
  BY <1>1 DEF Linked
<1>7. Arrived'
  BY <1>0, <1>1 DEF Arrived
<1> QED BY <1>3, <1>4, <1>5, <1>6, <1>7 DEF Sound

LEMMA ClearSlowKeepsSound ==
  ASSUME MapTypes, Sound, ClearSlow
  PROVE  Sound'
<1>0. /\ RingInv /\ OneEach /\ Highest /\ Begun /\ Linked /\ Contents /\ Arrived
  BY DEF Sound
<1>1. /\ pc = "restart" /\ pc' = "get" /\ fast = << >> /\ slow' = << >>
      /\ UNCHANGED supply
      /\ UNCHANGED <<body, copies, bufItem, fromSlowMap, pkt, prevTick, prevBufItem, fast,
                     largestTick, microSec, dumpBufs, net>>
  BY Zenon DEF ClearSlow, storage, current, previous, network
<1>2. DOMAIN fast' = {} /\ DOMAIN slow' = {} /\ DOMAIN fast = {}
  BY <1>1, EmptyDomain
<1>3. RingStays /\ SlowLess
  BY <1>1, <1>2, SupplyStays DEF SlowLess
<1>4. RingInv' /\ OneEach'
  <2>1. UNCHANGED <<filling, claimed, fast>> /\ pc # "passOn" /\ pc' # "passOn"
    BY <1>1, <1>3 DEF RingStays
  <2> QED BY <1>0, <1>3, <2>1, RingSame, EachSame
<1>5. Highest'
  <2>1. ~AboveLimit' /\ Cardinality(DOMAIN fast') <= FastMapMax + 1
    <3>1. Cardinality(DOMAIN fast') = 0
      BY <1>2, FS_EmptySet, Zenon
    <3> QED BY <3>1, TieredAssumption DEF AboveLimit
  <2> QED BY <1>1, <1>2, <2>1 DEF Highest
<1>6. Contents'
  BY <1>0, <1>1, <1>3, ContentsSame
<1>7. Begun'
  BY <1>1, <1>2 DEF Begun
<1>8. Linked'
  BY <1>0, <1>1 DEF Linked
<1>9. Arrived'
  BY <1>0, <1>1, <1>2 DEF Arrived
<1> QED BY <1>4, <1>5, <1>6, <1>7, <1>8, <1>9 DEF Sound

LEMMA DiscardKeepsSound ==
  ASSUME MapTypes, Sound, DiscardExpired
  PROVE  Sound'
<1>0. /\ RingInv /\ OneEach /\ Highest /\ Begun /\ Linked /\ Contents /\ Arrived
      /\ DOMAIN fast \subseteq Ticks /\ microSec \in Nat
      /\ \A t \in DOMAIN fast : fast[t].time \in Nat
  BY DEF Sound, MapTypes, Waiting
<1>1. /\ pc = "expire" /\ pc' = "recv"
      /\ fast # << >> => ~TooLong(fast[Oldest(fast)].time)
      /\ slow' = Without(slow, Expired)
      /\ UNCHANGED supply
      /\ UNCHANGED <<body, copies, bufItem, fromSlowMap, pkt, prevTick, prevBufItem, fast,
                     largestTick, microSec, dumpBufs, net>>
  BY Zenon DEF DiscardExpired, SlowAfterExpiry, storage, current, previous, network
<1>2. RingStays /\ SlowLess
  <2>1. IsWithout(slow', slow, Expired)
    BY <1>1, MapWithout, Zenon
  <2> QED BY <1>1, <2>1, SupplyStays DEF SlowLess, IsWithout
<1>3. RingInv' /\ OneEach'
  <2>1. UNCHANGED <<filling, claimed, fast>> /\ pc # "passOn" /\ pc' # "passOn"
    BY <1>1, <1>2 DEF RingStays
  <2> QED BY <1>0, <1>2, <2>1, RingSame, EachSame
<1>4. Highest' /\ Contents'
  <2>1. ~AboveLimit
    BY <1>0, <1>1 DEF Highest
  <2> QED BY <1>0, <1>1, <1>2, <2>1, HighestSame, ContentsSame
<1>5. \A t \in DOMAIN fast : Recent(t)
  <2> SUFFICES ASSUME NEW t \in DOMAIN fast PROVE Recent(t)
    OBVIOUS
  <2> DEFINE oldest == Oldest(fast)
  <2>1. oldest \in DOMAIN fast /\ oldest <= t /\ oldest \in Nat /\ t \in Nat
    BY <1>0, OldestIn, TieredAssumption
  <2>2. fast # << >>
    BY EmptyDomain
  <2>3. ~TooLong(fast[oldest].time)
    BY <1>1, <2>2
  <2> HIDE DEF oldest
  <2>4. fast[oldest].time <= fast[t].time
    <3>1. CASE oldest = t
      BY <1>0, <2>1, <3>1
    <3>2. CASE oldest # t
      BY <1>0, <2>1, <3>2 DEF Begun
    <3> QED BY <3>1, <3>2
  <2>5. FastStore \in Nat /\ fast[oldest].time \in Nat /\ fast[t].time \in Nat
    BY <1>0, <2>1, TieredAssumption
  <2> QED BY <1>0, <2>3, <2>4, <2>5 DEF Recent, TooLong
<1>6. Begun'
  BY <1>0, <1>1, <1>5 DEF Begun, Recent, TooLong
<1>7. Linked'
  BY <1>0, <1>1 DEF Linked, Belongs
<1>8. Arrived'
  BY <1>0, <1>1 DEF Arrived
<1> QED BY <1>3, <1>4, <1>6, <1>7, <1>8 DEF Sound

\* Without duplicates no packet is met twice.
LEMMA NoDuplicate ==
  ASSUME Sound
  PROVE  ~IgnoreDuplicate
BY DEF Sound, Arrived, IgnoreDuplicate

\* The reader's steps, and none at all.
LEMMA ReaderKeepsSound ==
  ASSUME MapTypes, Sound, ReadBuffer \/ ReleaseRead \/ UNCHANGED vars
  PROVE  Sound'
<1>0. /\ RingInv /\ OneEach /\ Highest /\ Begun /\ Linked /\ Contents /\ Arrived
  BY DEF Sound
<1>1. UNCHANGED <<pc, body, copies, bufItem, fromSlowMap, pkt, prevTick, prevBufItem, fast,
                  slow, largestTick, microSec, dumpBufs, net>>
  BY Zenon DEF ReadBuffer, ReleaseRead, vars, storage, current, previous, maps, network
<1>2. RingInv' /\ filling' = filling /\ claimed' = claimed
  <2>1. CASE ReadBuffer \/ ReleaseRead
    <3>1. ~dumpBufs /\ (S!ConsumerGet \/ \E s \in S!Seqs : users[s] > 0 /\ ReleaseItem(s))
      BY <2>1, Zenon DEF ReadBuffer, ReleaseRead
    <3> QED BY <1>0, <1>1, <3>1, RingRead
  <2>2. CASE UNCHANGED vars
    <3>1. RingStays
      BY <2>2, SupplyStays, Zenon DEF vars
    <3> QED BY <1>0, <3>1, RingSame DEF RingStays
  <2> QED BY <2>1, <2>2
<1>3. OneEach' /\ Highest' /\ Begun' /\ Linked'
  <2>1. OneEach'
    BY <1>0, <1>1, <1>2 DEF OneEach
  <2>2. Highest'
    BY <1>0, <1>1 DEF Highest, AboveLimit
  <2>3. Begun'
    BY <1>0, <1>1 DEF Begun, Recent, TooLong
  <2>4. Linked'
    BY <1>0, <1>1 DEF Linked, Belongs
  <2> QED BY <2>1, <2>2, <2>3, <2>4
<1>4. Contents'
  <2>1. SlowLess
    BY <1>1 DEF SlowLess
  <2> QED BY <1>0, <1>1, <2>1, ContentsSame
<1>5. Arrived'
  BY <1>0, <1>1 DEF Arrived, Item
<1> QED BY <1>2, <1>3, <1>4, <1>5 DEF Sound

-----------------------------------------------------------------------------
(* The buffers: an event leaves the fast map.                              *)

\* The buffer of tick has gone back, and the other buffers are as before.
TakenOut(tick) ==
    /\ RingInv' /\ OneEach'
    /\ body' \in [S!Slots -> Bodies]
    /\ DOMAIN fast' = DOMAIN fast \ {tick}
    /\ \A t \in DOMAIN fast' : /\ fast'[t] = fast[t]
                               /\ body'[fast[t].slot] = body[fast[t].slot]

LEMMA TakeOut ==
  ASSUME MapTypes, RingInv, OneEach, body \in [S!Slots -> Bodies],
         NEW tick \in DOMAIN fast,
         HandBack(InRing(fast[tick].slot)), ~OutOfOrder(InRing(fast[tick].slot)),
         \/ body' = body
         \/ body' = [body EXCEPT ![fast[tick].slot].isValidData = FALSE],
         fast' = Without(fast, {tick}), dumpBufs' = dumpBufs,
         pc # "passOn", pc' # "passOn"
  PROVE  TakenOut(tick)
<1> DEFINE slot == fast[tick].slot
<1>1. /\ DOMAIN fast' = DOMAIN fast \ {tick}
      /\ \A t \in DOMAIN fast' : fast'[t] = fast[t]
  <2>1. IsWithout(fast', fast, {tick})
    BY MapWithout, Zenon
  <2> QED BY <2>1 DEF IsWithout
<1>2. slot \in S!Slots /\ \A t \in DOMAIN fast : fast[t].slot \in S!Slots
  BY DEF MapTypes, Waiting
<1>3. \A t \in DOMAIN fast' : fast[t].slot # slot
  BY <1>1 DEF OneEach
<1>4. PICK seq \in filling : slot = S!Slot(seq)
  BY DEF OneEach
<1>5. items[slot].producerSequence = seq /\ seq \in Nat
  <2>1. items[S!Slot(seq)].producerSequence = seq
    BY <1>4 DEF RingInv, FillingInv
  <2>2. seq \in Nat
    BY <1>4, FillingSeqs
  <2> HIDE DEF slot
  <2> QED BY <1>4, <2>1, <2>2
<1>6. ProducerSequence(InRing(slot)) = seq
  BY <1>5, Refs, Zenon DEF ProducerSequence
<1>7. IF dumpBufs THEN ReleaseItem(seq) ELSE PublishItem(seq)
  <2>1. HandBack(InRing(slot))
    OBVIOUS
  <2> QED BY <1>6, <2>1, Zenon DEF HandBack
<1>8. dumpBufs \/ \A r \in filling : ~(r < seq)
  <2>1. ~OutOfOrder(InRing(slot))
    OBVIOUS
  <2> QED BY <1>6, <2>1, Zenon DEF OutOfOrder
<1>9. RingInv' /\ filling' = filling \ {seq} /\ claimed' = claimed
  BY <1>4, <1>7, <1>8, RingHandBack
<1> HIDE DEF slot
<1>10. body' \in [S!Slots -> Bodies] /\ \A i \in S!Slots : i # slot => body'[i] = body[i]
  <2>1. CASE body' = body
    BY <2>1
  <2>2. CASE body' = [body EXCEPT ![slot].isValidData = FALSE]
    <3> DEFINE item == body[slot]
               now  == [item EXCEPT !.isValidData = FALSE]
    <3>1. item \in Bodies
      BY <1>2
    <3> HIDE DEF item
    <3>2. now \in Bodies
      BY <3>1 DEF Bodies
    <3>3. body' = [body EXCEPT ![slot] = now]
      BY <2>2, Zenon DEF item
    <3> HIDE DEF now
    <3> QED BY <1>2, <3>2, <3>3
  <2> QED BY <2>1, <2>2 DEF slot
<1>11. OneEach'
  <2>1. ASSUME NEW t \in DOMAIN fast' PROVE \E s \in filling' : fast'[t].slot = S!Slot(s)
    <3>1. PICK s \in filling : fast[t].slot = S!Slot(s)
      BY <1>1, <2>1 DEF OneEach
    <3>2. s # seq
      BY <1>3, <1>4, <2>1, <3>1
    <3> QED BY <1>1, <1>9, <2>1, <3>1, <3>2
  <2>2. \A t, u \in DOMAIN fast' : fast'[t].slot = fast'[u].slot => t = u
    BY <1>1 DEF OneEach
  <2>3. ASSUME NEW s \in filling' PROVE \E t \in DOMAIN fast' : fast'[t].slot = S!Slot(s)
    <3>1. s \in filling /\ s # seq
      BY <1>9, <2>3
    <3>2. PICK t \in DOMAIN fast : fast[t].slot = S!Slot(s)
      BY <3>1 DEF OneEach
    <3>3. t # tick
      BY <1>4, <3>1, <3>2, FillingApart DEF slot
    <3> QED BY <1>1, <3>2, <3>3
  <2> QED BY <2>1, <2>2, <2>3 DEF OneEach
<1> QED BY <1>1, <1>2, <1>3, <1>9, <1>10, <1>11 DEF TakenOut

\* One event less is in the fast map.
LEMMA OneLess ==
  ASSUME MapTypes, Highest, NEW tick \in DOMAIN fast, DOMAIN fast' = DOMAIN fast \ {tick}
  PROVE  ~AboveLimit' /\ Cardinality(DOMAIN fast') <= FastMapMax + 1
<1>1. IsFiniteSet(DOMAIN fast)
  BY FiniteMaps DEF MapTypes
<1>2. Cardinality(DOMAIN fast') = Cardinality(DOMAIN fast) - 1
      /\ Cardinality(DOMAIN fast) \in Nat
  BY <1>1, FS_RemoveElement, FS_CardinalityType
<1>3. Cardinality(DOMAIN fast) <= FastMapMax + 1 /\ FastMapMax \in Int
  BY TieredAssumption DEF Highest
<1> QED BY <1>2, <1>3 DEF AboveLimit

\* The contents of the other buffers stay.
LEMMA ContentsLess ==
  ASSUME Contents, NEW tick, TakenOut(tick), SlowLess, UNCHANGED <<copies, bufItem, net>>
  PROVE  Contents'
<1>1. \A t \in Ticks : LiveCopy(t)' => LiveCopy(t)
  BY DEF LiveCopy, SlowLess
<1>2. \A t \in Ticks : LiveCopy(t)' => Building(copies[t].body, t)'
  BY <1>1 DEF Contents, Building
<1>3. \A t \in DOMAIN fast' : Building(body[fast[t].slot], t)'
  BY DEF Contents, Building, TakenOut
<1>4. \A t \in DOMAIN slow' : slow'[t].ref.copy => slow'[t].ref = InCopy(t)
  BY DEF Contents, SlowLess
<1>5. body' \in [S!Slots -> Bodies] /\ copies' \in [Ticks -> Copies]
  BY DEF Contents, TakenOut
<1> QED BY <1>2, <1>3, <1>4, <1>5 DEF Contents

\* No other event becomes complete.
LEMMA NoneCompleted ==
  ASSUME NEW tick, TakenOut(tick), Arrived, pc = "finish" => tick = pkt.tick
  PROVE  \A t \in DOMAIN fast' : body'[fast'[t].slot].offsets # OffsetsOf(t)
BY DEF TakenOut, Arrived

LEMMA InvalidatedBody ==
  ASSUME NEW slot, body' = Invalidated(slot)
  PROVE  body' = body \/ body' = [body EXCEPT ![slot].isValidData = FALSE]
BY DEF Invalidated

\* The times at which the other events began stay.
LEMMA BegunLess ==
  ASSUME Begun, NEW tick, TakenOut(tick), microSec' = microSec
  PROVE  /\ \A t \in DOMAIN fast' : fast'[t].time <= microSec'
         /\ \A t, u \in DOMAIN fast' : t < u => fast'[t].time <= fast'[u].time
         /\ \A t \in DOMAIN fast' : Recent(t) => Recent(t)'
BY DEF Begun, TakenOut, Recent, TooLong

LEMMA ClearOldestKeepsSound ==
  ASSUME MapTypes, Sound, ClearOldest, Clean'
  PROVE  Sound'
<1> DEFINE tick == Oldest(fast)
           slot == fast[tick].slot
<1>0. /\ RingInv /\ OneEach /\ Highest /\ Begun /\ Linked /\ Contents /\ Arrived
  BY DEF Sound
<1>1. /\ pc = "restart" /\ pc' = "restart" /\ fast # << >>
      /\ HandBack(InRing(slot))
      /\ OutOfOrder(InRing(slot)) => "outOfOrder" \in upset'
      /\ body' = Invalidated(slot)
      /\ fast' = Without(fast, {tick})
      /\ UNCHANGED <<copies, bufItem, fromSlowMap, pkt, prevTick, prevBufItem,
                     slow, largestTick, microSec, dumpBufs, net>>
  BY Zenon DEF ClearOldest, Remember, current, previous, network
<1>2. tick \in DOMAIN fast
  BY <1>1, NotEmpty, OldestIn DEF MapTypes
<1>3. TakenOut(tick)
  <2>1. ~OutOfOrder(InRing(slot))
    BY <1>1 DEF Clean
  <2>2. body' = body \/ body' = [body EXCEPT ![slot].isValidData = FALSE]
    BY <1>1, InvalidatedBody, Zenon
  <2>3. body \in [S!Slots -> Bodies] /\ pc # "passOn" /\ pc' # "passOn"
    BY <1>0, <1>1 DEF Contents
  <2> HIDE DEF tick
  <2> QED BY <1>0, <1>1, <1>2, <2>1, <2>2, <2>3, TakeOut, Zenon DEF slot
<1> HIDE DEF tick, slot
<1>4. RingInv' /\ OneEach'
  BY <1>3, Zenon DEF TakenOut
<1>5. DOMAIN fast' = DOMAIN fast \ {tick} /\ DOMAIN fast' \subseteq DOMAIN fast
  BY <1>3 DEF TakenOut
<1>6. Highest'
  <2>1. ~AboveLimit' /\ Cardinality(DOMAIN fast') <= FastMapMax + 1
    BY <1>0, <1>2, <1>5, OneLess
  <2> QED BY <1>0, <1>1, <1>5, <2>1 DEF Highest
<1>7. Begun'
  <2>1. /\ \A t \in DOMAIN fast' : fast'[t].time <= microSec'
        /\ \A t, u \in DOMAIN fast' : t < u => fast'[t].time <= fast'[u].time
        /\ \A t \in DOMAIN fast' : Recent(t) => Recent(t)'
    BY <1>0, <1>1, <1>3, BegunLess
  <2>2. \A t \in DOMAIN fast : Recent(t)
    BY <1>0, <1>1 DEF Begun
  <2> QED BY <1>1, <1>5, <2>1, <2>2 DEF Begun
<1>8. Linked'
  BY <1>0, <1>1 DEF Linked
<1>9. Contents'
  <2>1. SlowLess
    BY <1>1 DEF SlowLess
  <2> QED BY <1>0, <1>1, <1>3, <2>1, ContentsLess
<1>10. Arrived'
  <2>1. \A t \in DOMAIN fast' : body'[fast'[t].slot].offsets # OffsetsOf(t)
    BY <1>0, <1>1, <1>3, NoneCompleted
  <2> QED BY <1>0, <1>1, <2>1 DEF Arrived
<1> QED BY <1>4, <1>6, <1>7, <1>8, <1>9, <1>10 DEF Sound

LEMMA FinishKeepsSound ==
  ASSUME MapTypes, Sound, Finish, Clean'
  PROVE  Sound'
<1> DEFINE tick == pkt.tick
           slot == fast[tick].slot
<1>0. /\ RingInv /\ OneEach /\ Highest /\ Begun /\ Linked /\ Contents /\ Arrived
      /\ net \subseteq Packets
  BY DEF Sound, MapTypes
<1>1. /\ pc = "finish" /\ pc' = "expire"
      /\ HandBack(bufItem)
      /\ OutOfOrder(bufItem) => "outOfOrder" \in upset'
      /\ bufItem.copy => "copyReturned" \in upset'
      /\ fast' = Without(fast, {tick})
      /\ UNCHANGED <<body, copies, bufItem, fromSlowMap, pkt, prevTick, prevBufItem,
                     slow, largestTick, microSec, dumpBufs, net>>
  BY Zenon DEF Finish, FastAfterFinish, storage, current, previous, network
<1>2. ~bufItem.copy /\ ~OutOfOrder(bufItem)
  BY <1>1 DEF Clean
<1>3. tick \in DOMAIN fast /\ bufItem = InRing(slot) /\ bufItem = prevBufItem /\ prevTick = tick
  BY <1>0, <1>1, <1>2, Refs DEF Linked, Belongs
<1>4. TakenOut(tick)
  <2>1. HandBack(InRing(slot)) /\ ~OutOfOrder(InRing(slot))
    BY <1>1, <1>2, <1>3, Zenon
  <2>2. body \in [S!Slots -> Bodies] /\ pc # "passOn" /\ pc' # "passOn"
    BY <1>0, <1>1 DEF Contents
  <2> HIDE DEF tick
  <2> QED BY <1>0, <1>1, <1>3, <2>1, <2>2, TakeOut, Zenon DEF slot
<1>5. RingInv' /\ OneEach'
  BY <1>4, Zenon DEF TakenOut
<1>6. DOMAIN fast' = DOMAIN fast \ {tick} /\ DOMAIN fast' \subseteq DOMAIN fast
  BY <1>4 DEF TakenOut
<1>7. Highest'
  <2>1. ~AboveLimit' /\ Cardinality(DOMAIN fast') <= FastMapMax + 1
    BY <1>0, <1>3, <1>6, OneLess
  <2> QED BY <1>0, <1>1, <1>6, <2>1 DEF Highest
<1>8. Begun'
  <2>1. /\ \A t \in DOMAIN fast' : fast'[t].time <= microSec'
        /\ \A t, u \in DOMAIN fast' : t < u => fast'[t].time <= fast'[u].time
    BY <1>0, <1>1, <1>4, BegunLess
  <2> QED BY <1>1, <1>3, <1>6, <2>1 DEF Begun
<1>9. \A p \in net : p.tick # tick
  <2> SUFFICES ASSUME NEW p \in net, p.tick = tick PROVE FALSE
    OBVIOUS
  <2>1. Item(bufItem).offsets = OffsetsOf(tick)
    BY <1>0, <1>1 DEF Arrived
  <2>2. Building(Item(bufItem), tick)
    BY <1>0, <1>3, BuildingItem DEF RefOf
  <2>3. p.offset \in OffsetsOf(tick)
    BY <1>0 DEF Packets
  <2> QED BY <2>1, <2>2, <2>3 DEF Building, BuildingWith
<1>10. Linked'
  BY <1>1, <1>3, <1>9 DEF Linked
<1>11. Contents'
  <2>1. SlowLess
    BY <1>1 DEF SlowLess
  <2> QED BY <1>0, <1>1, <1>4, <2>1, ContentsLess
<1>12. Arrived'
  <2>1. \A t \in DOMAIN fast' : body'[fast'[t].slot].offsets # OffsetsOf(t)
    BY <1>0, <1>4, NoneCompleted
  <2> QED BY <1>1, <2>1 DEF Arrived
<1> QED BY <1>5, <1>7, <1>8, <1>10, <1>11, <1>12 DEF Sound

\* An event moves to the slow map, with the buffer ref.
Moved(tick, ref) ==
    /\ TakenOut(tick)
    /\ DOMAIN slow' \subseteq DOMAIN slow \cup {tick}
    /\ slow'[tick].ref = ref
    /\ \A t \in DOMAIN slow' : t # tick => slow'[t] = slow[t]
    /\ UNCHANGED <<bufItem, fromSlowMap, pkt, prevTick, prevBufItem, largestTick, microSec,
                   dumpBufs, net>>

LEMMA MoveOut ==
  ASSUME MapTypes, Sound, Clean', NEW tick \in DOMAIN fast, NEW ref, MoveToSlow(tick, ref),
         pc # "passOn", pc' # "passOn"
  PROVE  Moved(tick, ref)
<1> DEFINE slot == fast[tick].slot
           kept == IF SlowMapFull THEN Without(slow, {Oldest(slow)}) ELSE slow
           new  == [ref |-> ref, time |-> microSec]
<1>1. /\ HandBack(InRing(slot))
      /\ OutOfOrder(InRing(slot)) => "outOfOrder" \in upset'
      /\ body' = Invalidated(slot)
      /\ slow' = With(kept, tick, new)
      /\ fast' = Without(fast, {tick})
      /\ UNCHANGED <<bufItem, fromSlowMap, pkt, prevTick, prevBufItem, largestTick, microSec,
                     dumpBufs, net>>
  BY Zenon DEF MoveToSlow, Remember, current, previous, network
<1>2. TakenOut(tick)
  <2>1. ~OutOfOrder(InRing(slot))
    BY <1>1 DEF Clean
  <2>2. body' = body \/ body' = [body EXCEPT ![slot].isValidData = FALSE]
    BY <1>1, InvalidatedBody, Zenon
  <2>3. body \in [S!Slots -> Bodies] /\ RingInv /\ OneEach
    BY DEF Sound, Contents
  <2> QED BY <1>1, <2>1, <2>2, <2>3, TakeOut, Zenon DEF slot
<1>3. DOMAIN kept \subseteq DOMAIN slow /\ \A t \in DOMAIN kept : kept[t] = slow[t]
  <2>1. IsWithout(Without(slow, {Oldest(slow)}), slow, {Oldest(slow)})
    BY MapWithout, Zenon
  <2>2. CASE SlowMapFull
    BY <2>1, <2>2 DEF IsWithout
  <2>3. CASE ~SlowMapFull
    BY <2>3
  <2> QED BY <2>2, <2>3
<1>4. new.ref = ref
  OBVIOUS
<1> HIDE DEF kept, new, slot
<1>5. IsWith(slow', kept, tick, new)
  BY <1>1, MapWith, Zenon
<1>6. /\ DOMAIN slow' \subseteq DOMAIN slow \cup {tick}
      /\ slow'[tick].ref = ref
      /\ \A t \in DOMAIN slow' : t # tick => slow'[t] = slow[t]
  BY <1>3, <1>4, <1>5 DEF IsWith
<1> QED BY <1>1, <1>2, <1>6, Zenon DEF Moved

\* What does not depend on why it moves.
LEMMA MovedKeeps ==
  ASSUME MapTypes, Sound, NEW tick \in DOMAIN fast, NEW ref, Moved(tick, ref),
         pc' \in {"store", "expire"}, pc \in {"limit", "expire"}
  PROVE  /\ RingInv' /\ OneEach' /\ Highest'
         /\ \A t \in DOMAIN fast' : body'[fast'[t].slot].offsets # OffsetsOf(t)
         /\ \A t \in DOMAIN fast' : Building(body[fast[t].slot], t)'
<1>0. Highest /\ Contents /\ Arrived /\ TakenOut(tick)
  BY DEF Sound, Moved
<1>1. RingInv' /\ OneEach'
  BY <1>0, Zenon DEF TakenOut
<1>2. DOMAIN fast' = DOMAIN fast \ {tick}
  BY <1>0 DEF TakenOut
<1>3. Highest'
  <2>1. ~AboveLimit' /\ Cardinality(DOMAIN fast') <= FastMapMax + 1
    BY <1>0, <1>2, OneLess
  <2>2. \A t \in DOMAIN fast' \cup DOMAIN slow' : t <= largestTick'
    BY <1>0, <1>2 DEF Highest, Moved
  <2>3. pc' # "get" /\ pc' # "limit"
    OBVIOUS
  <2> QED BY <2>1, <2>2, <2>3 DEF Highest
<1>4. \A t \in DOMAIN fast' : body'[fast'[t].slot].offsets # OffsetsOf(t)
  BY <1>0, NoneCompleted
<1>5. \A t \in DOMAIN fast' : Building(body[fast[t].slot], t)'
  BY <1>0 DEF Contents, Building, TakenOut, Moved
<1> QED BY <1>1, <1>3, <1>4, <1>5

LEMMA MoveOldestKeepsSound ==
  ASSUME MapTypes, Sound, MoveOldest, Clean'
  PROVE  Sound'
<1> DEFINE tick == Oldest(fast)
           slot == fast[tick].slot
           copy == [body |-> body[slot], producerSequence |-> items[slot].producerSequence]
<1>0. /\ RingInv /\ OneEach /\ Highest /\ Begun /\ Linked /\ Contents /\ Arrived
      /\ DOMAIN fast \subseteq Ticks
  BY DEF Sound, MapTypes
<1>1. /\ pc = "limit" /\ pc' = "store" /\ AboveLimit
      /\ MoveToSlow(tick, InCopy(tick))
      /\ copies' = [copies EXCEPT ![tick] = copy]
  BY Zenon DEF MoveOldest
<1>2. tick \in DOMAIN fast /\ \A t \in DOMAIN fast : tick <= t
  BY <1>0, <1>1, LimitNotEmpty, OldestIn
<1>3. Moved(tick, InCopy(tick))
  <2>1. pc # "passOn" /\ pc' # "passOn"
    BY <1>1
  <2> HIDE DEF tick
  <2> QED BY <1>1, <1>2, <2>1, MoveOut
<1>4. slot \in S!Slots /\ copy \in Copies
  <2>1. slot \in S!Slots
    BY <1>2 DEF MapTypes, Waiting
  <2>2. body[slot] \in Bodies /\ items[slot] \in S!SupplyItem
    BY <1>0, <2>1 DEF Contents, RingInv, RingTypes
  <2>3. items[slot].producerSequence \in Int
    BY <2>2 DEF S!SupplyItem, S!Seqs
  <2> HIDE DEF slot
  <2> QED BY <2>1, <2>2, <2>3 DEF Copies
<1>5. copy.body = body[slot]
  OBVIOUS
<1> HIDE DEF copy
<1>6. /\ RingInv' /\ OneEach' /\ Highest'
      /\ \A t \in DOMAIN fast' : body'[fast'[t].slot].offsets # OffsetsOf(t)
      /\ \A t \in DOMAIN fast' : Building(body[fast[t].slot], t)'
  <2>1. pc' \in {"store", "expire"} /\ pc \in {"limit", "expire"}
    BY <1>1
  <2> HIDE DEF tick
  <2> QED BY <1>2, <1>3, <2>1, MovedKeeps, Zenon
<1> HIDE DEF tick, slot
<1>7. TakenOut(tick)
  BY <1>3 DEF Moved
<1>8. DOMAIN fast' = DOMAIN fast \ {tick} /\ \A t \in DOMAIN fast' : fast'[t] = fast[t]
  BY <1>7 DEF TakenOut
<1>9. ~bufItem.copy /\ \A t \in DOMAIN fast : t <= pkt.tick
  BY <1>0, <1>1 DEF Highest
<1>10. pkt.tick \in DOMAIN fast /\ bufItem = InRing(fast[pkt.tick].slot)
  BY <1>0, <1>1, <1>9, Refs DEF Linked, Belongs
<1>11. pkt.tick # tick
  <2> SUFFICES ASSUME pkt.tick = tick PROVE FALSE
    OBVIOUS
  <2>1. ASSUME NEW t \in DOMAIN fast PROVE t = tick
    <3>1. tick <= t /\ t <= tick /\ t \in Nat /\ tick \in Nat
      BY <1>0, <1>2, <1>9, <2>1, TieredAssumption
    <3> QED BY <3>1
  <2>2. DOMAIN fast = {tick}
    BY <1>2, <2>1
  <2>3. Cardinality(DOMAIN fast) = 1
    BY <2>2, FS_Singleton
  <2> QED BY <1>1, <2>3, TieredAssumption DEF AboveLimit
<1>12. /\ UNCHANGED <<bufItem, fromSlowMap, pkt, microSec, net>>
       /\ DOMAIN slow' \subseteq DOMAIN slow \cup {tick}
       /\ slow'[tick].ref = InCopy(tick)
       /\ \A t \in DOMAIN slow' : t # tick => slow'[t] = slow[t]
  BY <1>3 DEF Moved
<1>13. pkt.tick \in DOMAIN fast' /\ fast'[pkt.tick] = fast[pkt.tick]
  BY <1>8, <1>10, <1>11
<1>14. ~(fromSlowMap /\ bufItem = InCopy(pkt.tick)) /\ ~fromSlowMap
  BY <1>0, <1>1, <1>9, Refs DEF Linked
<1>15. Begun'
  <2>1. /\ \A t \in DOMAIN fast' : fast'[t].time <= microSec'
        /\ \A t, u \in DOMAIN fast' : t < u => fast'[t].time <= fast'[u].time
        /\ \A t \in DOMAIN fast' : Recent(t) => Recent(t)'
    BY <1>0, <1>7, <1>12, BegunLess
  <2>2. Recent(pkt.tick)
    BY <1>0, <1>1, <1>9 DEF Begun
  <2>3. Recent(pkt.tick)'
    BY <1>12, <1>13, <2>2 DEF Recent, TooLong
  <2> QED BY <1>1, <1>12, <1>14, <2>1, <2>3 DEF Begun
<1>16. Linked'
  BY <1>1, <1>10, <1>12, <1>13, <1>14 DEF Linked, Belongs
<1>17. Contents'
  <2>1. copies' \in [Ticks -> Copies] /\ copies'[tick] = copy
        /\ \A t \in Ticks : t # tick => copies'[t] = copies[t]
    BY <1>0, <1>1, <1>2, <1>4 DEF Contents
  <2>2. \A t \in Ticks : t # tick /\ LiveCopy(t)' => LiveCopy(t)
    BY <1>12 DEF LiveCopy
  <2>3. ASSUME NEW t \in Ticks, LiveCopy(t)' PROVE Building(copies[t].body, t)'
    <3>1. CASE t = tick
      <4>1. Building(body[slot], tick)
        BY <1>0, <1>2 DEF Contents, slot
      <4> QED BY <1>5, <1>12, <2>1, <3>1, <4>1 DEF Building
    <3>2. CASE t # tick
      BY <1>0, <1>12, <2>1, <2>2, <2>3, <3>2 DEF Contents, Building
    <3> QED BY <3>1, <3>2
  <2>4. \A t \in DOMAIN slow' : slow'[t].ref.copy => slow'[t].ref = InCopy(t)
    BY <1>0, <1>12 DEF Contents
  <2>5. body' \in [S!Slots -> Bodies]
    BY <1>7 DEF TakenOut
  <2> QED BY <1>6, <2>1, <2>3, <2>4, <2>5 DEF Contents
<1>18. Arrived'
  <2>1. pkt' \notin net'
    BY <1>0, <1>1, <1>12 DEF Arrived
  <2>2. pkt'.offset \notin Item(bufItem)'.offsets
    <3>1. pkt.offset \notin Item(bufItem).offsets
      BY <1>0, <1>1 DEF Arrived
    <3>2. Item(bufItem) = body[fast[pkt.tick].slot]
      BY <1>10, ItemsAt, Zenon
    <3>3. Item(bufItem)' = body'[fast[pkt.tick].slot]
      BY <1>10, <1>12, Refs, Zenon DEF Item
    <3>4. body'[fast[pkt.tick].slot] = body[fast[pkt.tick].slot]
      BY <1>7, <1>13 DEF TakenOut
    <3> QED BY <1>12, <3>1, <3>2, <3>3, <3>4
  <2> QED BY <1>1, <1>6, <2>1, <2>2 DEF Arrived
<1> QED BY <1>6, <1>15, <1>16, <1>17, <1>18 DEF Sound

LEMMA MoveExpiredKeepsSound ==
  ASSUME MapTypes, Sound, MoveExpired, Clean'
  PROVE  Sound'
<1> DEFINE tick == Oldest(fast)
           slot == fast[tick].slot
<1>0. /\ RingInv /\ OneEach /\ Highest /\ Begun /\ Linked /\ Contents /\ Arrived
      /\ DOMAIN fast \subseteq Ticks
  BY DEF Sound, MapTypes
<1>1. /\ pc = "expire" /\ pc' = "expire" /\ fast # << >> /\ TooLong(fast[tick].time)
      /\ MoveToSlow(tick, InRing(slot))
      /\ copies' = copies
  BY Zenon DEF MoveExpired
<1>2. tick \in DOMAIN fast
  BY <1>0, <1>1, NotEmpty, OldestIn
<1> HIDE DEF tick
<1>3. Moved(tick, InRing(slot))
  <2>1. pc # "passOn" /\ pc' # "passOn"
    BY <1>1
  <2> HIDE DEF slot
  <2> QED BY <1>1, <1>2, <2>1, MoveOut
<1> HIDE DEF slot
<1>4. /\ RingInv' /\ OneEach' /\ Highest'
      /\ \A t \in DOMAIN fast' : body'[fast'[t].slot].offsets # OffsetsOf(t)
      /\ \A t \in DOMAIN fast' : Building(body[fast[t].slot], t)'
  <2>1. pc' \in {"store", "expire"} /\ pc \in {"limit", "expire"}
    BY <1>1
  <2> QED BY <1>2, <1>3, <2>1, MovedKeeps, Zenon
<1>5. TakenOut(tick)
  BY <1>3 DEF Moved
<1>6. DOMAIN fast' = DOMAIN fast \ {tick} /\ \A t \in DOMAIN fast' : fast'[t] = fast[t]
  BY <1>5 DEF TakenOut
<1>7. /\ UNCHANGED <<bufItem, prevBufItem, prevTick, microSec, net>>
      /\ DOMAIN slow' \subseteq DOMAIN slow \cup {tick}
      /\ slow'[tick].ref = InRing(slot)
      /\ \A t \in DOMAIN slow' : t # tick => slow'[t] = slow[t]
  BY <1>3 DEF Moved
<1>8. ~bufItem.copy /\ prevTick \in DOMAIN fast => prevTick # tick /\ Recent(prevTick)
  BY <1>0, <1>1 DEF Begun, Recent
<1>9. Begun'
  <2>1. /\ \A t \in DOMAIN fast' : fast'[t].time <= microSec'
        /\ \A t, u \in DOMAIN fast' : t < u => fast'[t].time <= fast'[u].time
        /\ \A t \in DOMAIN fast' : Recent(t) => Recent(t)'
    BY <1>0, <1>5, <1>7, BegunLess
  <2>2. ~bufItem'.copy /\ prevTick' \in DOMAIN fast' => Recent(prevTick)'
    BY <1>6, <1>7, <1>8, <2>1
  <2> QED BY <1>1, <2>1, <2>2 DEF Begun
<1>10. Linked'
  <2>1. bufItem = prevBufItem /\ (Belongs(prevTick) \/ \A p \in net : p.tick # prevTick)
    BY <1>0, <1>1 DEF Linked
  <2>2. Belongs(prevTick) => Belongs(prevTick)'
    BY <1>6, <1>7, <1>8, Refs DEF Belongs
  <2> QED BY <1>1, <1>7, <2>1, <2>2 DEF Linked
<1>11. Contents'
  <2>1. \A t \in Ticks : LiveCopy(t)' => LiveCopy(t)
    BY <1>7, Refs DEF LiveCopy
  <2>2. \A t \in Ticks : LiveCopy(t)' => Building(copies[t].body, t)'
    BY <1>0, <1>1, <1>7, <2>1 DEF Contents, Building
  <2>3. \A t \in DOMAIN slow' : slow'[t].ref.copy => slow'[t].ref = InCopy(t)
    BY <1>0, <1>7, Refs DEF Contents
  <2>4. body' \in [S!Slots -> Bodies]
    BY <1>5 DEF TakenOut
  <2> QED BY <1>0, <1>1, <1>4, <2>2, <2>3, <2>4 DEF Contents
<1>12. Arrived'
  BY <1>1, <1>4 DEF Arrived
<1> QED BY <1>4, <1>9, <1>10, <1>11, <1>12 DEF Sound

-----------------------------------------------------------------------------
(* The buffers: one is taken from the supply, one is written to.           *)

LEMMA ResetBody ==
  ASSUME NEW item \in Bodies, NEW tick \in Ticks
  PROVE  /\ Reset(item, tick) \in Bodies
         /\ Reset(item, tick).offsets = {} /\ Reset(item, tick).eventNum = tick
<1> DEFINE m == item.memory
<1>1. m \in [Offsets -> Ticks \cup {NoTick}]
  BY DEF Bodies
<1>2. NewBody \in Bodies /\ NewBody.offsets = {}
  <2>1. [o \in Offsets |-> NoTick] \in [Offsets -> Ticks \cup {NoTick}]
    OBVIOUS
  <2> QED BY <2>1 DEF NewBody, Bodies
<1> HIDE DEF m
<1> DEFINE now == [NewBody EXCEPT !.eventNum = tick, !.memory = m]
<1>3. now \in Bodies /\ now.offsets = NewBody.offsets /\ now.eventNum = tick
  BY <1>1, <1>2 DEF Bodies
<1>4. Reset(item, tick) = now
  BY Zenon DEF Reset, m
<1> HIDE DEF now
<1> QED BY <1>2, <1>3, <1>4

LEMMA GetKeepsSound ==
  ASSUME MapTypes, Sound, GetBuffer
  PROVE  Sound'
<1> DEFINE tick == pkt.tick
           slot == S!Slot(claimed')
           new  == [slot |-> slot, time |-> microSec']
           now  == Reset(body[slot], tick)
<1>0. /\ RingInv /\ OneEach /\ Highest /\ Begun /\ Linked /\ Contents /\ Arrived
      /\ DOMAIN fast \subseteq Ticks /\ DOMAIN fast \subseteq Nat
      /\ microSec \in Nat /\ claimed \in Int
  BY TieredAssumption DEF Sound, MapTypes
<1>1. /\ pc = "get" /\ pc' = "limit" /\ S!Get(1) /\ claimed' = claimed + 1
      /\ body' = [body EXCEPT ![S!Slot(claimed + 1)] = Reset(@, tick)]
      /\ bufItem' = InRing(S!Slot(claimed + 1))
      /\ microSec' \in {microSec} \cup ({microSec + 1} \cap 0 .. MaxTime)
      /\ fast' = With(fast, tick, [slot |-> S!Slot(claimed + 1), time |-> microSec'])
      /\ largestTick' = tick
      /\ UNCHANGED <<copies, pkt, fromSlowMap, prevTick, prevBufItem, slow, dumpBufs, net>>
  BY DEF GetBuffer, S!Get, S!Claim, previous, network
<1>2. /\ RingInv' /\ claimed' \in Nat /\ claimed' \notin filling
      /\ filling' = filling \cup {claimed'}
      /\ \A s \in filling : S!Slot(s) # slot
  BY <1>0, <1>1, RingGet
<1>3. slot \in S!Slots /\ tick \in Ticks /\ tick \in Nat
  BY <1>1, <1>2, SlotType, TieredAssumption DEF MapTypes, Packets
<1>4. /\ body' = [body EXCEPT ![slot] = now]
      /\ bufItem' = InRing(slot)
      /\ fast' = With(fast, tick, new)
  <2>1. S!Slot(claimed + 1) = slot
    BY <1>1, Zenon
  <2> HIDE DEF slot, tick
  <2> QED BY <1>1, <2>1, Zenon DEF now, new
<1>5. now \in Bodies /\ now.offsets = {} /\ now.eventNum = tick
  <2>1. body[slot] \in Bodies
    BY <1>0, <1>3 DEF Contents
  <2> HIDE DEF slot, tick
  <2> QED BY <1>3, <2>1, ResetBody, Zenon DEF now
<1>6. new.slot = slot /\ new.time = microSec'
  OBVIOUS
<1>7. tick \notin DOMAIN fast /\ \A t \in DOMAIN fast \cup DOMAIN slow : t < tick
  <2>1. \A t \in DOMAIN fast \cup DOMAIN slow : t < tick
    BY <1>0, <1>1 DEF Highest
  <2> QED BY <1>3, <2>1
<1> HIDE DEF new, now
<1>8. /\ DOMAIN fast' = DOMAIN fast \cup {tick}
      /\ fast'[tick] = new
      /\ \A t \in DOMAIN fast : fast'[t] = fast[t]
  <2>1. IsWith(fast', fast, tick, new)
    BY <1>4, MapWith, Zenon
  <2> QED BY <1>7, <2>1 DEF IsWith
<1>9. microSec' \in Nat /\ microSec <= microSec'
  BY <1>0, <1>1, TieredAssumption
<1> HIDE DEF slot, tick
<1>10. \A t \in DOMAIN fast : fast[t].slot # slot /\ fast[t].slot \in S!Slots
  BY <1>0, <1>2 DEF OneEach, MapTypes, Waiting
<1>11. /\ body' \in [S!Slots -> Bodies] /\ body'[slot] = now
       /\ \A t \in DOMAIN fast : body'[fast[t].slot] = body[fast[t].slot]
  BY <1>0, <1>3, <1>4, <1>5, <1>10 DEF Contents
<1>12. OneEach'
  <2>1. ASSUME NEW t \in DOMAIN fast' PROVE \E s \in filling' : fast'[t].slot = S!Slot(s)
    <3>1. CASE t = tick
      BY <1>2, <1>6, <1>8, <3>1 DEF slot
    <3>2. CASE t \in DOMAIN fast
      BY <1>0, <1>2, <1>8, <3>2 DEF OneEach
    <3> QED BY <1>8, <3>1, <3>2
  <2>2. ASSUME NEW t \in DOMAIN fast', NEW u \in DOMAIN fast', fast'[t].slot = fast'[u].slot
        PROVE  t = u
    BY <1>0, <1>6, <1>8, <1>10, <2>2 DEF OneEach
  <2>3. ASSUME NEW s \in filling' PROVE \E t \in DOMAIN fast' : fast'[t].slot = S!Slot(s)
    <3>1. CASE s = claimed'
      BY <1>6, <1>8, <3>1 DEF slot
    <3>2. CASE s \in filling
      BY <1>0, <1>1, <1>8, <3>2 DEF OneEach
    <3> QED BY <1>2, <3>1, <3>2
  <2> QED BY <1>1, <2>1, <2>2, <2>3 DEF OneEach
<1>13. Highest'
  <2>1. \A t \in DOMAIN fast' \cup DOMAIN slow' : t <= tick
    <3>1. \A t \in DOMAIN fast \cup DOMAIN slow : t <= tick
      <4>1. DOMAIN slow \subseteq Nat
        BY TieredAssumption DEF MapTypes
      <4> QED BY <1>0, <1>3, <1>7, <4>1
    <3> QED BY <1>1, <1>3, <1>8, <3>1
  <2>2. Cardinality(DOMAIN fast') <= FastMapMax + 1
    <3>1. Cardinality(DOMAIN fast) <= FastMapMax
      <4>1. ~AboveLimit
        BY <1>0, <1>1 DEF Highest
      <4>2. Cardinality(DOMAIN fast) \in Nat
        BY <1>0, FiniteMaps, FS_CardinalityType
      <4> QED BY <4>1, <4>2, TieredAssumption DEF AboveLimit
    <3>2. IsFiniteSet(DOMAIN fast)
      BY <1>0, FiniteMaps
    <3>3. Cardinality(DOMAIN fast') = Cardinality(DOMAIN fast) + 1
      BY <1>7, <1>8, <3>2, FS_AddElement
    <3>4. Cardinality(DOMAIN fast) \in Nat /\ FastMapMax \in Int
      BY <3>2, FS_CardinalityType, TieredAssumption
    <3> QED BY <3>1, <3>3, <3>4
  <2>3. ~bufItem'.copy
    BY <1>4, Refs
  <2> QED BY <1>1, <2>1, <2>2, <2>3 DEF Highest, tick
<1>14. \A t \in DOMAIN fast : fast[t].time \in Nat /\ fast[t].time <= microSec
  BY <1>0 DEF Begun, MapTypes, Waiting
<1>15. Begun'
  <2>1. \A t \in DOMAIN fast' : fast'[t].time <= microSec'
    BY <1>0, <1>6, <1>8, <1>9, <1>14
  <2>2. ASSUME NEW t \in DOMAIN fast', NEW u \in DOMAIN fast', t < u
        PROVE  fast'[t].time <= fast'[u].time
    <3>1. CASE u = tick
      BY <1>6, <1>8, <2>1, <3>1
    <3>2. CASE u \in DOMAIN fast
      <4>1. t # tick
        <5>1. u < tick /\ u \in Nat
          BY <1>0, <1>7, <3>2
        <5> QED BY <1>3, <2>2, <5>1
      <4> QED BY <1>0, <1>8, <2>2, <3>2, <4>1 DEF Begun
    <3> QED BY <1>8, <3>1, <3>2
  <2>3. Recent(pkt.tick)'
    <3>1. fast'[tick].time = microSec'
      BY <1>6, <1>8
    <3>2. fast'[pkt'.tick].time = microSec'
      BY <1>1, <3>1 DEF tick
    <3> QED BY <1>9, <3>2, TieredAssumption DEF Recent, TooLong
  <2>4. ~fromSlowMap'
    BY <1>0, <1>1 DEF Linked
  <2> QED BY <1>1, <2>1, <2>2, <2>3, <2>4 DEF Begun
<1>16. Linked'
  <2>1. ~fromSlowMap'
    BY <1>0, <1>1 DEF Linked
  <2>2. Belongs(tick)'
    BY <1>1, <1>4, <1>6, <1>8 DEF Belongs, tick
  <2> QED BY <1>1, <2>1, <2>2 DEF Linked, tick
<1>17. Contents'
  <2>1. \A t \in Ticks : LiveCopy(t)' => LiveCopy(t)
    BY <1>1, <1>4, Refs DEF LiveCopy
  <2>2. \A t \in Ticks : LiveCopy(t)' => Building(copies[t].body, t)'
    BY <1>0, <1>1, <2>1 DEF Contents, Building
  <2>3. ASSUME NEW t \in DOMAIN fast' PROVE Building(body[fast[t].slot], t)'
    <3>1. CASE t = tick
      BY <1>5, <1>6, <1>8, <1>11, <3>1 DEF Building, BuildingWith
    <3>2. CASE t \in DOMAIN fast
      BY <1>0, <1>1, <1>8, <1>11, <3>2 DEF Contents, Building
    <3> QED BY <1>8, <3>1, <3>2
  <2> QED BY <1>0, <1>1, <1>11, <2>2, <2>3 DEF Contents
<1>18. Arrived'
  <2>1. pkt' \notin net'
    BY <1>0, <1>1 DEF Arrived
  <2>2. pkt'.offset \notin Item(bufItem)'.offsets
    <3>1. Item(bufItem)' = now
      BY <1>4, <1>11, Refs, Zenon DEF Item
    <3> QED BY <1>5, <3>1
  <2>3. ASSUME NEW t \in DOMAIN fast' PROVE body'[fast'[t].slot].offsets # OffsetsOf(t)
    <3>1. CASE t = tick
      <4>1. OffsetsOf(t) # {}
        BY TieredAssumption DEF OffsetsOf
      <4> QED BY <1>5, <1>6, <1>8, <1>11, <3>1, <4>1
    <3>2. CASE t \in DOMAIN fast
      BY <1>0, <1>1, <1>8, <1>11, <3>2 DEF Arrived
    <3> QED BY <1>8, <3>1, <3>2
  <2> QED BY <1>1, <2>1, <2>2, <2>3 DEF Arrived
<1> QED BY <1>2, <1>12, <1>13, <1>15, <1>16, <1>17, <1>18 DEF Sound

LEMMA ResurrectKeepsSound ==
  ASSUME MapTypes, Sound, Resurrect
  PROVE  Sound'
<1> DEFINE slot == S!Slot(claimed')
<1>0. /\ RingInv /\ OneEach /\ Highest /\ Begun /\ Linked /\ Contents /\ Arrived
      /\ claimed \in Int
  BY TieredAssumption DEF Sound, MapTypes
<1>1. /\ pc = "resurrect" /\ pc' = "passOn" /\ S!Get(1) /\ claimed' = claimed + 1
      /\ body' = [body EXCEPT ![S!Slot(claimed + 1)] = Item(bufItem)]
      /\ UNCHANGED <<copies, bufItem, pkt, fromSlowMap, prevTick, prevBufItem, fast, slow,
                     largestTick, microSec, dumpBufs, net>>
  BY DEF Resurrect, S!Get, S!Claim, current, previous, maps, network
<1>2. /\ RingInv' /\ claimed' \in Nat /\ claimed' \notin filling
      /\ filling' = filling \cup {claimed'}
      /\ \A s \in filling : S!Slot(s) # slot
  BY <1>0, <1>1, RingGet
<1>3. slot \in S!Slots
  BY <1>2, SlotType
<1>4. body' = [body EXCEPT ![slot] = Item(bufItem)]
  BY <1>1, Zenon
<1> HIDE DEF slot
<1>5. \A t \in DOMAIN fast : fast[t].slot # slot /\ fast[t].slot \in S!Slots
  BY <1>0, <1>2 DEF OneEach, MapTypes, Waiting
<1>6. Item(bufItem) \in Bodies
  <2>1. pkt.tick \in Ticks /\ bufItem = InCopy(pkt.tick)
    BY <1>0, <1>1 DEF Linked, MapTypes, Packets
  <2>2. Item(bufItem) = copies[pkt.tick].body
    BY <2>1, ItemsAt, Zenon
  <2>3. copies[pkt.tick] \in Copies
    BY <1>0, <2>1 DEF Contents
  <2> QED BY <2>2, <2>3 DEF Copies
<1>7. /\ body' \in [S!Slots -> Bodies]
      /\ \A t \in DOMAIN fast : body'[fast[t].slot] = body[fast[t].slot]
  <2> DEFINE item == Item(bufItem)
  <2> HIDE DEF item
  <2>1. body' = [body EXCEPT ![slot] = item] /\ item \in Bodies
    BY <1>4, <1>6 DEF item
  <2> QED BY <1>0, <1>3, <1>5, <2>1 DEF Contents
<1>8. OneEach'
  <2>1. ASSUME NEW t \in DOMAIN fast
        PROVE  \E s \in filling' : fast[t].slot = S!Slot(s) /\ s # claimed'
    <3>1. PICK s \in filling : fast[t].slot = S!Slot(s)
      BY <1>0 DEF OneEach
    <3> QED BY <1>2, <3>1
  <2>2. ASSUME NEW s \in filling'
        PROVE  (\E t \in DOMAIN fast : fast[t].slot = S!Slot(s)) \/ s = claimed'
    BY <1>0, <1>1, <1>2 DEF OneEach
  <2>3. \A t, u \in DOMAIN fast : fast[t].slot = fast[u].slot => t = u
    BY <1>0 DEF OneEach
  <2> QED BY <1>1, <1>2, <2>1, <2>2, <2>3 DEF OneEach
<1>9. SlowLess
  BY <1>1 DEF SlowLess
<1>10. Highest'
  <2>1. ~AboveLimit
    BY <1>0, <1>1 DEF Highest
  <2> QED BY <1>0, <1>1, <1>9, <2>1, HighestSame
<1>11. Begun'
  BY <1>0, <1>1 DEF Begun
<1>12. Linked'
  BY <1>0, <1>1 DEF Linked, Belongs
<1>13. Contents'
  <2>1. \A t \in Ticks : LiveCopy(t)' => LiveCopy(t)
    BY <1>1 DEF LiveCopy
  <2>2. \A t \in Ticks : LiveCopy(t)' => Building(copies[t].body, t)'
    BY <1>0, <1>1, <2>1 DEF Contents, Building
  <2>3. \A t \in DOMAIN fast' : Building(body[fast[t].slot], t)'
    BY <1>0, <1>1, <1>7 DEF Contents, Building
  <2> QED BY <1>0, <1>1, <1>7, <2>2, <2>3 DEF Contents
<1>14. Arrived'
  BY <1>0, <1>1, <1>7 DEF Arrived
<1> QED BY <1>2, <1>8, <1>10, <1>11, <1>12, <1>13, <1>14 DEF Sound

LEMMA PassOnKeepsSound ==
  ASSUME MapTypes, Sound, PassOn, Clean'
  PROVE  Sound'
<1> DEFINE new == InRing(S!Slot(claimed))
<1>0. /\ RingInv /\ OneEach /\ Highest /\ Begun /\ Linked /\ Contents /\ Arrived
      /\ pc = "passOn"
  BY DEF Sound, PassOn
<1>1. /\ pc' = "expire"
      /\ HandBack(new)
      /\ OutOfOrder(new) => "outOfOrder" \in upset'
      /\ slow' = Without(slow, {pkt.tick})
      /\ UNCHANGED <<body, copies, bufItem, fromSlowMap, pkt, prevTick, prevBufItem, fast,
                     largestTick, microSec, dumpBufs, net>>
  BY Zenon DEF PassOn, Remember, storage, current, previous, network
<1>2. claimed \in filling
  BY <1>0 DEF OneEach
<1>3. ProducerSequence(new) = claimed
  <2>1. items[S!Slot(claimed)].producerSequence = claimed
    BY <1>0, <1>2 DEF RingInv, FillingInv
  <2> QED BY <2>1, Refs, Zenon DEF ProducerSequence
<1>4. IF dumpBufs THEN ReleaseItem(claimed) ELSE PublishItem(claimed)
  BY <1>1, <1>3, Zenon DEF HandBack
<1>5. dumpBufs \/ \A r \in filling : ~(r < claimed)
  <2>1. ~OutOfOrder(new)
    BY <1>1 DEF Clean
  <2> QED BY <1>3, <2>1, Zenon DEF OutOfOrder
<1>6. RingInv' /\ filling' = filling \ {claimed} /\ claimed' = claimed
  BY <1>0, <1>1, <1>2, <1>4, <1>5, RingHandBack
<1> HIDE DEF new
<1>7. SlowLess
  <2>1. IsWithout(slow', slow, {pkt.tick})
    BY <1>1, MapWithout, Zenon
  <2> QED BY <2>1 DEF SlowLess, IsWithout
<1>8. OneEach'
  BY <1>0, <1>1, <1>6 DEF OneEach
<1>9. Highest' /\ Contents'
  <2>1. ~AboveLimit
    BY <1>0 DEF Highest
  <2> QED BY <1>0, <1>1, <1>7, <2>1, HighestSame, ContentsSame
<1>10. bufItem = InCopy(pkt.tick) /\ pkt.tick \in Ticks /\ bufItem = prevBufItem
       /\ prevTick = pkt.tick
  BY <1>0 DEF Linked, MapTypes, Packets
<1>11. Begun'
  <2>1. bufItem'.copy
    BY <1>1, <1>10, Refs
  <2> QED BY <1>0, <1>1, <2>1 DEF Begun
<1>12. Linked'
  BY <1>1, <1>10 DEF Linked, Belongs
<1>13. Arrived'
  BY <1>0, <1>1 DEF Arrived
<1> QED BY <1>6, <1>8, <1>9, <1>11, <1>12, <1>13 DEF Sound

\* A packet's offset and data in an item.
LEMMA ItemWith ==
  ASSUME NEW item \in Bodies, NEW p \in Packets, NEW left, p \notin left, left \subseteq Packets,
         BuildingWith(item, p.tick, left), p.offset \notin item.offsets
  PROVE  LET now == [item EXCEPT !.offsets = @ \cup {p.offset}, !.memory[p.offset] = p.tick]
         IN  /\ now \in Bodies
             /\ now.offsets = item.offsets \cup {p.offset}
             /\ BuildingWith(now, p.tick, left)
<1> DEFINE off == item.offsets \cup {p.offset}
           mem == [item.memory EXCEPT ![p.offset] = p.tick]
           now == [item EXCEPT !.offsets = off, !.memory = mem]
<1>1. /\ p.tick \in Ticks /\ p.offset \in Offsets /\ p.offset \in OffsetsOf(p.tick)
      /\ \A q \in left : q.tick = p.tick => q.offset # p.offset
  <2>1. \A q \in left : q \in Packets /\ q # p
    OBVIOUS
  <2> QED BY <2>1 DEF Packets
<1>2. item.memory \in [Offsets -> Ticks \cup {NoTick}] /\ item.offsets \in SUBSET Offsets
  BY DEF Bodies
<1>3. /\ mem \in [Offsets -> Ticks \cup {NoTick}] /\ off \in SUBSET Offsets
      /\ mem[p.offset] = p.tick
      /\ \A o \in Offsets : o # p.offset => mem[o] = item.memory[o]
  BY <1>1, <1>2
<1> HIDE DEF off, mem
<1>4. /\ now \in Bodies /\ now.offsets = off /\ now.memory = mem
      /\ now.eventNum = item.eventNum
  BY <1>3 DEF Bodies
<1>5. now = [item EXCEPT !.offsets = @ \cup {p.offset}, !.memory[p.offset] = p.tick]
  BY Zenon DEF off, mem
<1> HIDE DEF now
<1>6. BuildingWith(now, p.tick, left)
  <2>1. now.eventNum = p.tick /\ now.offsets \subseteq OffsetsOf(p.tick)
    BY <1>1, <1>4 DEF BuildingWith, off
  <2>2. ASSUME NEW o \in now.offsets PROVE now.memory[o] = p.tick
    <3>1. CASE o = p.offset
      BY <1>3, <1>4, <3>1
    <3>2. CASE o \in item.offsets
      <4>1. o # p.offset /\ o \in Offsets
        BY <1>2, <3>2
      <4> QED BY <1>3, <1>4, <3>2, <4>1 DEF BuildingWith
    <3> QED BY <1>4, <3>1, <3>2 DEF off
  <2>3. \A q \in left : q.tick = p.tick => q.offset \notin now.offsets
    BY <1>1, <1>4 DEF BuildingWith, off
  <2> QED BY <2>1, <2>2, <2>3 DEF BuildingWith
<1>7. now.offsets = item.offsets \cup {p.offset}
  BY <1>4 DEF off
<1> QED BY <1>4, <1>5, <1>6, <1>7

\* Enough offsets are all offsets.
LEMMA CompleteIsAll ==
  ASSUME NEW item, item.offsets \subseteq OffsetsOf(pkt.tick)
  PROVE  Complete(item) <=> item.offsets = OffsetsOf(pkt.tick)
<1> DEFINE all == OffsetsOf(pkt.tick)
<1>1. IsFiniteSet(all)
  <2>1. all = {0} \/ all = Offsets
    BY DEF OffsetsOf
  <2>2. IsFiniteSet({0})
    BY FS_Singleton
  <2> HIDE DEF all
  <2> QED BY <2>1, <2>2, TieredAssumption
<1>2. IsFiniteSet(item.offsets) /\ Cardinality(item.offsets) <= Cardinality(all)
      /\ (Cardinality(item.offsets) = Cardinality(all) => item.offsets = all)
  <2> HIDE DEF all
  <2>1. item.offsets \in SUBSET all
    BY DEF all
  <2> QED BY <1>1, <2>1, FS_Subset
<1>3. Cardinality(item.offsets) \in Nat /\ Cardinality(all) \in Nat
  BY <1>1, <1>2, FS_CardinalityType
<1> QED BY <1>2, <1>3 DEF Complete

\* Where the packet is written.
LEMMA StoreWrites ==
  ASSUME MapTypes, Sound, StorePacket
  PROVE  LET tick == pkt.tick
             item == Item(bufItem)
             now  == Item(bufItem)'
         IN  /\ now.offsets = item.offsets \cup {pkt.offset}
             /\ Building(now, tick)
             /\ body' \in [S!Slots -> Bodies] /\ copies' \in [Ticks -> Copies]
             /\ bufItem.copy => /\ body' = body
                                /\ bufItem = InCopy(tick) /\ copies'[tick].body = now
                                /\ \A t \in Ticks : t # tick => copies'[t] = copies[t]
             /\ ~bufItem.copy => /\ copies' = copies
                                 /\ tick \in DOMAIN fast /\ body'[fast[tick].slot] = now
                                 /\ \A t \in DOMAIN fast : t # tick =>
                                       body'[fast[t].slot] = body[fast[t].slot]
<1> DEFINE tick == pkt.tick
           item == Item(bufItem)
           now  == [item EXCEPT !.offsets = @ \cup {pkt.offset},
                                !.memory[pkt.offset] = pkt.tick]
<1>0. /\ OneEach /\ Linked /\ Contents /\ Arrived
      /\ pc = "store" /\ pkt \in Packets /\ net \subseteq Packets /\ bufItem' = bufItem
      /\ tick \in Ticks /\ pkt \notin net
  BY DEF Sound, MapTypes, StorePacket, Arrived, Packets, current
<1>1. IF bufItem.copy
      THEN copies' = [copies EXCEPT ![bufItem.at].body = now] /\ body' = body
      ELSE body' = [body EXCEPT ![bufItem.at] = now] /\ copies' = copies
  BY Zenon DEF StorePacket
<1>2. Belongs(tick)
  BY <1>0 DEF Linked
<1>3. \A t \in DOMAIN fast : fast[t].slot \in S!Slots
  BY DEF MapTypes, Waiting
<1>4. item \in Bodies /\ BuildingWith(item, tick, net)
  <2>1. Building(item, tick)
    BY <1>0, <1>2, BelongsRef, BuildingItem
  <2>2. CASE bufItem = InCopy(tick)
    <3>1. item = copies[tick].body
      BY <2>2, ItemsAt, Zenon
    <3>2. copies[tick] \in Copies
      BY <1>0 DEF Contents
    <3> QED BY <2>1, <3>1, <3>2 DEF Copies, Building
  <2>3. CASE tick \in DOMAIN fast /\ bufItem = InRing(fast[tick].slot)
    <3>1. item = body[fast[tick].slot]
      BY <2>3, ItemsAt, Zenon
    <3> QED BY <1>0, <1>3, <2>1, <2>3, <3>1 DEF Contents, Building
  <2> QED BY <1>2, <2>2, <2>3 DEF Belongs
<1>5. pkt.offset \notin item.offsets
  BY <1>0 DEF Arrived
<1> HIDE DEF item
<1>6. /\ now \in Bodies
      /\ now.offsets = item.offsets \cup {pkt.offset}
      /\ BuildingWith(now, tick, net)
  BY <1>0, <1>4, <1>5, ItemWith
<1> HIDE DEF now, tick
<1>7. CASE bufItem.copy
  <2>1. bufItem = InCopy(tick) /\ bufItem.at = tick
    BY <1>2, <1>7, Refs DEF Belongs
  <2> DEFINE new == [copies[tick] EXCEPT !.body = now]
  <2>2. new \in Copies /\ new.body = now
    <3>1. copies[tick] \in Copies
      BY <1>0 DEF Contents
    <3> QED BY <1>6, <3>1 DEF Copies
  <2>3. copies' = [copies EXCEPT ![tick] = new]
    BY <1>1, <1>7, <2>1, Zenon
  <2> HIDE DEF new
  <2>4. /\ copies' \in [Ticks -> Copies] /\ copies'[tick].body = now
        /\ \A t \in Ticks : t # tick => copies'[t] = copies[t]
    BY <1>0, <2>2, <2>3 DEF Contents
  <2>5. Item(bufItem)' = now
    BY <1>0, <1>7, <2>1, <2>4, Zenon DEF Item
  <2>6. body' = body /\ body' \in [S!Slots -> Bodies]
    BY <1>0, <1>1, <1>7 DEF Contents
  <2>7. Building(Item(bufItem)', tick)
    BY <1>6, <2>5 DEF Building
  <2> QED BY <1>6, <1>7, <2>1, <2>4, <2>5, <2>6, <2>7 DEF item, tick
<1>8. CASE ~bufItem.copy
  <2> DEFINE slot == fast[tick].slot
  <2>1. tick \in DOMAIN fast /\ bufItem.at = slot
    BY <1>2, <1>8, Refs DEF Belongs
  <2>2. slot \in S!Slots
    BY <1>3, <2>1
  <2>3. body' = [body EXCEPT ![slot] = now] /\ copies' = copies
    BY <1>1, <1>8, <2>1, Zenon
  <2>4. \A t \in DOMAIN fast : t # tick => fast[t].slot # slot
    BY <1>0, <2>1 DEF OneEach
  <2> HIDE DEF slot
  <2>5. /\ body' \in [S!Slots -> Bodies] /\ body'[slot] = now
        /\ \A t \in DOMAIN fast : t # tick => body'[fast[t].slot] = body[fast[t].slot]
    BY <1>0, <1>3, <1>6, <2>2, <2>3, <2>4 DEF Contents
  <2>6. Item(bufItem)' = now
    BY <1>0, <1>8, <2>1, <2>5, Zenon DEF Item
  <2>7. copies' \in [Ticks -> Copies]
    BY <1>0, <2>3 DEF Contents
  <2>8. Building(Item(bufItem)', tick)
    BY <1>6, <2>6 DEF Building
  <2> QED BY <1>6, <1>8, <2>1, <2>3, <2>5, <2>6, <2>7, <2>8 DEF item, tick, slot
<1> QED BY <1>7, <1>8

LEMMA StoreKeepsSound ==
  ASSUME MapTypes, Sound, StorePacket
  PROVE  Sound'
<1> DEFINE tick == pkt.tick
           now  == Item(bufItem)'
<1>0. /\ RingInv /\ OneEach /\ Highest /\ Begun /\ Linked /\ Contents /\ Arrived
      /\ tick \in Ticks
  BY DEF Sound, MapTypes, Packets, StorePacket
<1>1. /\ pc = "store" /\ prevTick' = tick /\ prevBufItem' = bufItem
      /\ UNCHANGED supply
      /\ UNCHANGED <<bufItem, pkt, fromSlowMap, fast, slow, largestTick, microSec, dumpBufs,
                     net>>
  BY Zenon DEF StorePacket, current, maps, network
<1>2. /\ now.offsets = Item(bufItem).offsets \cup {pkt.offset}
      /\ Building(now, tick)
      /\ body' \in [S!Slots -> Bodies] /\ copies' \in [Ticks -> Copies]
      /\ bufItem.copy => /\ body' = body
                         /\ bufItem = InCopy(tick) /\ copies'[tick].body = now
                         /\ \A t \in Ticks : t # tick => copies'[t] = copies[t]
      /\ ~bufItem.copy => /\ copies' = copies
                          /\ tick \in DOMAIN fast /\ body'[fast[tick].slot] = now
                          /\ \A t \in DOMAIN fast : t # tick =>
                                body'[fast[t].slot] = body[fast[t].slot]
  BY StoreWrites
<1>3. pc' = IF ~Complete(now) THEN "expire" ELSE IF fromSlowMap THEN "resurrect" ELSE "finish"
  <2> DEFINE item == Item(bufItem)
             new == [item EXCEPT !.offsets = @ \cup {pkt.offset},
                                 !.memory[pkt.offset] = pkt.tick]
  <2>1. pc' = IF ~Complete(new) THEN "expire" ELSE IF fromSlowMap THEN "resurrect" ELSE "finish"
    BY Zenon DEF StorePacket
  <2>2. new.offsets = item.offsets \cup {pkt.offset}
    <3>1. item \in Bodies
      <4>1. Belongs(tick)
        BY <1>0, <1>1 DEF Linked
      <4>2. CASE bufItem = InCopy(tick)
        <5>1. item = copies[tick].body /\ copies[tick] \in Copies
          BY <1>0, <4>2, ItemsAt, Zenon DEF Contents
        <5> QED BY <5>1 DEF Copies
      <4>3. CASE tick \in DOMAIN fast /\ bufItem = InRing(fast[tick].slot)
        <5>1. item = body[fast[tick].slot]
          BY <4>3, ItemsAt, Zenon
        <5> QED BY <1>0, <4>3, <5>1 DEF Contents, MapTypes, Waiting
      <4> QED BY <4>1, <4>2, <4>3 DEF Belongs
    <3> HIDE DEF item
    <3> QED BY <3>1 DEF Bodies
  <2> HIDE DEF new, item, now
  <2>3. Complete(new) <=> Complete(now)
    BY <1>2, <2>2 DEF Complete, item
  <2> QED BY <2>1, <2>3
<1> HIDE DEF now
<1>4. Complete(now) <=> now.offsets = OffsetsOf(tick)
  BY <1>2, CompleteIsAll DEF Building, BuildingWith
<1>5. pc' \in {"expire", "resurrect", "finish"} /\ (pc' # "expire" => now.offsets = OffsetsOf(tick))
      /\ (pc' = "expire" => now.offsets # OffsetsOf(tick))
      /\ (pc' = "resurrect" => fromSlowMap) /\ (pc' = "finish" => ~fromSlowMap)
  BY <1>3, <1>4
<1> HIDE DEF tick
<1>6. RingStays /\ SlowLess
  BY <1>1, SupplyStays DEF SlowLess
<1>7. RingInv' /\ OneEach'
  <2>1. UNCHANGED <<filling, claimed, fast>> /\ pc # "passOn" /\ pc' # "passOn"
    BY <1>1, <1>5, <1>6 DEF RingStays
  <2> QED BY <1>0, <1>6, <2>1, RingSame, EachSame
<1>8. Highest'
  <2>1. ~AboveLimit /\ pc' # "get" /\ pc' # "limit"
    BY <1>0, <1>1, <1>5 DEF Highest
  <2> QED BY <1>0, <1>1, <1>6, <2>1, HighestSame
<1>9. Belongs(tick)
  BY <1>0, <1>1 DEF Linked, tick
<1>10. fromSlowMap => tick \in DOMAIN slow /\ bufItem = InCopy(tick)
  BY <1>0, <1>1 DEF Linked, tick
<1>11. Begun'
  <2>1. fromSlowMap => \A t \in DOMAIN fast : Recent(t)
    BY <1>0, <1>1 DEF Begun
  <2>2. ~bufItem.copy => Recent(tick)
    BY <1>0, <1>1 DEF Begun, tick
  <2>3. \A t : Recent(t)' <=> Recent(t)
    BY <1>1 DEF Recent, TooLong
  <2>4. /\ \A t \in DOMAIN fast : fast[t].time <= microSec
        /\ \A t, u \in DOMAIN fast : t < u => fast[t].time <= fast[u].time
    BY <1>0 DEF Begun
  <2>5. Recent(pkt.tick)' <=> Recent(tick)
    BY <1>1 DEF Recent, TooLong, tick
  <2>6. Recent(prevTick)' <=> Recent(tick)
    BY <1>1 DEF Recent, TooLong, tick
  <2>7. \A t \in DOMAIN fast' : fast'[t].time <= microSec'
    BY <1>1, <2>4
  <2>8. \A t, u \in DOMAIN fast' : t < u => fast'[t].time <= fast'[u].time
    BY <1>1, <2>4
  <2>9. (pc' = "resurrect" /\ fromSlowMap') => \A t \in DOMAIN fast' : Recent(t)'
    BY <1>1, <2>1, <2>3
  <2>10. ~bufItem'.copy => Recent(pkt.tick)' /\ Recent(prevTick)'
    BY <1>1, <2>2, <2>5, <2>6
  <2> QED BY <1>5, <2>7, <2>8, <2>9, <2>10 DEF Begun
<1>12. Linked'
  <2>1. Belongs(tick)'
    BY <1>1, <1>9 DEF Belongs, tick
  <2> QED BY <1>1, <1>5, <1>10, <2>1 DEF Linked, tick
<1>13. \A t \in DOMAIN fast :
         (t = tick /\ ~bufItem.copy) \/ body'[fast[t].slot] = body[fast[t].slot]
  BY <1>2
<1>14. Contents'
  <2>1. \A t \in Ticks : LiveCopy(t)' <=> LiveCopy(t)
    BY <1>1 DEF LiveCopy
  <2>2. ASSUME NEW t \in Ticks, LiveCopy(t)' PROVE Building(copies[t].body, t)'
    <3>1. CASE bufItem.copy /\ t = tick
      BY <1>1, <1>2, <3>1 DEF Building
    <3>2. CASE ~(bufItem.copy /\ t = tick)
      BY <1>0, <1>1, <1>2, <2>1, <2>2, <3>2 DEF Contents, Building
    <3> QED BY <3>1, <3>2
  <2>3. ASSUME NEW t \in DOMAIN fast PROVE BuildingWith(body'[fast[t].slot], t, net)
    <3>1. CASE t = tick /\ ~bufItem.copy
      BY <1>2, <3>1 DEF Building
    <3>2. CASE body'[fast[t].slot] = body[fast[t].slot]
      BY <1>0, <3>2 DEF Contents, Building
    <3> QED BY <1>13, <3>1, <3>2
  <2>4. \A t \in DOMAIN fast' : Building(body[fast[t].slot], t)'
    BY <1>1, <2>3 DEF Building
  <2> QED BY <1>0, <1>1, <1>2, <2>2, <2>4 DEF Contents
<1>15. Arrived'
  <2>1. pc' \in {"finish", "resurrect"} => Item(bufItem)'.offsets = OffsetsOf(pkt'.tick)
    BY <1>1, <1>5 DEF now, tick
  <2>2. ASSUME NEW t \in DOMAIN fast, body'[fast[t].slot].offsets = OffsetsOf(t)
        PROVE  pc' = "finish" /\ t = tick
    <3>1. CASE t = tick /\ ~bufItem.copy
      <4>1. now.offsets = OffsetsOf(tick)
        BY <1>2, <2>2, <3>1
      <4>2. ~fromSlowMap
        BY <1>10, <3>1, Refs
      <4> QED BY <1>5, <3>1, <4>1, <4>2
    <3>2. CASE body'[fast[t].slot] = body[fast[t].slot]
      BY <1>0, <1>1, <2>2, <3>2 DEF Arrived
    <3> QED BY <1>13, <3>1, <3>2
  <2> QED BY <1>1, <1>5, <2>1, <2>2 DEF Arrived, tick
<1> QED BY <1>7, <1>8, <1>11, <1>12, <1>14, <1>15 DEF Sound

-----------------------------------------------------------------------------
(* The buffers, in every behaviour.                                        *)

\* What is remembered stays, and releasing knows no order.
LEMMA UpsetStep ==
  ASSUME [Next]_vars
  PROVE  /\ upset \subseteq upset' /\ dumpBufs' = dumpBufs
         /\ "outOfOrder" \in upset' => "outOfOrder" \in upset \/ ~dumpBufs
<1>1. ASSUME NEW p \in net, NEW again \in BOOLEAN, Receive(p, again)
      PROVE  /\ upset \subseteq upset' /\ dumpBufs' = dumpBufs
             /\ "outOfOrder" \in upset' => "outOfOrder" \in upset
  BY <1>1 DEF Receive, ReceiveSameTick, ReceiveKnownTick, ReceiveLateTick, ReceiveRestart,
              ReceiveNewTick, Recv, Remember
<1>2. CASE ClearOldest \/ PassOn
  <2>1. PICK ref : Remember("outOfOrder", OutOfOrder(ref)) /\ dumpBufs' = dumpBufs
    BY <1>2, Zenon DEF ClearOldest, PassOn
  <2> QED BY <2>1 DEF Remember, OutOfOrder
<1>3. CASE MoveOldest \/ MoveExpired
  <2>1. PICK tick, ref : MoveToSlow(tick, ref)
    BY <1>3, Zenon DEF MoveOldest, MoveExpired
  <2>2. PICK out : Remember("outOfOrder", OutOfOrder(out)) /\ dumpBufs' = dumpBufs
    BY <2>1, Zenon DEF MoveToSlow
  <2> QED BY <2>2 DEF Remember, OutOfOrder
<1>4. CASE Finish
  <2>1. /\ dumpBufs' = dumpBufs
        /\ upset' = upset \cup (IF OutOfOrder(bufItem) THEN {"outOfOrder"} ELSE {})
                          \cup (IF bufItem.copy THEN {"copyReturned"} ELSE {})
    BY <1>4, Zenon DEF Finish
  <2> QED BY <2>1 DEF OutOfOrder
<1>5. CASE \/ RecvFails \/ ClearSlow \/ GetBuffer \/ BelowLimit \/ IgnoreDuplicate \/ StorePacket
           \/ Resurrect \/ DiscardExpired \/ ReadBuffer \/ ReleaseRead \/ UNCHANGED vars
  <2>1. UNCHANGED <<upset, dumpBufs>>
    BY <1>5, Zenon DEF RecvFails, ClearSlow, GetBuffer, BelowLimit, IgnoreDuplicate, StorePacket,
         Resurrect, DiscardExpired, ReadBuffer, ReleaseRead, vars
  <2> QED BY <2>1
<1> QED BY <1>1, <1>2, <1>3, <1>4, <1>5 DEF Next, Work, Finished

LEMMA BuffersStep ==
  ASSUME MapTypes, Buffers, [Next]_vars
  PROVE  Buffers'
<1> SUFFICES ASSUME Clean' PROVE Sound'
  BY DEF Buffers
<1>1. Sound
  <2>1. Clean
    BY UpsetStep DEF Clean
  <2> QED BY <2>1 DEF Buffers
<1>2. ASSUME NEW p \in net, NEW again \in BOOLEAN, Receive(p, again) PROVE Sound'
  BY <1>1, <1>2, ReceiveKeepsSound
<1>3. CASE RecvFails
  BY <1>1, <1>3, FailKeepsSound
<1>4. CASE ClearOldest
  BY <1>1, <1>4, ClearOldestKeepsSound
<1>5. CASE ClearSlow
  BY <1>1, <1>5, ClearSlowKeepsSound
<1>6. CASE GetBuffer
  BY <1>1, <1>6, GetKeepsSound
<1>7. CASE MoveOldest
  BY <1>1, <1>7, MoveOldestKeepsSound
<1>8. CASE BelowLimit
  BY <1>1, <1>8, BelowKeepsSound
<1>9. CASE IgnoreDuplicate
  BY <1>1, <1>9, NoDuplicate
<1>10. CASE StorePacket
  BY <1>1, <1>10, StoreKeepsSound
<1>11. CASE Finish
  BY <1>1, <1>11, FinishKeepsSound
<1>12. CASE Resurrect
  BY <1>1, <1>12, ResurrectKeepsSound
<1>13. CASE PassOn
  BY <1>1, <1>13, PassOnKeepsSound
<1>14. CASE MoveExpired
  BY <1>1, <1>14, MoveExpiredKeepsSound
<1>15. CASE DiscardExpired
  BY <1>1, <1>15, DiscardKeepsSound
<1>16. CASE ReadBuffer \/ ReleaseRead \/ UNCHANGED vars
  BY <1>1, <1>16, ReaderKeepsSound
<1> QED BY <1>2, <1>3, <1>4, <1>5, <1>6, <1>7, <1>8, <1>9, <1>10, <1>11, <1>12, <1>13,
           <1>14, <1>15, <1>16 DEF Next, Work, Finished

LEMMA BuffersInit == Init => Buffers
<1> SUFFICES ASSUME Init PROVE Sound
  BY DEF Buffers
<1> USE TieredAssumption
<1>1. /\ pc = "recv" /\ fast = << >> /\ slow = << >> /\ bufItem = NoItem /\ prevBufItem = NoItem
      /\ prevTick = NoTickYet /\ microSec = 0 /\ fromSlowMap = FALSE
      /\ net = Packets /\ filling = {} /\ claimed = -1 /\ cursor = -1 /\ sequence = -1
      /\ lastSequenceReleased = -1 /\ maxSequence = -1 /\ between = 0
      /\ nextConsumerSequence = 0 /\ availableConsumerSequence = -1 /\ done = {}
      /\ users = [s \in S!Seqs |-> 0] /\ items = [i \in S!Slots |-> S!NewItem]
      /\ body = [i \in S!Slots |-> NewBody]
      /\ copies = [t \in Ticks |-> [body |-> NewBody, producerSequence |-> 0]]
      /\ dumpBufs \in BOOLEAN
  BY DEF Init, S!Init, Packets
<1>2. DOMAIN fast = {} /\ DOMAIN slow = {}
  BY <1>1, EmptyDomain
<1>3. RingInv
  <2>1. S!NewItem \in S!SupplyItem
    <3>1. 0 \in S!Seqs /\ FALSE \in BOOLEAN /\ 0 \in Int
      BY DEF S!Seqs
    <3> QED BY <3>1, Zenon DEF S!NewItem, S!SupplyItem
  <2>2. items \in [S!Slots -> S!SupplyItem]
    <3> DEFINE item == S!NewItem
    <3> HIDE DEF item
    <3>1. items = [i \in S!Slots |-> item] /\ item \in S!SupplyItem
      BY <1>1, <2>1 DEF item
    <3> QED BY <3>1
  <2>3. RingTypes
    <3>1. -1 \in -1 .. MaxSeq /\ 0 \in 0 .. MaxSeq + 1 /\ 0 \in Nat
      OBVIOUS
    <3> QED BY <1>1, <2>2, <3>1 DEF RingTypes
  <2>4. S!GateInv
    BY <1>1 DEF S!GateInv
  <2>5. S!ReleasedInv
    BY <1>1 DEF S!ReleasedInv, S!Seqs
  <2>6. S!BetweenCounts
    <3>1. Middle(done, sequence, maxSequence) = {}
      BY <1>1 DEF Middle
    <3> QED BY <1>1, <3>1, CountsMiddle, FS_EmptySet
  <2>7. FillingInv
    <3>1. 0 .. claimed = {} /\ \A s \in S!Seqs : ~(s <= claimed) /\ ~(users[s] > 0)
      BY <1>1 DEF S!Seqs
    <3> QED BY <1>1, <3>1 DEF FillingInv
  <2> QED BY <2>3, <2>4, <2>5, <2>6, <2>7 DEF RingInv
<1>4. OneEach
  BY <1>1, <1>2 DEF OneEach
<1>5. Highest
  <2>1. Cardinality(DOMAIN fast) = 0
    BY <1>2, FS_EmptySet, Zenon
  <2> QED BY <1>1, <1>2, <2>1 DEF Highest, AboveLimit
<1>6. Begun
  BY <1>1, <1>2 DEF Begun
<1>7. Linked
  <2>1. \A p \in net : p.tick # prevTick
    BY <1>1 DEF Packets, NoTickYet
  <2> QED BY <1>1, <2>1 DEF Linked
<1>8. Contents
  <2>1. NewBody \in Bodies
    <3>1. [o \in Offsets |-> NoTick] \in [Offsets -> Ticks \cup {NoTick}]
      OBVIOUS
    <3> QED BY <3>1 DEF NewBody, Bodies
  <2> DEFINE new == NewBody
  <2> HIDE DEF new
  <2>2. new \in Bodies /\ body = [i \in S!Slots |-> new]
        /\ copies = [t \in Ticks |-> [body |-> new, producerSequence |-> 0]]
    BY <1>1, <2>1 DEF new
  <2>3. body \in [S!Slots -> Bodies] /\ copies \in [Ticks -> Copies]
    BY <2>2 DEF Copies
  <2>4. \A t : bufItem # InCopy(t)
    BY <1>1, Refs, Zenon
  <2> QED BY <1>2, <2>3, <2>4 DEF Contents, LiveCopy
<1>9. Arrived
  BY <1>1, <1>2 DEF Arrived
<1> QED BY <1>3, <1>4, <1>5, <1>6, <1>7, <1>8, <1>9 DEF Sound

LEMMA BuffersAlways == Spec => [](TiersInv /\ Buffers /\ NotOutOfOrder)
<1>1. Init => NotOutOfOrder
  BY DEF Init, NotOutOfOrder
<1>2. NotOutOfOrder /\ [Next]_vars => NotOutOfOrder'
  BY UpsetStep DEF NotOutOfOrder
<1>3. TiersInv => MapTypes
  BY DEF TiersInv
<1>4. TiersInv /\ Buffers /\ [Next]_vars => Buffers'
  BY <1>3, BuffersStep
<1>5. TiersInv /\ [Next]_vars => TiersInv'
  BY TiersStep
<1> QED BY <1>1, <1>2, <1>4, <1>5, TiersInit, BuffersInit, PTL DEF Spec

-----------------------------------------------------------------------------
(* What the buffers promise.                                               *)

\* An event that is counted as built is whole, in whatever order its packets
\* came and wherever it waited (packetBlasteeFullNewMP.cc:1443), for every
\* number of events, packets and buffers.
THEOREM TieredWhole == Spec => []BuiltIsWhole
<1>1. TiersInv /\ Buffers /\ NotOutOfOrder => BuiltIsWhole
  <2> SUFFICES ASSUME TiersInv, Buffers, NotOutOfOrder PROVE BuiltIsWhole
    OBVIOUS
  <2> SUFFICES ASSUME Clean, pc \in {"finish", "resurrect"} PROVE Whole(Item(bufItem), pkt.tick)
    BY DEF BuiltIsWhole, Clean
  <2>1. Linked /\ Contents /\ Arrived
    BY DEF Buffers, Sound
  <2>2. Building(Item(bufItem), pkt.tick)
    <3>1. Belongs(pkt.tick)
      BY <2>1 DEF Linked
    <3> QED BY <2>1, <3>1, BelongsRef, BuildingItem
  <2>3. Item(bufItem).offsets = OffsetsOf(pkt.tick)
    BY <2>1 DEF Arrived
  <2> QED BY <2>2, <2>3 DEF Building, BuildingWith, Whole
<1> QED BY <1>1, BuffersAlways, PTL

\* Between packets the buffers that are not back are those of the fast map, so
\* that none is lost: each was handed back once, when its event left the map.
THEOREM TieredReturns == Spec => []NoBufferLost
<1>1. TiersInv /\ Buffers /\ NotOutOfOrder => NoBufferLost
  <2> SUFFICES ASSUME TiersInv, Buffers, NotOutOfOrder PROVE NoBufferLost
    OBVIOUS
  <2> SUFFICES ASSUME Clean, pc = "recv"
               PROVE  filling = {items[fast[t].slot].producerSequence : t \in DOMAIN fast}
    BY DEF NoBufferLost, Clean
  <2>1. RingInv /\ OneEach
    BY DEF Buffers, Sound
  <2>2. \A s \in filling : items[S!Slot(s)].producerSequence = s
    BY <2>1 DEF RingInv, FillingInv
  <2>3. \A s \in filling : \E t \in DOMAIN fast : items[fast[t].slot].producerSequence = s
    BY <2>1, <2>2 DEF OneEach
  <2>4. \A t \in DOMAIN fast : items[fast[t].slot].producerSequence \in filling
    BY <2>1, <2>2 DEF OneEach
  <2> QED BY <2>3, <2>4
<1> QED BY <1>1, BuffersAlways, PTL

\* When there is no room and yet every buffer is back, the gate would have moved.
LEMMA SomeMissing ==
  ASSUME RingInv, ~S!RoomFor(1), claimed < MaxSeq
  PROVE  0 .. claimed \ done # {}
<1> SUFFICES ASSUME \A s \in 0 .. claimed : s \in done PROVE FALSE
  OBVIOUS
<1> USE TieredAssumption
<1>1. /\ claimed \in Int /\ sequence \in Int /\ maxSequence \in Int /\ claimed >= -1
      /\ sequence >= -1 /\ done \subseteq S!Seqs
      /\ lastSequenceReleased = sequence /\ sequence <= maxSequence /\ maxSequence <= claimed
      /\ (sequence < maxSequence => maxSequence - sequence - 1 # between)
      /\ \A s \in done : s <= maxSequence
  BY DEF RingInv, RingTypes, S!GateInv, S!ReleasedInv
<1>2. sequence < claimed
  BY <1>1 DEF S!RoomFor
<1>3. claimed \in done
  BY <1>1, <1>2
<1>4. maxSequence = claimed
  BY <1>1, <1>3
<1>5. between = Cardinality(Middle(done, sequence, maxSequence))
  BY CountsMiddle DEF RingInv
<1>6. Middle(done, sequence, maxSequence) = sequence + 1 .. maxSequence - 1
  <2>1. \A s \in sequence + 1 .. maxSequence - 1 : s \in done
    BY <1>1, <1>4
  <2>2. \A s \in done : s \in Int
    BY <1>1 DEF S!Seqs
  <2> QED BY <1>1, <2>1, <2>2 DEF Middle
<1>7. Cardinality(sequence + 1 .. maxSequence - 1) = maxSequence - sequence - 1
  <2>1. sequence + 1 \in Int /\ maxSequence - 1 \in Int
    BY <1>1
  <2>2. Cardinality(sequence + 1 .. maxSequence - 1)
           = IF sequence + 1 > maxSequence - 1 THEN 0
             ELSE (maxSequence - 1) - (sequence + 1) + 1
    BY <2>1, FS_Interval, Zenon
  <2> QED BY <1>1, <1>2, <1>4, <2>2
<1> QED BY <1>1, <1>2, <1>4, <1>5, <1>6, <1>7

\* When the thread waits for a buffer (packetBlasteeFullNewMP.cc:1323) it is for
\* those of unfinished events that were not overdue when the clock was last read,
\* and there is one, for every size of the supply and of the fast map.  As only
\* this thread gives buffers back, the wait has no end.
THEOREM TieredWaits == Spec => []WaitsForNoneOverdue
<1>1. TiersInv /\ Buffers /\ NotOutOfOrder => WaitsForNoneOverdue
  <2> SUFFICES ASSUME TiersInv, Buffers, NotOutOfOrder PROVE WaitsForNoneOverdue
    OBVIOUS
  <2> SUFFICES ASSUME dumpBufs, upset \cap {"duplicate", "alias", "copyReturned"} = {},
                      pc \in {"get", "resurrect"}, claimed < MaxSeq, ~S!RoomFor(1)
               PROVE  LET missing == 0 .. claimed \ done
                      IN  /\ missing # {}
                          /\ \A s \in missing : \E t \in DOMAIN fast :
                                /\ items[fast[t].slot].producerSequence = s
                                /\ body[fast[t].slot].offsets # OffsetsOf(t)
                                /\ microSec - fast[t].time < FastStore
    BY DEF WaitsForNoneOverdue
  <2>1. Clean
    BY DEF NotOutOfOrder, Clean
  <2>2. RingInv /\ OneEach /\ Begun /\ Linked /\ Arrived
    BY <2>1 DEF Buffers, Sound
  <2>3. 0 .. claimed \ done # {}
    BY <2>2, SomeMissing
  <2>4. ASSUME NEW s \in 0 .. claimed \ done
        PROVE  \E t \in DOMAIN fast :
                  /\ items[fast[t].slot].producerSequence = s
                  /\ body[fast[t].slot].offsets # OffsetsOf(t)
                  /\ microSec - fast[t].time < FastStore
    <3>1. s \in filling /\ items[S!Slot(s)].producerSequence = s
      BY <2>2, <2>4 DEF RingInv, FillingInv
    <3>2. PICK t \in DOMAIN fast : fast[t].slot = S!Slot(s)
      BY <2>2, <3>1 DEF OneEach
    <3>3. body[fast[t].slot].offsets # OffsetsOf(t)
      BY <2>2, <3>2 DEF Arrived
    <3>4. Recent(t)
      BY <2>2, <3>2 DEF Begun, Linked
    <3>5. microSec \in Nat /\ fast[t].time \in Nat /\ FastStore \in Nat
      BY <3>2, TieredAssumption DEF TiersInv, MapTypes, Waiting
    <3>6. microSec - fast[t].time < FastStore
      BY <3>4, <3>5 DEF Recent, TooLong
    <3> QED BY <3>1, <3>2, <3>3, <3>6
  <2> QED BY <2>3, <2>4
<1> QED BY <1>1, BuffersAlways, PTL

-----------------------------------------------------------------------------
(* What rateThread prints.                                                 *)

\* An event is counted as built before it leaves its map.
Leaving == IF pc \in {"finish", "resurrect", "passOn"} THEN 1 ELSE 0
InFastMap == Cardinality(DOMAIN fast)
InSlowMap == Cardinality(DOMAIN slow)

Balanced == stats.opened + Leaving = stats.built + stats.discarded + InFastMap + InSlowMap

LEMMA CountedIsBalanced == Counted <=> (upset = {} => Balanced)
BY DEF Counted, Balanced, Leaving, InFastMap, InSlowMap

LEMMA MapSizes ==
  ASSUME MapTypes
  PROVE  /\ InFastMap \in Nat /\ InSlowMap \in Nat
         /\ IsFiniteSet(DOMAIN fast) /\ IsFiniteSet(DOMAIN slow)
         /\ stats.opened \in Nat /\ stats.built \in Nat /\ stats.discarded \in Nat
<1>1. IsFiniteSet(DOMAIN fast) /\ IsFiniteSet(DOMAIN slow)
  BY FiniteMaps DEF MapTypes
<1>2. stats.opened \in Nat /\ stats.built \in Nat /\ stats.discarded \in Nat
  BY DEF MapTypes
<1> QED BY <1>1, <1>2, FS_CardinalityType DEF InFastMap, InSlowMap

LEMMA OneMore ==
  ASSUME NEW T, IsFiniteSet(T), NEW x, x \notin T
  PROVE  Cardinality(T \cup {x}) = Cardinality(T) + 1
BY FS_AddElement

LEMMA OneFewer ==
  ASSUME NEW T, IsFiniteSet(T), NEW x \in T
  PROVE  Cardinality(T \ {x}) = Cardinality(T) - 1
BY FS_RemoveElement

\* A step that neither counts nor changes a map.
LEMMA CountsSame ==
  ASSUME Balanced, UNCHANGED <<stats, fast, slow>>, Leaving' = Leaving
  PROVE  Balanced'
BY DEF Balanced, InFastMap, InSlowMap

LEMMA GetCounts ==
  ASSUME MapTypes, Sound, Balanced, GetBuffer
  PROVE  Balanced'
<1>1. /\ pc = "get" /\ pc' = "limit" /\ stats' = [stats EXCEPT !.opened = @ + 1]
      /\ slow' = slow
      /\ fast' = With(fast, pkt.tick, [slot |-> S!Slot(claimed + 1), time |-> microSec'])
  BY Zenon DEF GetBuffer
<1>2. DOMAIN fast' = DOMAIN fast \cup {pkt.tick}
  BY <1>1 DEF With
<1>3. pkt.tick \notin DOMAIN fast
  <2>1. DOMAIN fast \subseteq Nat
    BY TieredAssumption DEF MapTypes
  <2> QED BY <1>1, <2>1 DEF Sound, Highest
<1>4. InFastMap' = InFastMap + 1 /\ InSlowMap' = InSlowMap
  BY <1>1, <1>2, <1>3, MapSizes, OneMore DEF InFastMap, InSlowMap
<1>5. stats'.opened = stats.opened + 1 /\ stats'.built = stats.built
      /\ stats'.discarded = stats.discarded
  BY <1>1 DEF MapTypes
<1>6. Leaving = 0 /\ Leaving' = 0
  BY <1>1 DEF Leaving
<1> QED BY <1>4, <1>5, <1>6, MapSizes DEF Balanced

LEMMA MoveCounts ==
  ASSUME TiersInv, Balanced, NEW tick \in DOMAIN fast, NEW ref, MoveToSlow(tick, ref),
         "restart" \notin upset, Leaving' = Leaving
  PROVE  Balanced'
<1> DEFINE kept == IF SlowMapFull THEN Without(slow, {Oldest(slow)}) ELSE slow
<1>0. MapTypes /\ DOMAIN slow \subseteq Ticks /\ DOMAIN fast \subseteq Nat
      /\ largestSlowTick \in Int
  BY TieredAssumption DEF TiersInv, MapTypes, NoTickYet
<1>1. /\ slow' = With(kept, tick, [ref |-> ref, time |-> microSec])
      /\ stats' = IF SlowMapFull THEN [stats EXCEPT !.discarded = @ + 1] ELSE stats
      /\ fast' = Without(fast, {tick})
  BY Zenon DEF MoveToSlow
<1>2. DOMAIN fast' = DOMAIN fast \ {tick} /\ DOMAIN slow' = DOMAIN kept \cup {tick}
  BY <1>1 DEF With, Without
<1>3. tick \notin DOMAIN slow
  <2>1. largestSlowTick < tick /\ \A t \in DOMAIN slow : t <= largestSlowTick
    BY DEF TiersInv, TiersOrdered
  <2> QED BY <1>0, <2>1
<1>4. InFastMap' = InFastMap - 1
  BY <1>0, <1>2, MapSizes, OneFewer DEF InFastMap
<1>5. CASE SlowMapFull
  <2>1. DOMAIN slow # {}
    <3>1. Cardinality({}) = 0
      BY FS_EmptySet
    <3> QED BY <1>5, <3>1, TieredAssumption DEF SlowMapFull
  <2>2. Oldest(slow) \in DOMAIN slow
    BY <1>0, <2>1, OldestIn
  <2>3. DOMAIN kept = DOMAIN slow \ {Oldest(slow)}
    BY <1>5 DEF Without
  <2>4. Cardinality(DOMAIN kept) = InSlowMap - 1 /\ IsFiniteSet(DOMAIN kept)
    <3>1. IsFiniteSet(DOMAIN slow)
      BY <1>0, MapSizes
    <3>2. IsFiniteSet(DOMAIN kept)
      <4>1. IsFiniteSet(DOMAIN slow \ {Oldest(slow)})
        BY <3>1, FS_Difference, Zenon
      <4> QED BY <2>3, <4>1
    <3>3. Cardinality(DOMAIN kept) = InSlowMap - 1
      BY <2>2, <2>3, <3>1, OneFewer DEF InSlowMap
    <3> QED BY <3>2, <3>3
  <2> HIDE DEF kept
  <2>5. InSlowMap' = (InSlowMap - 1) + 1
    <3>1. tick \notin DOMAIN kept
      BY <1>3, <2>3
    <3> QED BY <1>2, <2>4, <3>1, OneMore DEF InSlowMap
  <2>6. stats'.opened = stats.opened /\ stats'.built = stats.built
        /\ stats'.discarded = stats.discarded + 1
    BY <1>0, <1>1, <1>5 DEF MapTypes
  <2>7. Leaving \in Nat
    BY DEF Leaving
  <2> QED BY <1>0, <1>4, <2>5, <2>6, <2>7, MapSizes DEF Balanced
<1>6. CASE ~SlowMapFull
  <2>1. InSlowMap' = InSlowMap + 1
    BY <1>0, <1>2, <1>3, <1>6, MapSizes, OneMore DEF InSlowMap
  <2>2. stats' = stats
    BY <1>1, <1>6
  <2>3. Leaving \in Nat
    BY DEF Leaving
  <2> QED BY <1>0, <1>4, <2>1, <2>2, <2>3, MapSizes DEF Balanced
<1> QED BY <1>5, <1>6

LEMMA StoreCounts ==
  ASSUME MapTypes, Balanced, StorePacket
  PROVE  Balanced'
<1> DEFINE item == Item(bufItem)
           now == [item EXCEPT !.offsets = @ \cup {pkt.offset},
                               !.memory[pkt.offset] = pkt.tick]
<1>1. /\ pc = "store"
      /\ pc' = IF ~Complete(now) THEN "expire" ELSE IF fromSlowMap THEN "resurrect" ELSE "finish"
      /\ stats' = IF Complete(now) THEN [stats EXCEPT !.built = @ + 1] ELSE stats
      /\ UNCHANGED <<fast, slow>>
  BY Zenon DEF StorePacket, maps
<1> HIDE DEF now
<1>2. InFastMap' = InFastMap /\ InSlowMap' = InSlowMap /\ Leaving = 0
  BY <1>1 DEF InFastMap, InSlowMap, Leaving
<1>3. CASE Complete(now)
  <2>1. stats'.opened = stats.opened /\ stats'.built = stats.built + 1
        /\ stats'.discarded = stats.discarded
    BY <1>1, <1>3 DEF MapTypes
  <2>2. Leaving' = 1
    BY <1>1, <1>3 DEF Leaving
  <2> QED BY <1>2, <2>1, <2>2, MapSizes DEF Balanced
<1>4. CASE ~Complete(now)
  <2>1. stats' = stats /\ Leaving' = 0
    BY <1>1, <1>4 DEF Leaving
  <2> QED BY <1>2, <2>1, MapSizes DEF Balanced
<1> QED BY <1>3, <1>4

LEMMA LeaveCounts ==
  ASSUME MapTypes, Sound, Balanced, Finish \/ PassOn, Clean'
  PROVE  Balanced'
<1>0. Linked
  BY DEF Sound
<1>1. CASE Finish
  <2>1. /\ pc = "finish" /\ pc' = "expire"
        /\ (bufItem.copy => "copyReturned" \in upset')
        /\ fast' = Without(fast, {pkt.tick}) /\ UNCHANGED <<slow, stats>>
    BY <1>1, Zenon DEF Finish, FastAfterFinish
  <2>2. pkt.tick \in DOMAIN fast
    <3>1. ~bufItem.copy
      BY <2>1 DEF Clean
    <3> QED BY <1>0, <2>1, <3>1, Refs DEF Linked, Belongs
  <2>3. DOMAIN fast' = DOMAIN fast \ {pkt.tick}
    BY <2>1 DEF Without
  <2>4. InFastMap' = InFastMap - 1 /\ InSlowMap' = InSlowMap
    BY <2>1, <2>2, <2>3, MapSizes, OneFewer DEF InFastMap, InSlowMap
  <2>5. Leaving = 1 /\ Leaving' = 0
    BY <2>1 DEF Leaving
  <2> QED BY <2>1, <2>4, <2>5, MapSizes DEF Balanced
<1>2. CASE PassOn
  <2>1. /\ pc = "passOn" /\ pc' = "expire"
        /\ slow' = Without(slow, {pkt.tick}) /\ UNCHANGED <<fast, stats>>
    BY <1>2, Zenon DEF PassOn
  <2>2. pkt.tick \in DOMAIN slow
    BY <1>0, <2>1 DEF Linked
  <2>3. DOMAIN slow' = DOMAIN slow \ {pkt.tick}
    BY <2>1 DEF Without
  <2>4. InSlowMap' = InSlowMap - 1 /\ InFastMap' = InFastMap
    BY <2>1, <2>2, <2>3, MapSizes, OneFewer DEF InFastMap, InSlowMap
  <2>5. Leaving = 1 /\ Leaving' = 0
    BY <2>1 DEF Leaving
  <2> QED BY <2>1, <2>4, <2>5, MapSizes DEF Balanced
<1> QED BY <1>1, <1>2

LEMMA DiscardCounts ==
  ASSUME MapTypes, Balanced, DiscardExpired
  PROVE  Balanced'
<1>1. /\ slow' = Without(slow, Expired)
      /\ stats' = [stats EXCEPT !.discarded = @ + Cardinality(Expired)]
      /\ pc = "expire" /\ pc' = "recv" /\ fast' = fast
  BY Zenon DEF DiscardExpired, SlowAfterExpiry
<1>2. DOMAIN slow' = DOMAIN slow \ Expired
  BY <1>1 DEF Without
<1>3. Expired \subseteq DOMAIN slow /\ DOMAIN slow \cap Expired = Expired
  BY DEF Expired
<1> DEFINE n == Cardinality(Expired)
<1>4. n \in Nat
  BY <1>3, MapSizes, FS_Subset, FS_CardinalityType
<1>5. InSlowMap' = InSlowMap - n /\ InFastMap' = InFastMap
  <2>1. Cardinality(DOMAIN slow \ Expired) = Cardinality(DOMAIN slow) - n
    BY <1>3, MapSizes, FS_Difference
  <2> QED BY <1>1, <1>2, <2>1 DEF InSlowMap, InFastMap
<1> HIDE DEF n
<1>6. stats'.opened = stats.opened /\ stats'.built = stats.built
      /\ stats'.discarded = stats.discarded + n
  BY <1>1 DEF MapTypes, n
<1>7. Leaving = 0 /\ Leaving' = 0
  BY <1>1 DEF Leaving
<1> QED BY <1>4, <1>5, <1>6, <1>7, MapSizes DEF Balanced

LEMMA CountedStep ==
  ASSUME TiersInv, Buffers, Counted, [Next]_vars
  PROVE  Counted'
<1> SUFFICES ASSUME upset' = {} PROVE Balanced'
  BY DEF Counted, Balanced, Leaving, InFastMap, InSlowMap
<1>1. upset = {} /\ Clean /\ Clean'
  BY UpsetStep DEF Clean
<1>2. Balanced /\ Sound /\ MapTypes /\ "restart" \notin upset /\ pc # "restart"
  BY <1>1, CountedIsBalanced DEF Buffers, TiersInv, TierInv
<1>3. ASSUME NEW p \in net, NEW again \in BOOLEAN, Receive(p, again) PROVE Balanced'
  <2>1. Looked(p)
    BY <1>1, <1>3, LookedUp
  <2>2. Recv(p, again)
    BY <1>3 DEF Receive, ReceiveSameTick, ReceiveKnownTick, ReceiveLateTick, ReceiveRestart,
                ReceiveNewTick
  <2>3. pc = "recv" /\ UNCHANGED <<stats, fast, slow>>
    BY <2>2, Zenon DEF Recv, maps
  <2>4. Leaving' = Leaving
    BY <2>1, <2>3 DEF Looked, Leaving
  <2> QED BY <1>2, <2>3, <2>4, CountsSame
<1>4. CASE ClearOldest \/ ClearSlow
  BY <1>2, <1>4 DEF ClearOldest, ClearSlow
<1>5. CASE GetBuffer
  BY <1>2, <1>5, GetCounts
<1>6. CASE MoveOldest
  <2>1. /\ pc = "limit" /\ pc' = "store" /\ AboveLimit
        /\ MoveToSlow(Oldest(fast), InCopy(Oldest(fast)))
    BY <1>6, Zenon DEF MoveOldest
  <2>2. Oldest(fast) \in DOMAIN fast
    BY <1>2, <2>1, LimitNotEmpty, OldestIn DEF MapTypes
  <2>3. Leaving' = Leaving
    BY <2>1 DEF Leaving
  <2> QED BY <1>2, <2>1, <2>2, <2>3, MoveCounts
<1>7. CASE MoveExpired
  <2>1. /\ pc' = pc /\ fast # << >>
        /\ MoveToSlow(Oldest(fast), InRing(fast[Oldest(fast)].slot))
    BY <1>7, Zenon DEF MoveExpired
  <2>2. Oldest(fast) \in DOMAIN fast
    BY <1>2, <2>1, NotEmpty, OldestIn DEF MapTypes
  <2>3. Leaving' = Leaving
    BY <2>1 DEF Leaving
  <2> QED BY <1>2, <2>1, <2>2, <2>3, MoveCounts
<1>8. CASE StorePacket
  BY <1>2, <1>8, StoreCounts
<1>9. CASE Finish \/ PassOn
  BY <1>1, <1>2, <1>9, LeaveCounts
<1>10. CASE DiscardExpired
  BY <1>2, <1>10, DiscardCounts
<1>11. CASE RecvFails \/ BelowLimit \/ IgnoreDuplicate \/ Resurrect
  <2>1. UNCHANGED <<stats, fast, slow>>
    BY <1>11, Zenon DEF RecvFails, BelowLimit, IgnoreDuplicate, Resurrect, maps
  <2>2. Leaving' = Leaving
    BY <1>11 DEF RecvFails, BelowLimit, IgnoreDuplicate, Resurrect, Leaving
  <2> QED BY <1>2, <2>1, <2>2, CountsSame
<1>12. CASE ReadBuffer \/ ReleaseRead \/ UNCHANGED vars
  <2>1. UNCHANGED <<pc, stats, fast, slow>>
    BY <1>12, Zenon DEF ReadBuffer, ReleaseRead, vars, maps
  <2>2. Leaving' = Leaving
    BY <2>1 DEF Leaving
  <2> QED BY <1>2, <2>1, <2>2, CountsSame
<1> QED BY <1>3, <1>4, <1>5, <1>6, <1>7, <1>8, <1>9, <1>10, <1>11, <1>12
        DEF Next, Work, Finished

\* What rateThread prints adds up after every packet, for every number of events
\* and whatever the sizes of the maps.
THEOREM TieredBalance == Spec => []StatsBalance
<1>1. Init => Counted
  <2> SUFFICES ASSUME Init PROVE Counted
    OBVIOUS
  <2>1. /\ fast = << >> /\ slow = << >> /\ pc = "recv"
        /\ stats = [built |-> 0, discarded |-> 0, opened |-> 0]
    BY DEF Init
  <2>2. Cardinality(DOMAIN fast) = 0 /\ Cardinality(DOMAIN slow) = 0
    BY <2>1, EmptyDomain, FS_EmptySet
  <2> QED BY <2>1, <2>2 DEF Counted
<1>2. TiersInv /\ Buffers /\ Counted /\ [Next]_vars => Counted'
  BY CountedStep
<1>3. TiersInv /\ Counted => StatsBalance
  <2> SUFFICES ASSUME TiersInv, Counted, upset = {}, pc = "recv"
               PROVE  stats.opened = stats.built + stats.discarded
                                     + Cardinality(DOMAIN fast) + Cardinality(DOMAIN slow)
    BY DEF StatsBalance
  <2>1. Balanced /\ Leaving = 0
    BY CountedIsBalanced DEF Leaving
  <2> QED BY <2>1, MapSizes DEF Balanced, TiersInv, InFastMap, InSlowMap
<1> QED BY <1>1, <1>2, <1>3, BuffersAlways, PTL DEF Spec

=============================================================================
