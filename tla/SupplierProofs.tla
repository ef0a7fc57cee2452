--------------------------- MODULE SupplierProofs ---------------------------
(***************************************************************************)
(* Theorems about Supplier for every ring size, batch size, number of      *)
(* users and length of history, and that it implements the pool of items   *)
(* of ItemPool (SupplierPool).                                             *)
(***************************************************************************)
EXTENDS SupplierPool, FiniteSetTheorems, SequenceTheorems, TLAPS

-----------------------------------------------------------------------------
(* Arithmetic of slots.                                                    *)

\* A slot index is an index of the ring.
LEMMA SlotType ==
  ASSUME NEW s \in Nat
  PROVE  Slot(s) \in Slots
BY RingSizeAssumption, SMT DEF Slot, Slots

\* What a number is made of when it is divided.
LEMMA DivMod ==
  ASSUME NEW R \in Nat \ {0}, NEW a \in Nat
  PROVE  /\ a = R * (a \div R) + (a % R)
         /\ a \div R \in Int
         /\ a % R \in Int
BY SMT

\* A positive multiple of R is not below R.
LEMMA MultipleBound ==
  ASSUME NEW R \in Nat \ {0}, NEW p \in Int, NEW q \in Int,
         R * q - R * p < R, R * q - R * p > 0
  PROVE  FALSE
<1>1. R * q - R * p = R * (q - p)
  BY SMT
<1>2. CASE q - p >= 1
  <2>1. R * (q - p) >= R
    BY <1>2, SMT
  <2> QED BY <2>1, <1>1, SMT
<1>3. CASE q - p <= 0
  <2>1. R * (p - q) >= 0
    BY <1>3, SMT
  <2>2. R * (q - p) = 0 - R * (p - q)
    BY SMT
  <2> QED BY <2>1, <2>2, <1>1, SMT
<1> QED BY <1>2, <1>3

\* Two sequences less than a ring apart lie in different slots.
LEMMA SlotsDiffer ==
  ASSUME NEW a \in Nat, NEW b \in Nat, a < b, b - a < RingSize
  PROVE  Slot(a) # Slot(b)
<1> DEFINE p == a \div RingSize
           q == b \div RingSize
<1> SUFFICES ASSUME a % RingSize = b % RingSize PROVE FALSE
  BY DEF Slot
<1>1. /\ a = RingSize * p + (a % RingSize)
      /\ b = RingSize * q + (b % RingSize)
      /\ p \in Int /\ q \in Int
      /\ a % RingSize \in Int
  BY RingSizeAssumption, DivMod
<1> HIDE DEF p, q
<1>2. RingSize * p \in Int /\ RingSize * q \in Int
  BY <1>1, RingSizeAssumption
<1>3. b - a = RingSize * q - RingSize * p
  BY <1>1, <1>2
<1>4. RingSize * q - RingSize * p < RingSize /\ RingSize * q - RingSize * p > 0
  BY <1>3, RingSizeAssumption
<1> QED BY <1>1, <1>4, RingSizeAssumption, MultipleBound

-----------------------------------------------------------------------------
(* Type correctness.                                                       *)

\* The constants of the type: a fresh item and a thread that loads nothing.
LEMMA ConstantTypes ==
  /\ 0 \in Seqs
  /\ NewItem \in SupplyItem
  /\ NoLoad \in Loads
<1>1. 0 \in Seqs /\ 0 \in Slots /\ 0 \in Int
  BY BoundAssumption, RingSizeAssumption DEF Seqs, Slots
<1>2. FALSE \in BOOLEAN
  OBVIOUS
<1> QED BY <1>1, <1>2, Zenon DEF NewItem, SupplyItem, NoLoad, Loads

\* The ways the operations change an item keep its type.
LEMMA ItemUpdates ==
  ASSUME NEW item \in SupplyItem, NEW s \in Seqs
  PROVE  /\ ResetItem(item, s) \in SupplyItem
         /\ AsIsItem(item, s) \in SupplyItem
         /\ [item EXCEPT !.consumerSequence = s, !.fromConsumerGet = TRUE]
               \in SupplyItem
<1>1. ResetItem(item, s) \in SupplyItem
  BY ConstantTypes DEF ResetItem, SupplyItem
<1>2. AsIsItem(item, s) \in SupplyItem
  BY DEF AsIsItem, SupplyItem
<1>3. [item EXCEPT !.consumerSequence = s, !.fromConsumerGet = TRUE]
        \in SupplyItem
  BY DEF SupplyItem
<1> QED BY <1>1, <1>2, <1>3

\* The ways the users of an item change its counter keep its type.
LEMMA CounterUpdates ==
  ASSUME NEW item \in SupplyItem, NEW c \in Int
  PROVE  /\ [item EXCEPT !.multipleUsers = TRUE, !.counter = c] \in SupplyItem
         /\ [item EXCEPT !.counter = c] \in SupplyItem
<1>1. [item EXCEPT !.multipleUsers = TRUE, !.counter = c] \in SupplyItem
  BY DEF SupplyItem
<1>2. [item EXCEPT !.counter = c] \in SupplyItem
  BY DEF SupplyItem
<1> QED BY <1>1, <1>2

\* Claiming items keeps the types whatever the preparation of the items.
LEMMA ClaimType ==
  ASSUME TypeOK, NEW n \in 1 .. MaxBatch, Get(n) \/ GetAsIs(n)
  PROVE  TypeOK'
<1> DEFINE new == claimed + 1 .. claimed + n
<1>1. new \subseteq Seqs
  BY BoundAssumption DEF TypeOK, Seqs, Get, GetAsIs, Claim, RoomFor
<1>2. ASSUME NEW i \in Slots, \E s \in new : Slot(s) = i
      PROVE  (CHOOSE s \in new : Slot(s) = i) \in Seqs
  BY <1>1, <1>2
<1>3. items' \in [Slots -> SupplyItem]
  <2>1. ASSUME NEW i \in Slots PROVE items'[i] \in SupplyItem
    <3>1. CASE \E s \in new : Slot(s) = i
      <4> DEFINE c == CHOOSE s \in new : Slot(s) = i
      <4>1. c \in Seqs
        BY <3>1, <1>2
      <4>2. items'[i] = ResetItem(items[i], c) \/ items'[i] = AsIsItem(items[i], c)
        BY <3>1 DEF Get, GetAsIs, Claim
      <4> HIDE DEF c
      <4> QED BY <4>1, <4>2, ItemUpdates DEF TypeOK
    <3>2. CASE ~ \E s \in new : Slot(s) = i
      BY <3>2 DEF Get, GetAsIs, Claim, TypeOK
    <3> QED BY <3>1, <3>2
  <2>2. items' = [i \in Slots |-> items'[i]]
    BY DEF Get, GetAsIs, Claim
  <2> QED BY <2>1, <2>2
<1>4. claimed' \in -1 .. MaxSeq
  BY BoundAssumption DEF TypeOK, Get, GetAsIs, Claim, RoomFor
<1>5. filling' \in SUBSET Seqs /\ users' \in [Seqs -> Nat]
  BY <1>1 DEF TypeOK, Get, GetAsIs, Claim
<1> QED BY <1>3, <1>4, <1>5
        DEF TypeOK, Get, GetAsIs, Claim, bookkeeping, consumer

\* Recording a release keeps the types.
LEMMA RecordType ==
  ASSUME TypeOK, NEW s \in Seqs, RecordRelease(s)
  PROVE  TypeOK'
<1>1. freeing' \in [Seqs -> Nat] /\ done' \in SUBSET Seqs
  BY DEF TypeOK, RecordRelease
<1>2. /\ sequence' \in -1 .. MaxSeq
      /\ lastSequenceReleased' \in -1 .. MaxSeq
      /\ maxSequence' \in -1 .. MaxSeq
      /\ between' \in Nat
  <2> USE BoundAssumption DEF TypeOK, Seqs
  <2>1. CASE OrderedRelease
    BY <2>1 DEF RecordRelease
  <2>2. CASE ~OrderedRelease
    <3>1. ReleaseInAnyOrder(s)
      BY <2>2 DEF RecordRelease
    <3>2. maxSequence' \in -1 .. MaxSeq
      BY <3>1 DEF ReleaseInAnyOrder
    <3>3. between' \in Nat
      BY <3>1 DEF ReleaseInAnyOrder
    <3> QED BY <3>1, <3>2, <3>3 DEF ReleaseInAnyOrder
  <2> QED BY <2>1, <2>2
<1> QED BY <1>1, <1>2 DEF TypeOK, RecordRelease, consumer

\* Every variable keeps its type: the code's sequences stay within what has
\* been claimed, and the counts of references never go below zero.
THEOREM TypeCorrect == Spec => []TypeOK
<1> USE BoundAssumption, RingSizeAssumption
<1>1. Init => TypeOK
  <2> SUFFICES ASSUME Init PROVE TypeOK
    OBVIOUS
  <2> USE DEF Init
  <2>1. items \in [Slots -> SupplyItem] /\ loads \in [Threads -> Loads]
    BY ConstantTypes
  <2>2. /\ claimed \in -1 .. MaxSeq /\ cursor \in -1 .. MaxSeq
        /\ sequence \in -1 .. MaxSeq /\ lastSequenceReleased \in -1 .. MaxSeq
        /\ maxSequence \in -1 .. MaxSeq /\ between \in Nat
        /\ nextConsumerSequence \in 0 .. MaxSeq + 1
        /\ availableConsumerSequence \in -1 .. MaxSeq
    OBVIOUS
  <2>3. users \in [Seqs -> Nat] /\ freeing \in [Seqs -> Nat]
    OBVIOUS
  <2> QED BY <2>1, <2>2, <2>3 DEF TypeOK
<1>2. TypeOK /\ [Next]_vars => TypeOK'
  <2> SUFFICES ASSUME TypeOK, [Next]_vars PROVE TypeOK'
    OBVIOUS
  <2>1. CASE \E n \in 1 .. MaxBatch : Get(n) \/ GetAsIs(n)
    BY <2>1, ClaimType
  <2>2. CASE \E s \in Seqs : Publish(s)
    <3>1. PICK s \in Seqs : Publish(s)
      BY <2>2
    <3>2. ItemOf(s) \in SupplyItem
      BY SlotType DEF TypeOK, ItemOf, Seqs
    <3>3. cursor' \in -1 .. MaxSeq
      BY <3>1, <3>2 DEF Publish, SupplyItem, Seqs
    <3> QED BY <3>1, <3>3 DEF TypeOK, Publish, bookkeeping, consumer
  <2>3. CASE \E lo, hi \in Seqs : PublishBatch(lo, hi)
    <3>1. PICK lo, hi \in Seqs : PublishBatch(lo, hi)
      BY <2>3
    <3>2. ItemOf(hi) \in SupplyItem
      BY SlotType DEF TypeOK, ItemOf, Seqs
    <3>3. cursor' \in -1 .. MaxSeq
      BY <3>1, <3>2 DEF PublishBatch, SupplyItem, Seqs
    <3> QED BY <3>1, <3>3 DEF TypeOK, PublishBatch, bookkeeping, consumer
  <2>4. CASE ConsumerGet
    <3>1. nextConsumerSequence \in Seqs
      <4>1. /\ availableConsumerSequence < nextConsumerSequence
                => nextConsumerSequence <= cursor
        BY <2>4 DEF ConsumerGet, Published
      <4>2. /\ nextConsumerSequence \in Nat /\ MaxSeq \in Nat
            /\ availableConsumerSequence \in -1 .. MaxSeq /\ cursor \in -1 .. MaxSeq
        BY DEF TypeOK
      <4> QED BY <4>1, <4>2 DEF Seqs
    <3>2. Slot(nextConsumerSequence) \in Slots
      BY <3>1, SlotType DEF Seqs
    <3>3. items' \in [Slots -> SupplyItem]
      BY <2>4, <3>1, <3>2, ItemUpdates DEF ConsumerGet, TypeOK
    <3>4. users' \in [Seqs -> Nat]
      BY <2>4, <3>1 DEF ConsumerGet, TypeOK
    <3>5. /\ nextConsumerSequence' = nextConsumerSequence + 1
          /\ availableConsumerSequence' \in {cursor, availableConsumerSequence}
      BY <2>4 DEF ConsumerGet
    <3>6. /\ nextConsumerSequence' \in 0 .. MaxSeq + 1
          /\ availableConsumerSequence' \in -1 .. MaxSeq
      BY <3>1, <3>5 DEF TypeOK, Seqs
    <3> QED BY <2>4, <3>3, <3>4, <3>6 DEF ConsumerGet, TypeOK, bookkeeping
  <2>5. CASE ErrorAlert
    BY <2>5 DEF ErrorAlert, TypeOK, bookkeeping
  <2>6. CASE \E s \in Seqs, n \in 1 .. MaxUsers : SetUsers(s, n) \/ AddUsers(s, n)
    <3>1. PICK s \in Seqs, n \in 1 .. MaxUsers : SetUsers(s, n) \/ AddUsers(s, n)
      BY <2>6
    <3>2. Slot(s) \in Slots
      BY SlotType DEF Seqs
    <3>3. items' \in [Slots -> SupplyItem]
      <4>1. items[Slot(s)] \in SupplyItem /\ n \in Int
        BY <3>2 DEF TypeOK
      <4>2. CounterAfterAdd(ItemOf(s), n) \in Int
        BY <4>1 DEF CounterAfterAdd, ItemOf, SupplyItem
      <4>3. CASE SetUsers(s, n)
        BY <4>1, <4>3, <3>2, CounterUpdates DEF SetUsers, TypeOK
      <4>4. CASE AddUsers(s, n)
        BY <4>1, <4>2, <4>4, <3>2, CounterUpdates DEF AddUsers, TypeOK
      <4> QED BY <3>1, <4>3, <4>4
    <3>4. users' \in [Seqs -> Nat]
      BY <3>1 DEF SetUsers, AddUsers, TypeOK
    <3> QED BY <3>1, <3>3, <3>4
            DEF SetUsers, AddUsers, TypeOK, bookkeeping, consumer
  <2>7. CASE \E s \in Seqs : Release(s)
    <3>1. PICK s \in Seqs : Release(s)
      BY <2>7
    <3>2. Slot(s) \in Slots
      BY SlotType DEF Seqs
    <3>3. ItemOf(s) \in SupplyItem
      BY <3>2 DEF TypeOK, ItemOf
    <3>4. ReleaseSeq(ItemOf(s)) \in Seqs
      BY <3>3 DEF ReleaseSeq, SupplyItem
    <3>5. items' \in [Slots -> SupplyItem]
      BY <3>1, <3>2, <3>3 DEF Release, TypeOK, SupplyItem
    <3>6. freeing' \in [Seqs -> Nat]
      BY <3>1, <3>4 DEF Release, TypeOK
    <3>7. users' \in [Seqs -> Nat]
      BY <3>1 DEF Release, TypeOK
    <3> QED BY <3>1, <3>5, <3>6, <3>7 DEF Release, TypeOK, bookkeeping, consumer
  <2>8. CASE \E t \in Threads, s \in Seqs : ReleaseLoad(t, s)
    <3>1. PICK t \in Threads, s \in Seqs : ReleaseLoad(t, s)
      BY <2>8
    <3>2. Slot(s) \in Slots
      BY SlotType DEF Seqs
    <3>3. ItemOf(s) \in SupplyItem
      BY <3>2 DEF TypeOK, ItemOf
    <3>4. ReleaseSeq(ItemOf(s)) \in Seqs /\ ItemOf(s).counter \in Int
      BY <3>3 DEF ReleaseSeq, SupplyItem
    <3>5. loads' \in [Threads -> Loads]
      BY <3>1, <3>2, <3>4 DEF ReleaseLoad, TypeOK, Loads
    <3>6. users' \in [Seqs -> Nat]
      BY <3>1 DEF ReleaseLoad, TypeOK
    <3> QED BY <3>1, <3>5, <3>6 DEF ReleaseLoad, TypeOK, bookkeeping, consumer
  <2>9. CASE \E t \in Threads : ReleaseStore(t)
    <3>1. PICK t \in Threads : ReleaseStore(t)
      BY <2>9
    <3>2. /\ loads[t].slot \in Slots
          /\ loads[t].seq \in Seqs
          /\ loads[t].count \in Int
      BY DEF TypeOK, Loads
    <3>3. items' \in [Slots -> SupplyItem]
      BY <3>1, <3>2 DEF ReleaseStore, TypeOK, SupplyItem
    <3>4. freeing' \in [Seqs -> Nat]
      BY <3>1, <3>2 DEF ReleaseStore, TypeOK
    <3>5. loads' \in [Threads -> Loads]
      BY <3>1, ConstantTypes DEF ReleaseStore, TypeOK
    <3> QED BY <3>1, <3>3, <3>4, <3>5
            DEF ReleaseStore, TypeOK, bookkeeping, consumer
  <2>10. CASE \E s \in Seqs : RecordRelease(s)
    BY <2>10, RecordType
  <2>11. CASE UNCHANGED vars
    BY <2>11 DEF vars, bookkeeping, consumer, TypeOK
  <2>12. CASE Finished
    BY <2>12, <2>11 DEF Finished
  <2> QED BY <2>1, <2>2, <2>3, <2>4, <2>5, <2>6, <2>7, <2>8, <2>9, <2>10,
             <2>11, <2>12 DEF Next
<1> QED BY <1>1, <1>2, PTL DEF Spec

-----------------------------------------------------------------------------
(* The inductive invariant of a supply that releases in any order.         *)

\* The sequences counted by between.
Middle(S, lo, hi) == {s \in S : lo < s /\ s < hi}

\* A claimed sequence that is not released is ahead of the gate.
LEMMA LiveWindow ==
  ASSUME TypeOK, ReleasedInv, NEW s \in Seqs, s \notin done
  PROVE  s > sequence
BY BoundAssumption DEF TypeOK, ReleasedInv, Seqs

\* Two claimed sequences that are not released lie in different slots.
LEMMA LiveSlotsDiffer ==
  ASSUME TypeOK, GateInv, ReleasedInv,
         NEW r \in Seqs, r <= claimed, r \notin done,
         NEW s \in Seqs, s <= claimed, s \notin done,
         r # s
  PROVE  Slot(r) # Slot(s)
<1>1. r > sequence /\ s > sequence
  BY LiveWindow
<1>2. r \in Nat /\ s \in Nat /\ claimed \in Int /\ sequence \in Int
  BY BoundAssumption DEF TypeOK, Seqs
<1>3. r - s < RingSize /\ s - r < RingSize
  BY <1>1, <1>2, RingSizeAssumption DEF GateInv
<1>4. CASE r < s
  BY <1>2, <1>3, <1>4, SlotsDiffer
<1>5. CASE s < r
  BY <1>2, <1>3, <1>5, SlotsDiffer
<1> QED BY <1>2, <1>4, <1>5

\* A set of released sequences as large as the gap it lies in fills the gap.
LEMMA FullMiddle ==
  ASSUME NEW S \in SUBSET Nat, NEW lo \in Int, NEW hi \in Int, lo < hi,
         Cardinality(Middle(S, lo, hi)) = hi - lo - 1
  PROVE  \A s \in Nat : lo < s /\ s < hi => s \in S
<1> DEFINE gap == lo + 1 .. hi - 1
<1>0. lo + 1 \in Int /\ hi - 1 \in Int
  OBVIOUS
<1>1. IsFiniteSet(gap) /\ Cardinality(gap) = hi - lo - 1
  <2>1. /\ IsFiniteSet(gap)
        /\ Cardinality(gap) = IF lo + 1 > hi - 1 THEN 0 ELSE (hi - 1) - (lo + 1) + 1
    BY <1>0, FS_Interval, Zenon
  <2> QED BY <2>1
<1>2. Middle(S, lo, hi) \in SUBSET gap
  <2> SUFFICES ASSUME NEW s \in Middle(S, lo, hi) PROVE s \in gap
    BY Zenon
  <2>1. s \in Nat /\ lo < s /\ s < hi
    BY DEF Middle
  <2> QED BY <2>1
<1> HIDE DEF gap
<1>3. Middle(S, lo, hi) = gap
  BY <1>1, <1>2, FS_Subset
<1> QED BY <1>3 DEF Middle, gap

\* What the counting under supplyMutex computes: after the release of seq the
\* count is again the number of released sequences in the middle.
LEMMA CountingStep ==
  ASSUME TypeOK, GateInv, ReleasedInv, BetweenCounts, OrderedRelease = FALSE,
         NEW seq \in Seqs, seq \notin done
  PROVE  LET newMax == IF seq > maxSequence THEN seq ELSE maxSequence
             count  == IF Counted(seq) THEN between + 1 ELSE between
         IN  count = Cardinality(Middle(done \cup {seq}, sequence, newMax))
<1> DEFINE newMax == IF seq > maxSequence THEN seq ELSE maxSequence
           count  == IF Counted(seq) THEN between + 1 ELSE between
           old    == Middle(done, sequence, maxSequence)
           new    == Middle(done \cup {seq}, sequence, newMax)
<1> USE BoundAssumption DEF Seqs
<1>1. /\ seq \in Int /\ sequence \in Int /\ maxSequence \in Int
      /\ done \subseteq Int
      /\ seq > sequence
      /\ lastSequenceReleased = sequence /\ sequence <= maxSequence
      /\ \A s \in done : s <= maxSequence
      /\ maxSequence >= 0 => maxSequence \in done
      /\ -1 <= sequence
  BY LiveWindow DEF TypeOK, GateInv, ReleasedInv
<1>2. between = Cardinality(old) /\ between \in Nat
  BY DEF BetweenCounts, Middle, TypeOK
<1>3. IsFiniteSet(old)
  <2>1. old \in SUBSET (0 .. MaxSeq)
    BY DEF Middle, TypeOK
  <2>2. 0 \in Int /\ MaxSeq \in Int
    OBVIOUS
  <2>3. IsFiniteSet(0 .. MaxSeq)
    BY <2>2, FS_Interval, Zenon
  <2> HIDE DEF old
  <2> QED BY <2>1, <2>3, FS_Subset, Zenon
<1>4. CASE seq > maxSequence /\ maxSequence > lastSequenceReleased
  <2>1. newMax = seq /\ count = between + 1
    BY <1>4 DEF Counted
  <2>2. new = old \cup {maxSequence}
    <3>1. maxSequence >= 0 /\ maxSequence \in done /\ sequence < maxSequence
      BY <1>1, <1>4
    <3>2. ASSUME NEW x \in done \cup {seq}
          PROVE  sequence < x /\ x < seq <=>
                   (x \in done /\ sequence < x /\ x < maxSequence) \/ x = maxSequence
      BY <1>1, <1>4, <3>1
    <3> QED BY <2>1, <3>1, <3>2 DEF Middle
  <2>3. maxSequence \notin old
    BY <1>1 DEF Middle
  <2>4. Cardinality(old \cup {maxSequence}) = Cardinality(old) + 1
    <3> HIDE DEF old
    <3> QED BY <1>3, <2>3, FS_AddElement
  <2> HIDE DEF old, new, newMax, count
  <2>5. count = Cardinality(new)
    BY <1>2, <2>1, <2>2, <2>4
  <2> QED BY <2>5 DEF count, new, newMax
<1>5. CASE seq > maxSequence /\ ~(maxSequence > lastSequenceReleased)
  <2>1. newMax = seq /\ count = between
    BY <1>1, <1>5 DEF Counted
  <2>2. new = old
    <3>1. ASSUME NEW x \in done \cup {seq}
          PROVE  \/ /\ ~(sequence < x /\ x < seq)
                    /\ ~(sequence < x /\ x < maxSequence)
                 \/ x = seq
      BY <1>1, <1>5
    <3>2. ~(seq < seq) /\ ~(seq < maxSequence)
      BY <1>1, <1>5
    <3> QED BY <2>1, <3>1, <3>2 DEF Middle
  <2> QED BY <1>2, <2>1, <2>2
<1>6. CASE ~(seq > maxSequence)
  <2>1. newMax = maxSequence /\ count = between + 1
    BY <1>1, <1>6 DEF Counted
  <2>2. seq # maxSequence
    BY <1>1, <1>6
  <2>3. new = old \cup {seq} /\ seq \notin old
    BY <1>1, <1>6, <2>1, <2>2 DEF Middle
  <2>4. Cardinality(old \cup {seq}) = Cardinality(old) + 1
    <3> HIDE DEF old
    <3> QED BY <1>3, <2>3, FS_AddElement
  <2> HIDE DEF old, new, newMax, count
  <2>5. count = Cardinality(new)
    BY <1>2, <2>1, <2>3, <2>4
  <2> QED BY <2>5 DEF count, new, newMax
<1> QED BY <1>4, <1>5, <1>6

-----------------------------------------------------------------------------
(* What claiming, publishing and consuming do, however items are released. *)

\* Sequences within a ring of one another lie in different slots.
LEMMA WithinRing ==
  ASSUME NEW lo \in Int, NEW r \in Nat, NEW s \in Nat, r # s,
         lo < r, lo < s, r - RingSize <= lo, s - RingSize <= lo
  PROVE  Slot(r) # Slot(s)
<1>1. r - s < RingSize /\ s - r < RingSize
  BY RingSizeAssumption
<1> QED BY <1>1, SlotsDiffer

LEMMA ClaimProgress ==
  ASSUME TypeOK, ProgressInv, NEW n \in 1 .. MaxBatch, Get(n) \/ GetAsIs(n)
  PROVE  ProgressInv'
<1> USE BoundAssumption
<1> DEFINE new == claimed + 1 .. claimed + n
<1>1. /\ claimed' = claimed + n /\ claimed + n <= MaxSeq
      /\ filling' = IF Pipeline THEN filling \cup new ELSE filling
      /\ UNCHANGED <<cursor, nextConsumerSequence, availableConsumerSequence>>
  BY DEF Get, GetAsIs, Claim, RoomFor, bookkeeping, consumer
<1>2. claimed \in Int /\ n \in Int /\ n >= 1 /\ claimed >= -1
  BY DEF TypeOK
<1>3. CASE Pipeline
  <2>1. /\ filling = {s \in Seqs : cursor < s /\ s <= claimed}
        /\ cursor <= claimed
        /\ availableConsumerSequence <= cursor
        /\ nextConsumerSequence <= cursor + 1
    BY <1>3 DEF ProgressInv
  <2>2. filling' = {s \in Seqs : cursor < s /\ s <= claimed + n}
    BY <1>1, <1>2, <1>3, <2>1 DEF TypeOK, Seqs
  <2>3. cursor <= claimed + n
    BY <1>2, <2>1 DEF TypeOK
  <2> QED BY <1>1, <1>3, <2>1, <2>2, <2>3 DEF ProgressInv
<1>4. CASE ~Pipeline
  BY <1>1, <1>4 DEF ProgressInv
<1> QED BY <1>3, <1>4

\* A slot that is claimed gets the item of its new sequence.
LEMMA ClaimItems ==
  ASSUME TypeOK, sequence <= claimed,
         NEW n \in 1 .. MaxBatch, Get(n) \/ GetAsIs(n),
         NEW s \in claimed + 1 .. claimed + n
  PROVE  /\ s \in Seqs /\ s \in Nat /\ s > claimed
         /\ s > sequence /\ s - RingSize <= sequence
         /\ Slot(s) \in Slots /\ items[Slot(s)] \in SupplyItem
         /\ \/ items'[Slot(s)] = ResetItem(items[Slot(s)], s)
            \/ items'[Slot(s)] = AsIsItem(items[Slot(s)], s)
<1> USE BoundAssumption, RingSizeAssumption
<1> DEFINE new == claimed + 1 .. claimed + n
<1>1. claimed + n - RingSize <= sequence /\ claimed + n <= MaxSeq
  BY DEF Get, GetAsIs, Claim, RoomFor
<1>2. claimed \in Int /\ n \in Int /\ n >= 1 /\ claimed >= -1 /\ sequence \in Int
  BY DEF TypeOK
<1>3. /\ s \in Nat /\ s \in Seqs /\ s > claimed
      /\ s > sequence /\ s - RingSize <= sequence
  BY <1>1, <1>2 DEF Seqs
<1>4. Slot(s) \in Slots
  BY <1>3, SlotType
<1> DEFINE c == CHOOSE x \in new : Slot(x) = Slot(s)
<1>5. c \in new /\ Slot(c) = Slot(s)
  OBVIOUS
<1>6. \/ items'[Slot(s)] = ResetItem(items[Slot(s)], c)
      \/ items'[Slot(s)] = AsIsItem(items[Slot(s)], c)
  BY <1>4 DEF Get, GetAsIs, Claim
<1> HIDE DEF c
<1>7. c = s
  <2>1. c \in Nat /\ claimed < c /\ claimed < s
        /\ c - RingSize <= claimed /\ s - RingSize <= claimed
    BY <1>1, <1>2, <1>3, <1>5
  <2> QED BY <1>2, <1>3, <1>5, <2>1, WithinRing
<1> QED BY <1>3, <1>4, <1>6, <1>7 DEF TypeOK

\* The cursor moves to the last sequence published.
LEMMA PublishProgress ==
  ASSUME TypeOK, ProgressInv, NEW lo \in Seqs, NEW hi \in Seqs, lo <= hi,
         \A s \in Seqs : s <= claimed /\ ~HandedOut(s) => ItemOf(s).producerSequence = s,
         \/ lo = hi /\ Publish(hi)
         \/ PublishBatch(lo, hi)
  PROVE  /\ ProgressInv'
         /\ UNCHANGED <<items, claimed, sequence, lastSequenceReleased,
                        maxSequence, between, nextConsumerSequence,
                        users, loads, freeing, done>>
<1> USE BoundAssumption DEF Seqs
<1>1. /\ lo .. hi \subseteq filling
      /\ \A r \in filling : lo <= r
      /\ cursor' = ItemOf(hi).producerSequence
      /\ filling' = filling \ (lo .. hi)
      /\ UNCHANGED <<items, claimed, sequence, lastSequenceReleased,
                     maxSequence, between, nextConsumerSequence,
                     availableConsumerSequence, users, loads, freeing, done>>
  <2>1. lo = hi => lo .. hi = {hi}
    OBVIOUS
  <2> QED BY <2>1 DEF Publish, PublishBatch, bookkeeping, consumer
<1>2. /\ Pipeline
      /\ filling = {s \in Seqs : cursor < s /\ s <= claimed}
      /\ cursor <= claimed
      /\ availableConsumerSequence <= cursor
      /\ nextConsumerSequence <= cursor + 1
  <2>1. hi \in lo .. hi
    OBVIOUS
  <2>2. filling # {}
    BY <1>1, <2>1
  <2> QED BY <2>2 DEF ProgressInv
<1>3. cursor < hi /\ hi <= claimed /\ hi \in filling
  BY <1>1, <1>2
<1>4. cursor' = hi
  <2>1. ~HandedOut(hi)
    BY <1>2, <1>3 DEF HandedOut, TypeOK
  <2> QED BY <1>1, <1>3, <2>1
<1>5. filling' = {s \in Seqs : hi < s /\ s <= claimed}
  <2>1. ASSUME NEW x \in Seqs
        PROVE  x \in filling' <=> hi < x /\ x <= claimed
    <3>1. x \in Int /\ hi \in Int /\ lo \in Int /\ cursor \in Int /\ claimed \in Int
      BY DEF TypeOK
    <3>2. x \in filling <=> cursor < x /\ x <= claimed
      BY <1>2
    <3>3. x \in filling' <=> x \in filling /\ ~(lo <= x /\ x <= hi)
      BY <1>1, <3>1
    <3>4. x \in filling => lo <= x
      BY <1>1
    <3> QED BY <1>3, <3>1, <3>2, <3>3, <3>4
  <2>2. filling' \subseteq Seqs
    BY <1>1 DEF TypeOK
  <2> HIDE DEF Seqs
  <2> QED BY <2>1, <2>2
<1>6. ProgressInv'
  BY <1>1, <1>2, <1>3, <1>4, <1>5 DEF ProgressInv, TypeOK
<1> QED BY <1>1, <1>6

\* consumerGet() takes the next published sequence.
LEMMA ConsumerProgress ==
  ASSUME TypeOK, ProgressInv, ConsumerGet
  PROVE  LET next == nextConsumerSequence
         IN  /\ ProgressInv' /\ Pipeline /\ next' = next + 1
             /\ next \in Seqs /\ next \in Nat /\ next <= claimed /\ ~HandedOut(next)
<1> USE BoundAssumption
<1> DEFINE next == nextConsumerSequence
<1>1. /\ Pipeline /\ nextConsumerSequence' = next + 1
      /\ UNCHANGED <<claimed, cursor, filling>>
  BY DEF ConsumerGet
<1>2. /\ cursor <= claimed
      /\ availableConsumerSequence <= cursor
      /\ next <= cursor + 1
  BY <1>1 DEF ProgressInv
<1>3. /\ next <= cursor /\ next \in Seqs /\ next \in Nat
      /\ availableConsumerSequence' <= cursor
  <2>1. /\ availableConsumerSequence < next => next <= cursor
        /\ availableConsumerSequence' = (IF availableConsumerSequence < next THEN cursor
                                         ELSE availableConsumerSequence)
    BY DEF ConsumerGet, Published
  <2>2. /\ next \in Nat /\ MaxSeq \in Nat
        /\ availableConsumerSequence \in -1 .. MaxSeq /\ cursor \in -1 .. MaxSeq
    BY DEF TypeOK
  <2> HIDE DEF next
  <2> QED BY <1>2, <2>1, <2>2 DEF Seqs
<1>4. next <= claimed
  BY <1>2, <1>3 DEF TypeOK
<1>5. ~HandedOut(next)
  BY <1>1, <1>3 DEF HandedOut
<1>6. ProgressInv'
  BY <1>1, <1>2, <1>3 DEF ProgressInv, TypeOK
<1> QED BY <1>1, <1>3, <1>4, <1>5, <1>6

\* A counter that is off or used up.
Spent(item) == ~item.multipleUsers \/ item.counter < 1

\* The item of a sequence that is claimed names it and starts with one user, if
\* its slot was spent.
LEMMA FreshItem ==
  ASSUME NEW item \in SupplyItem, Spent(item), NEW s \in Seqs,
         NEW new, new = ResetItem(item, s) \/ new = AsIsItem(item, s)
  PROVE  new.producerSequence = s /\ ReleaseSeq(new) = s /\ Spent(new)
BY DEF ResetItem, AsIsItem, NewItem, SupplyItem, ReleaseSeq, Spent

-----------------------------------------------------------------------------
(* Every operation preserves the invariant.                                *)

\* What the lifecycle says of one sequence.
Lifecycle(s) ==
  /\ freeing[s] \in {0, 1}
  /\ users[s] > 0 \/ freeing[s] > 0 \/ s \in done => HandedOut(s)
  /\ s \in done => users[s] = 0 /\ freeing[s] = 0
  /\ freeing[s] > 0 => users[s] = 0
  /\ HandedOut(s) /\ s \notin done => users[s] > 0 \/ freeing[s] > 0

\* What the slot of one sequence says of it.
ItemOK(s) ==
  s <= claimed /\ s \notin done =>
      /\ ItemOf(s).producerSequence = s
      /\ users[s] > 0 =>
            /\ ReleaseSeq(ItemOf(s)) = s
            /\ IF ItemOf(s).multipleUsers /\ ItemOf(s).counter > 0
               THEN users[s] = ItemOf(s).counter
               ELSE users[s] = 1

\* The slot of a sequence that is about to get its first user is spent.
LEMMA FirstUserSpent ==
  ASSUME TypeOK, SupplierInv, NEW s \in Seqs, users[s] = 0, s > sequence,
         s - RingSize <= sequence
  PROVE  Spent(ItemOf(s))
<1>1. Slot(s) \in Slots
  BY SlotType DEF Seqs
<1>2. ASSUME NEW r \in Seqs, Slot(r) = Slot(s) PROVE users[r] = 0
  <2> SUFFICES ASSUME users[r] # 0 PROVE FALSE
    OBVIOUS
  <2>1. users[r] > 0 /\ r \notin done /\ r <= claimed
    BY DEF SupplierInv, LifecycleInv, HandedOut, TypeOK
  <2>2. r > sequence
    BY <2>1, LiveWindow DEF SupplierInv
  <2>3. claimed - RingSize <= sequence
    BY DEF SupplierInv, GateInv
  <2>4. r \in Nat /\ s \in Nat /\ sequence \in Int /\ claimed \in Int /\ r # s
    BY BoundAssumption DEF TypeOK, Seqs
  <2>5. r - s < RingSize /\ s - r < RingSize
    BY <2>1, <2>2, <2>3, <2>4, RingSizeAssumption
  <2> QED BY <1>2, <2>4, <2>5, SlotsDiffer
<1> QED BY <1>1, <1>2 DEF SupplierInv, SpentInv, Spent, ItemOf

\* Claiming: the sequences claimed are fresh, and their slots are those of
\* sequences behind the gate.
LEMMA ClaimInv ==
  ASSUME TypeOK, SupplierInv, OrderedRelease = FALSE,
         NEW n \in 1 .. MaxBatch, Get(n) \/ GetAsIs(n)
  PROVE  SupplierInv'
<1> USE BoundAssumption, RingSizeAssumption
<1> DEFINE new == claimed + 1 .. claimed + n
<1>1. /\ claimed' = claimed + n
      /\ claimed + n - RingSize <= sequence
      /\ claimed + n <= MaxSeq
      /\ filling' = IF Pipeline THEN filling \cup new ELSE filling
      /\ users' = IF Pipeline THEN users
                  ELSE [s \in Seqs |-> IF s \in new THEN 1 ELSE users[s]]
      /\ UNCHANGED <<cursor, sequence, lastSequenceReleased, maxSequence,
                     between, nextConsumerSequence, availableConsumerSequence,
                     alerted, loads, freeing, done>>
  BY DEF Get, GetAsIs, Claim, RoomFor, bookkeeping, consumer
<1>2. claimed \in Int /\ n \in Int /\ n >= 1 /\ claimed >= -1 /\ sequence \in Int
  BY DEF TypeOK
<1>3. GateInv' /\ NoLoadsInv' /\ ReleasedInv' /\ BetweenCounts'
  BY <1>1, <1>2
     DEF SupplierInv, GateInv, NoLoadsInv, ReleasedInv, BetweenCounts, TypeOK
<1>4. ProgressInv'
  BY ClaimProgress DEF SupplierInv
<1>5. ASSUME NEW s \in Seqs PROVE Lifecycle(s)'
  <2>1. Lifecycle(s)
    BY DEF SupplierInv, LifecycleInv, Lifecycle
  <2>2. users[s] \in Nat /\ freeing[s] \in Nat /\ s \in Int
    BY DEF TypeOK, Seqs
  <2>3. CASE Pipeline
    <3>1. cursor <= claimed /\ nextConsumerSequence <= cursor + 1
      BY <2>3 DEF SupplierInv, ProgressInv
    <3> QED BY <1>1, <1>2, <2>1, <2>2, <2>3, <3>1 DEF Lifecycle, HandedOut, TypeOK
  <2>4. CASE ~Pipeline /\ s \in new
    <3>1. ~(s <= claimed)
      BY <1>2, <2>2, <2>4
    <3>2. users[s] = 0 /\ freeing[s] = 0 /\ s \notin done
      BY <2>1, <2>2, <3>1 DEF HandedOut, Lifecycle
    <3>3. users'[s] = 1 /\ freeing'[s] = 0 /\ s \notin done' /\ s <= claimed'
      BY <1>1, <1>2, <2>2, <2>4, <3>2
    <3> QED BY <3>3, <2>4 DEF HandedOut, Lifecycle
  <2>5. CASE ~Pipeline /\ s \notin new
    <3>1. s <= claimed <=> s <= claimed'
      BY <1>1, <1>2, <2>2, <2>5
    <3>2. users'[s] = users[s] /\ freeing'[s] = freeing[s] /\ done' = done
      BY <1>1, <2>5
    <3> QED BY <2>1, <2>5, <3>1, <3>2 DEF HandedOut, Lifecycle
  <2> QED BY <2>3, <2>4, <2>5
<1>6. sequence <= claimed
  BY <1>2 DEF SupplierInv, GateInv, TypeOK
<1>7. ASSUME NEW s \in new
      PROVE  /\ items'[Slot(s)].producerSequence = s
             /\ ReleaseSeq(items'[Slot(s)]) = s
             /\ Spent(items'[Slot(s)]) /\ items'[Slot(s)] \in SupplyItem
             /\ users[s] = 0
  <2>1. /\ s \in Seqs /\ s \in Nat /\ s > claimed
        /\ s > sequence /\ s - RingSize <= sequence
        /\ Slot(s) \in Slots /\ items[Slot(s)] \in SupplyItem
        /\ \/ items'[Slot(s)] = ResetItem(items[Slot(s)], s)
           \/ items'[Slot(s)] = AsIsItem(items[Slot(s)], s)
    BY <1>6, ClaimItems
  <2>2. users[s] = 0
    BY <2>1, <1>2 DEF SupplierInv, LifecycleInv, HandedOut, TypeOK
  <2>3. Spent(items[Slot(s)])
    BY <2>1, <2>2, FirstUserSpent DEF ItemOf
  <2>4. items'[Slot(s)] \in SupplyItem
    BY <2>1, ItemUpdates
  <2>5. /\ items'[Slot(s)].producerSequence = s
        /\ ReleaseSeq(items'[Slot(s)]) = s
        /\ Spent(items'[Slot(s)])
    BY <2>1, <2>3, FreshItem
  <2> QED BY <2>2, <2>4, <2>5
<1>8. ASSUME NEW s \in Seqs PROVE ItemOK(s)'
  <2>1. CASE s \in new
    <3>1. users'[s] \in {0, 1}
      BY <1>1, <1>7, <2>1
    <3>2. ~(items'[Slot(s)].multipleUsers /\ items'[Slot(s)].counter > 0)
      <4>1. items'[Slot(s)].counter \in Int
        <5>1. items'[Slot(s)] \in SupplyItem
          BY <2>1, <1>7
        <5> QED BY <5>1 DEF SupplyItem
      <4> QED BY <4>1, <2>1, <1>7 DEF Spent
    <3> QED BY <3>1, <3>2, <2>1, <1>7 DEF ItemOK, ItemOf
  <2>2. CASE s \notin new
    <3> SUFFICES ASSUME s <= claimed', s \notin done' PROVE ItemOK(s)'
      BY DEF ItemOK
    <3>1. s \in Nat /\ s <= claimed /\ s \notin done
      BY <1>1, <1>2, <2>2 DEF Seqs
    <3>2. s > sequence /\ Slot(s) \in Slots
      BY <3>1, LiveWindow, SlotType DEF SupplierInv
    <3>3. ASSUME NEW x \in new PROVE Slot(x) # Slot(s)
      BY <1>1, <1>2, <3>1, <3>2, SlotsDiffer
    <3>4. items'[Slot(s)] = items[Slot(s)]
      BY <3>2, <3>3 DEF Get, GetAsIs, Claim
    <3>5. users'[s] = users[s]
      BY <1>1, <2>2
    <3>6. ItemOK(s)
      BY DEF SupplierInv, ItemInv, ItemOK
    <3> QED BY <3>1, <3>4, <3>5, <3>6 DEF ItemOK, ItemOf
  <2> QED BY <2>1, <2>2
<1>9. SpentInv'
  <2> SUFFICES ASSUME NEW i \in Slots,
                      \A s \in Seqs : Slot(s) = i => users'[s] = 0
               PROVE  Spent(items'[i])
    BY DEF SpentInv, Spent
  <2>1. CASE \E s \in new : Slot(s) = i
    BY <2>1, <1>7
  <2>2. CASE ~ \E s \in new : Slot(s) = i
    <3>1. items'[i] = items[i]
      BY <2>2 DEF Get, GetAsIs, Claim
    <3>2. \A s \in Seqs : Slot(s) = i => users[s] = 0
      BY <1>1, <2>2
    <3> QED BY <3>1, <3>2 DEF SupplierInv, SpentInv, Spent
  <2> QED BY <2>1, <2>2
<1>10. LifecycleInv' /\ ItemInv'
  BY <1>5, <1>8 DEF LifecycleInv, ItemInv, Lifecycle, ItemOK
<1> QED BY <1>3, <1>4, <1>9, <1>10 DEF SupplierInv

\* Publishing: the cursor moves to the last sequence published.
LEMMA PublishInv ==
  ASSUME TypeOK, SupplierInv, OrderedRelease = FALSE,
         NEW lo \in Seqs, NEW hi \in Seqs, lo <= hi,
         \/ lo = hi /\ Publish(hi)
         \/ PublishBatch(lo, hi)
  PROVE  SupplierInv'
<1>1. \A s \in Seqs : s <= claimed /\ ~HandedOut(s) => ItemOf(s).producerSequence = s
  BY DEF SupplierInv, LifecycleInv, ItemInv
<1>2. /\ ProgressInv'
      /\ UNCHANGED <<items, claimed, sequence, lastSequenceReleased,
                     maxSequence, between, nextConsumerSequence,
                     users, loads, freeing, done>>
  BY <1>1, PublishProgress DEF SupplierInv
<1>3. GateInv' /\ NoLoadsInv' /\ ReleasedInv' /\ BetweenCounts'
  BY <1>2 DEF SupplierInv, GateInv, NoLoadsInv, ReleasedInv, BetweenCounts
<1>4. LifecycleInv' /\ ItemInv' /\ SpentInv'
  BY <1>2 DEF SupplierInv, LifecycleInv, ItemInv, SpentInv, HandedOut, ItemOf
<1> QED BY <1>2, <1>3, <1>4 DEF SupplierInv

\* consumerGet(): the next published sequence gets its first user.
LEMMA ConsumerGetInv ==
  ASSUME TypeOK, SupplierInv, OrderedRelease = FALSE, ConsumerGet
  PROVE  SupplierInv'
<1> USE BoundAssumption
<1> DEFINE next == nextConsumerSequence
<1>1. /\ Pipeline
      /\ items' = [items EXCEPT ![Slot(next)] =
                     [@ EXCEPT !.consumerSequence = next, !.fromConsumerGet = TRUE]]
      /\ nextConsumerSequence' = next + 1
      /\ users' = [users EXCEPT ![next] = 1]
      /\ UNCHANGED <<claimed, cursor, sequence, lastSequenceReleased,
                     maxSequence, between, filling, loads, freeing, done>>
  BY DEF ConsumerGet, bookkeeping
<1>3. /\ ProgressInv' /\ ~HandedOut(next)
      /\ next \in Seqs /\ next \in Nat /\ next <= claimed
  BY ConsumerProgress DEF SupplierInv
<1>4. next <= claimed /\ next \notin done /\ users[next] = 0 /\ freeing[next] = 0
  BY <1>3 DEF SupplierInv, LifecycleInv, TypeOK
<1>5. next > sequence /\ next - RingSize <= sequence
  <2>1. next > sequence
    BY <1>3, <1>4, LiveWindow DEF SupplierInv
  <2> QED BY <1>3, <1>4, <2>1, RingSizeAssumption DEF SupplierInv, GateInv, TypeOK
<1>6. Spent(items[Slot(next)]) /\ Slot(next) \in Slots
  BY <1>3, <1>4, <1>5, FirstUserSpent, SlotType DEF ItemOf
<1>7. items[Slot(next)] \in SupplyItem
  BY <1>6 DEF TypeOK
<1>9. GateInv' /\ NoLoadsInv' /\ ReleasedInv' /\ BetweenCounts'
  BY <1>1 DEF SupplierInv, GateInv, NoLoadsInv, ReleasedInv, BetweenCounts
<1>10. ASSUME NEW s \in Seqs PROVE Lifecycle(s)'
  <2>1. Lifecycle(s) /\ s \in Int /\ users[s] \in Nat /\ freeing[s] \in Nat
    BY DEF SupplierInv, LifecycleInv, Lifecycle, TypeOK, Seqs
  <2>2. CASE s = next
    <3>1. users'[s] = 1 /\ freeing'[s] = 0 /\ s \notin done' /\ HandedOut(s)'
      BY <1>1, <1>3, <1>4, <2>2 DEF HandedOut, TypeOK
    <3> QED BY <3>1 DEF Lifecycle
  <2>3. CASE s # next
    <3>1. users'[s] = users[s] /\ freeing'[s] = freeing[s] /\ done' = done
      BY <1>1, <2>3 DEF TypeOK
    <3>2. HandedOut(s)' <=> HandedOut(s)
      BY <1>1, <1>3, <2>1, <2>3 DEF HandedOut
    <3> QED BY <2>1, <3>1, <3>2 DEF Lifecycle
  <2> QED BY <2>2, <2>3
<1>11. ASSUME NEW s \in Seqs PROVE ItemOK(s)'
  <2> SUFFICES ASSUME s <= claimed, s \notin done PROVE ItemOK(s)'
    BY <1>1 DEF ItemOK
  <2>1. ItemOK(s) /\ Slot(s) \in Slots
    BY SlotType DEF SupplierInv, ItemInv, ItemOK, Seqs
  <2>2. CASE s = next
    <3>1. /\ items'[Slot(s)].producerSequence = s
          /\ items'[Slot(s)].fromConsumerGet
          /\ items'[Slot(s)].consumerSequence = s
      BY <1>1, <1>6, <1>7, <2>1, <2>2 DEF ItemOK, ItemOf, SupplyItem, TypeOK
    <3>2. Spent(items'[Slot(s)])
      BY <1>1, <1>6, <1>7, <2>2 DEF Spent, SupplyItem, TypeOK
    <3>3. items'[Slot(s)].counter \in Int
      BY <1>1, <1>6, <1>7, <2>2 DEF SupplyItem, TypeOK
    <3>4. users'[s] = 1
      BY <1>1, <1>3, <2>2 DEF TypeOK
    <3> QED BY <3>1, <3>2, <3>3, <3>4 DEF ItemOK, ItemOf, ReleaseSeq, Spent
  <2>3. CASE s # next
    <3>1. Slot(s) # Slot(next)
      BY <1>3, <1>4, <2>3, LiveSlotsDiffer DEF SupplierInv
    <3>2. items'[Slot(s)] = items[Slot(s)] /\ users'[s] = users[s]
      BY <1>1, <2>1, <2>3, <3>1 DEF TypeOK
    <3> QED BY <1>1, <2>1, <3>2 DEF ItemOK, ItemOf
  <2> QED BY <2>2, <2>3
<1>12. SpentInv'
  <2> SUFFICES ASSUME NEW i \in Slots,
                      \A s \in Seqs : Slot(s) = i => users'[s] = 0
               PROVE  Spent(items'[i])
    BY DEF SpentInv, Spent
  <2>1. i # Slot(next)
    BY <1>1, <1>3 DEF TypeOK
  <2>2. items'[i] = items[i]
    BY <1>1, <2>1 DEF TypeOK
  <2>3. \A s \in Seqs : Slot(s) = i => users[s] = 0
    BY <1>1, <2>1 DEF TypeOK
  <2> QED BY <2>2, <2>3 DEF SupplierInv, SpentInv, Spent
<1>13. LifecycleInv' /\ ItemInv'
  BY <1>10, <1>11 DEF LifecycleInv, ItemInv, Lifecycle, ItemOK
<1> QED BY <1>3, <1>9, <1>12, <1>13 DEF SupplierInv

\* An operation on an item in use changes nothing for the other items.
LEMMA OtherItems ==
  ASSUME TypeOK, SupplierInv, NEW s \in Seqs, users[s] > 0,
         UNCHANGED <<claimed, done>>,
         \A i \in Slots : i # Slot(s) => items'[i] = items[i],
         \A r \in Seqs : r # s => users'[r] = users[r],
         NEW r \in Seqs, r # s
  PROVE  ItemOK(r)'
<1> SUFFICES ASSUME r <= claimed, r \notin done PROVE ItemOK(r)'
  BY DEF ItemOK
<1>1. s <= claimed /\ s \notin done
  BY DEF SupplierInv, LifecycleInv, HandedOut, TypeOK
<1>2. Slot(r) # Slot(s) /\ Slot(r) \in Slots
  BY <1>1, LiveSlotsDiffer, SlotType DEF SupplierInv, Seqs
<1>3. items'[Slot(r)] = items[Slot(r)] /\ users'[r] = users[r]
  BY <1>2
<1>4. ItemOK(r)
  BY DEF SupplierInv, ItemInv, ItemOK
<1> QED BY <1>3, <1>4 DEF ItemOK, ItemOf

\* setUsers() and addUsers(): the counter follows the number of users.
LEMMA UsersInv ==
  ASSUME TypeOK, SupplierInv, OrderedRelease = FALSE, AddToSingleUser = FALSE,
         NEW s \in Seqs, NEW n \in 1 .. MaxUsers,
         SetUsers(s, n) \/ AddUsers(s, n)
  PROVE  SupplierInv'
<1> USE BoundAssumption
<1>1. /\ users[s] > 0 /\ users[s] \in Nat /\ n \in Nat
      /\ UNCHANGED <<claimed, cursor, sequence, lastSequenceReleased,
                     maxSequence, between, nextConsumerSequence,
                     availableConsumerSequence, filling, loads, freeing, done>>
  BY DEF SetUsers, AddUsers, bookkeeping, consumer, TypeOK
<1>2. s <= claimed /\ s \notin done /\ Slot(s) \in Slots
  BY <1>1, SlotType DEF SupplierInv, LifecycleInv, HandedOut, Seqs
<1>3. items[Slot(s)] \in SupplyItem /\ ItemOK(s)
  BY <1>2 DEF TypeOK, SupplierInv, ItemInv, ItemOK
<1>4. /\ \A i \in Slots : i # Slot(s) => items'[i] = items[i]
      /\ \A r \in Seqs : r # s => users'[r] = users[r]
  BY DEF SetUsers, AddUsers, TypeOK
<1>5. /\ items'[Slot(s)].producerSequence = items[Slot(s)].producerSequence
      /\ ReleaseSeq(items'[Slot(s)]) = ReleaseSeq(items[Slot(s)])
  <2>1. CASE SetUsers(s, n)
    <3>1. items'[Slot(s)] =
            [items[Slot(s)] EXCEPT !.multipleUsers = TRUE, !.counter = n]
      BY <1>2, <2>1 DEF SetUsers, TypeOK
    <3> QED BY <1>3, <3>1 DEF SupplyItem, ReleaseSeq
  <2>2. CASE AddUsers(s, n)
    <3>1. items'[Slot(s)] =
            [items[Slot(s)] EXCEPT !.counter = CounterAfterAdd(ItemOf(s), n)]
      BY <1>2, <2>2 DEF AddUsers, TypeOK
    <3> QED BY <1>3, <3>1 DEF SupplyItem, ReleaseSeq
  <2> QED BY <2>1, <2>2
<1>6. /\ users'[s] = items'[Slot(s)].counter
      /\ items'[Slot(s)].multipleUsers
      /\ users'[s] \in Nat /\ users'[s] > 0
  <2>1. CASE SetUsers(s, n)
    BY <1>1, <1>2, <1>3, <2>1 DEF SetUsers, TypeOK, SupplyItem
  <2>2. CASE AddUsers(s, n)
    <3>1. items[Slot(s)].multipleUsers /\ items[Slot(s)].counter > 0
      BY <2>2 DEF AddUsers, ItemOf
    <3>2. users[s] = items[Slot(s)].counter
      BY <1>1, <1>2, <1>3, <3>1 DEF ItemOK, ItemOf
    <3>3. items'[Slot(s)] = [items[Slot(s)] EXCEPT !.counter = items[Slot(s)].counter + n]
      BY <1>2, <2>2, <3>1 DEF AddUsers, CounterAfterAdd, ItemOf, TypeOK
    <3>4. users'[s] = users[s] + n
      BY <2>2 DEF AddUsers, TypeOK
    <3> QED BY <1>1, <1>3, <3>1, <3>2, <3>3, <3>4 DEF SupplyItem
  <2> QED BY <2>1, <2>2
<1>7. ItemOK(s)'
  BY <1>1, <1>2, <1>3, <1>5, <1>6 DEF ItemOK, ItemOf
<1>8. ItemInv'
  BY <1>1, <1>4, <1>7, OtherItems DEF ItemInv, ItemOK
<1>9. LifecycleInv'
  <2> SUFFICES ASSUME NEW r \in Seqs PROVE Lifecycle(r)'
    BY DEF Lifecycle, LifecycleInv
  <2>1. Lifecycle(r) /\ users[r] \in Nat
    BY DEF SupplierInv, LifecycleInv, Lifecycle, TypeOK
  <2>2. CASE r = s
    BY <1>1, <1>6, <2>1, <2>2 DEF Lifecycle, HandedOut
  <2>3. CASE r # s
    BY <1>1, <1>4, <2>1, <2>3 DEF Lifecycle, HandedOut
  <2> QED BY <2>2, <2>3
<1>10. SpentInv'
  <2> SUFFICES ASSUME NEW i \in Slots,
                      \A r \in Seqs : Slot(r) = i => users'[r] = 0
               PROVE  Spent(items'[i])
    BY DEF SpentInv, Spent
  <2>1. i # Slot(s)
    BY <1>6
  <2>2. \A r \in Seqs : Slot(r) = i => users[r] = 0
    BY <1>4, <2>1
  <2> QED BY <1>4, <2>1, <2>2 DEF SupplierInv, SpentInv, Spent
<1>11. GateInv' /\ NoLoadsInv' /\ ReleasedInv' /\ BetweenCounts' /\ ProgressInv'
  BY <1>1 DEF SupplierInv, GateInv, NoLoadsInv, ReleasedInv, BetweenCounts, ProgressInv
<1> QED BY <1>8, <1>9, <1>10, <1>11 DEF SupplierInv

\* release() up to the mutex: the last user, and only the last, goes on.
LEMMA ReleaseInv ==
  ASSUME TypeOK, SupplierInv, OrderedRelease = FALSE, NEW s \in Seqs, Release(s)
  PROVE  SupplierInv'
<1> USE BoundAssumption
<1> DEFINE item  == items[Slot(s)]
           count == item.counter - 1
<1>1. /\ users[s] > 0 /\ users[s] \in Nat
      /\ users' = [users EXCEPT ![s] = @ - 1]
      /\ items' = IF item.multipleUsers
                  THEN [items EXCEPT ![Slot(s)].counter = count] ELSE items
      /\ freeing' = IF NoUserLeft(item, count)
                    THEN [freeing EXCEPT ![ReleaseSeq(item)] = @ + 1] ELSE freeing
      /\ UNCHANGED <<claimed, cursor, sequence, lastSequenceReleased,
                     maxSequence, between, nextConsumerSequence,
                     availableConsumerSequence, filling, loads, done>>
  BY DEF Release, ItemOf, bookkeeping, consumer, TypeOK
<1>2. s <= claimed /\ s \notin done /\ Slot(s) \in Slots
  BY <1>1, SlotType DEF SupplierInv, LifecycleInv, HandedOut, Seqs
<1>3. item \in SupplyItem /\ item.counter \in Int /\ ItemOK(s)
  BY <1>2 DEF TypeOK, SupplierInv, ItemInv, ItemOK, SupplyItem
<1>4. ReleaseSeq(item) = s
  BY <1>1, <1>2, <1>3 DEF ItemOK, ItemOf
<1>5. freeing[s] = 0
  BY <1>1 DEF SupplierInv, LifecycleInv, TypeOK
<1>6. /\ \A i \in Slots : i # Slot(s) => items'[i] = items[i]
      /\ \A r \in Seqs : r # s => users'[r] = users[r] /\ freeing'[r] = freeing[r]
      /\ users'[s] = users[s] - 1
  BY <1>1, <1>4 DEF TypeOK
<1>7. NoUserLeft(item, count) <=> users'[s] = 0
  <2>1. CASE item.multipleUsers /\ item.counter > 0
    <3>1. users[s] = item.counter
      BY <1>1, <1>2, <1>3, <2>1 DEF ItemOK, ItemOf
    <3> QED BY <1>3, <1>6, <2>1, <3>1 DEF NoUserLeft
  <2>2. CASE ~(item.multipleUsers /\ item.counter > 0)
    <3>1. users[s] = 1
      BY <1>1, <1>2, <1>3, <2>2 DEF ItemOK, ItemOf
    <3> QED BY <1>3, <1>6, <2>2, <3>1 DEF NoUserLeft
  <2> QED BY <2>1, <2>2
<1>8. freeing'[s] = IF users'[s] = 0 THEN 1 ELSE 0
  BY <1>1, <1>4, <1>5, <1>7 DEF TypeOK
<1>9. /\ items'[Slot(s)].producerSequence = item.producerSequence
      /\ ReleaseSeq(items'[Slot(s)]) = s
      /\ items'[Slot(s)].multipleUsers = item.multipleUsers
      /\ items'[Slot(s)].counter = IF item.multipleUsers THEN count ELSE item.counter
  <2>1. CASE item.multipleUsers
    <3>1. items'[Slot(s)] = [item EXCEPT !.counter = count]
      BY <1>1, <1>2, <2>1 DEF TypeOK
    <3> QED BY <1>3, <1>4, <2>1, <3>1 DEF SupplyItem, ReleaseSeq
  <2>2. CASE ~item.multipleUsers
    BY <1>1, <1>4, <2>2
  <2> QED BY <2>1, <2>2
<1>10. ItemOK(s)'
  <2> SUFFICES ASSUME users'[s] > 0
               PROVE  /\ items'[Slot(s)].multipleUsers
                      /\ items'[Slot(s)].counter > 0
                      /\ users'[s] = items'[Slot(s)].counter
    BY <1>1, <1>2, <1>3, <1>9 DEF ItemOK, ItemOf
  <2>1. item.multipleUsers /\ ~(count < 1)
    BY <1>7, <1>6, <1>1 DEF NoUserLeft
  <2>2. item.counter > 0
    BY <1>3, <2>1
  <2>3. users[s] = item.counter
    BY <1>1, <1>2, <1>3, <2>1, <2>2 DEF ItemOK, ItemOf
  <2> QED BY <1>3, <1>6, <1>9, <2>1, <2>3
<1>11. ItemInv'
  BY <1>1, <1>6, <1>10, OtherItems DEF ItemInv, ItemOK
<1>12. LifecycleInv'
  <2> SUFFICES ASSUME NEW r \in Seqs PROVE Lifecycle(r)'
    BY DEF Lifecycle, LifecycleInv
  <2>1. Lifecycle(r) /\ users[r] \in Nat
    BY DEF SupplierInv, LifecycleInv, Lifecycle, TypeOK
  <2>2. CASE r = s
    <3>1. HandedOut(s)' /\ s \notin done'
      BY <1>1, <1>2, <2>1, <2>2 DEF Lifecycle, HandedOut
    <3>2. users'[s] \in Nat
      BY <1>1, <1>6
    <3> QED BY <1>8, <2>2, <3>1, <3>2 DEF Lifecycle
  <2>3. CASE r # s
    BY <1>1, <1>6, <2>1, <2>3 DEF Lifecycle, HandedOut
  <2> QED BY <2>2, <2>3
<1>13. SpentInv'
  <2> SUFFICES ASSUME NEW i \in Slots,
                      \A r \in Seqs : Slot(r) = i => users'[r] = 0
               PROVE  Spent(items'[i])
    BY DEF SpentInv, Spent
  <2>1. CASE i = Slot(s)
    <3>1. users'[s] = 0
      BY <2>1
    <3>2. ~item.multipleUsers \/ count < 1
      BY <3>1, <1>7 DEF NoUserLeft
    <3> QED BY <1>9, <2>1, <3>2 DEF Spent
  <2>2. CASE i # Slot(s)
    <3>1. \A r \in Seqs : Slot(r) = i => users[r] = 0
      BY <1>6, <2>2
    <3> QED BY <1>6, <2>2, <3>1 DEF SupplierInv, SpentInv, Spent
  <2> QED BY <2>1, <2>2
<1>14. GateInv' /\ NoLoadsInv' /\ ReleasedInv' /\ BetweenCounts' /\ ProgressInv'
  BY <1>1 DEF SupplierInv, GateInv, NoLoadsInv, ReleasedInv, BetweenCounts, ProgressInv
<1> QED BY <1>11, <1>12, <1>13, <1>14 DEF SupplierInv

\* release() under the mutex: the gate moves over released sequences only.
LEMMA RecordReleaseInv ==
  ASSUME TypeOK, SupplierInv, OrderedRelease = FALSE,
         NEW seq \in Seqs, RecordRelease(seq)
  PROVE  SupplierInv' /\ sequence' >= sequence
<1> USE BoundAssumption
<1> DEFINE newMax == IF seq > maxSequence THEN seq ELSE maxSequence
           count  == IF Counted(seq) THEN between + 1 ELSE between
           moves  == GateMoves(newMax, count)
<1>1. /\ freeing[seq] > 0
      /\ freeing' = [freeing EXCEPT ![seq] = @ - 1]
      /\ done' = done \cup {seq}
      /\ maxSequence' = newMax
      /\ sequence' = IF moves THEN newMax ELSE sequence
      /\ lastSequenceReleased' = IF moves THEN newMax ELSE lastSequenceReleased
      /\ between' = IF moves THEN 0 ELSE count
      /\ UNCHANGED <<items, claimed, cursor, nextConsumerSequence,
                     availableConsumerSequence, filling, users, loads>>
  BY DEF RecordRelease, ReleaseInAnyOrder, consumer
<1>2. /\ seq \notin done /\ users[seq] = 0 /\ freeing[seq] = 1 /\ HandedOut(seq)
      /\ seq <= claimed
  BY <1>1 DEF SupplierInv, LifecycleInv, HandedOut, TypeOK
<1>3. /\ seq \in Nat /\ sequence \in Int /\ maxSequence \in Int /\ claimed \in Int
      /\ done \subseteq Seqs /\ sequence >= -1
  BY DEF TypeOK, Seqs
<1>4. /\ lastSequenceReleased = sequence /\ sequence <= maxSequence
      /\ maxSequence <= claimed /\ claimed - RingSize <= sequence
      /\ seq > sequence
  BY <1>2, LiveWindow DEF SupplierInv, GateInv
<1>5. /\ newMax \in Int /\ newMax > sequence /\ newMax <= claimed /\ newMax >= 0
      /\ newMax >= maxSequence /\ newMax >= seq
  BY <1>2, <1>3, <1>4
<1>6. newMax \in done \cup {seq}
  BY <1>3, <1>4 DEF SupplierInv, ReleasedInv
<1>7. count = Cardinality(Middle(done \cup {seq}, sequence, newMax))
  BY <1>2, CountingStep DEF SupplierInv
<1> HIDE DEF newMax, count
<1>8. moves => \A s \in Nat : sequence < s /\ s < newMax => s \in done \cup {seq}
  <2> SUFFICES ASSUME moves
               PROVE  \A s \in Nat : sequence < s /\ s < newMax => s \in done \cup {seq}
    OBVIOUS
  <2>1. count = newMax - sequence - 1
    BY <1>3, <1>4, <1>5 DEF GateMoves
  <2>2. done \cup {seq} \in SUBSET Nat
    BY <1>3 DEF Seqs
  <2> QED BY <1>3, <1>5, <1>7, <2>1, <2>2, FullMiddle
<1>9. GateInv'
  <2>1. CASE moves
    BY <1>1, <1>3, <1>4, <1>5, <2>1, RingSizeAssumption DEF GateInv
  <2>2. CASE ~moves
    BY <1>1, <1>3, <1>4, <1>5, <2>2, RingSizeAssumption DEF GateInv, GateMoves
  <2> QED BY <2>1, <2>2
<1>10. ReleasedInv'
  <2>1. ASSUME NEW s \in Seqs, s <= sequence' PROVE s \in done'
    <3>1. s \in Nat /\ (s <= sequence => s \in done)
      BY DEF SupplierInv, ReleasedInv, Seqs
    <3>2. CASE moves
      <4>1. s <= newMax
        BY <1>1, <2>1, <3>2
      <4>2. s <= sequence \/ (sequence < s /\ s < newMax) \/ s = newMax
        BY <1>3, <1>5, <3>1, <4>1
      <4> QED BY <1>1, <1>6, <1>8, <3>1, <3>2, <4>2
    <3>3. CASE ~moves
      BY <1>1, <2>1, <3>1, <3>3
    <3> QED BY <3>2, <3>3
  <2>2. ASSUME NEW s \in done' PROVE s <= maxSequence'
    <3>1. s \in done => s <= maxSequence /\ s \in Int
      BY <1>3 DEF SupplierInv, ReleasedInv, Seqs
    <3> QED BY <1>1, <1>3, <1>5, <3>1
  <2> QED BY <1>1, <1>6, <2>1, <2>2 DEF ReleasedInv
<1>11. BetweenCounts'
  <2>1. CASE moves
    <3>1. Middle(done', newMax, newMax) = {}
      <4>1. ASSUME NEW s \in done' PROVE ~(newMax < s /\ s < newMax)
        <5>1. s \in Int
          BY <1>1, <1>3 DEF Seqs
        <5> QED BY <5>1, <1>5
      <4> QED BY <4>1 DEF Middle
    <3>2. between' = Cardinality(Middle(done', sequence', maxSequence'))
      BY <1>1, <2>1, <3>1, FS_EmptySet
    <3> QED BY <3>2 DEF BetweenCounts, Middle
  <2>2. CASE ~moves
    BY <1>1, <1>7, <2>2 DEF BetweenCounts, Middle
  <2> QED BY <2>1, <2>2
<1>12. LifecycleInv'
  <2> SUFFICES ASSUME NEW r \in Seqs PROVE Lifecycle(r)'
    BY DEF Lifecycle, LifecycleInv
  <2>1. Lifecycle(r) /\ (HandedOut(r)' <=> HandedOut(r))
    BY <1>1 DEF SupplierInv, LifecycleInv, Lifecycle, HandedOut
  <2>2. CASE r = seq
    <3>1. freeing'[r] = 0 /\ users'[r] = 0 /\ r \in done' /\ HandedOut(r)'
      BY <1>1, <1>2, <2>1, <2>2 DEF TypeOK
    <3> QED BY <3>1 DEF Lifecycle
  <2>3. CASE r # seq
    <3>1. freeing'[r] = freeing[r] /\ users'[r] = users[r] /\ (r \in done' <=> r \in done)
      BY <1>1, <2>3 DEF TypeOK
    <3> QED BY <2>1, <3>1 DEF Lifecycle
  <2> QED BY <2>2, <2>3
<1>13. NoLoadsInv' /\ ProgressInv' /\ ItemInv' /\ SpentInv'
  BY <1>1 DEF SupplierInv, NoLoadsInv, ProgressInv, ItemInv, SpentInv, ItemOf
<1>14. sequence' >= sequence
  BY <1>1, <1>3, <1>5
<1> QED BY <1>9, <1>10, <1>11, <1>12, <1>13, <1>14 DEF SupplierInv

\* The invariant holds of an unused supply.
LEMMA InitInv == Init => SupplierInv
<1> SUFFICES ASSUME Init PROVE SupplierInv
  OBVIOUS
<1> USE BoundAssumption, RingSizeAssumption DEF Init
<1>1. GateInv /\ ReleasedInv
  BY DEF GateInv, ReleasedInv, Seqs
<1>2. NoLoadsInv
  BY DEF NoLoadsInv, NoLoad
<1>3. BetweenCounts
  <2>1. {s \in done : sequence < s /\ s < maxSequence} = {}
    OBVIOUS
  <2> QED BY <2>1, FS_EmptySet DEF BetweenCounts
<1>4. ProgressInv /\ LifecycleInv /\ ItemInv
  BY DEF ProgressInv, LifecycleInv, ItemInv, HandedOut, Seqs
<1>5. SpentInv
  BY DEF SpentInv, NewItem
<1> QED BY <1>1, <1>2, <1>3, <1>4, <1>5 DEF SupplierInv

\* Every step preserves the invariant, and none moves the gate backward.
LEMMA StepInv ==
  ASSUME TypeOK, SupplierInv, OrderedRelease = FALSE, AddToSingleUser = FALSE,
         [Next]_vars
  PROVE  SupplierInv' /\ sequence' >= sequence
<1>0. sequence \in Int
  BY BoundAssumption DEF TypeOK
<1>1. CASE \E n \in 1 .. MaxBatch : Get(n) \/ GetAsIs(n)
  <2>1. sequence' = sequence
    BY <1>1 DEF Get, GetAsIs, Claim, bookkeeping
  <2>2. SupplierInv'
    BY <1>1, ClaimInv
  <2> QED BY <1>0, <2>1, <2>2
<1>2. CASE \E s \in Seqs : Publish(s)
  <2>1. PICK s \in Seqs : Publish(s)
    BY <1>2
  <2>2. sequence' = sequence /\ s <= s
    BY <2>1 DEF Publish, bookkeeping, Seqs
  <2>3. SupplierInv'
    BY <2>1, <2>2, PublishInv
  <2> QED BY <1>0, <2>2, <2>3
<1>3. CASE \E lo, hi \in Seqs : PublishBatch(lo, hi)
  <2>1. PICK lo, hi \in Seqs : PublishBatch(lo, hi)
    BY <1>3
  <2>2. sequence' = sequence /\ lo <= hi
    BY <2>1 DEF PublishBatch, bookkeeping, Seqs
  <2>3. SupplierInv'
    BY <2>1, <2>2, PublishInv
  <2> QED BY <1>0, <2>2, <2>3
<1>4. CASE ConsumerGet
  <2>1. sequence' = sequence
    BY <1>4 DEF ConsumerGet, bookkeeping
  <2>2. SupplierInv'
    BY <1>4, ConsumerGetInv
  <2> QED BY <1>0, <2>1, <2>2
<1>5. CASE \E s \in Seqs, n \in 1 .. MaxUsers : SetUsers(s, n) \/ AddUsers(s, n)
  <2>1. sequence' = sequence
    BY <1>5 DEF SetUsers, AddUsers, bookkeeping
  <2>2. SupplierInv'
    BY <1>5, UsersInv
  <2> QED BY <1>0, <2>1, <2>2
<1>6. CASE \E s \in Seqs : Release(s)
  <2>1. sequence' = sequence
    BY <1>6 DEF Release, bookkeeping
  <2>2. SupplierInv'
    BY <1>6, ReleaseInv
  <2> QED BY <1>0, <2>1, <2>2
<1>7. CASE \E s \in Seqs : RecordRelease(s)
  BY <1>7, RecordReleaseInv
<1>8. ASSUME NEW t \in Threads, NEW s \in Seqs
      PROVE  ~ReleaseLoad(t, s) /\ ~ReleaseStore(t)
  BY DEF ReleaseLoad, ReleaseStore, SupplierInv, NoLoadsInv
<1>9. CASE ErrorAlert \/ Finished \/ UNCHANGED vars
  <2>1. UNCHANGED <<items, claimed, cursor, sequence, lastSequenceReleased,
                    maxSequence, between, nextConsumerSequence,
                    availableConsumerSequence, filling, users, loads, freeing,
                    done>>
    BY <1>9 DEF ErrorAlert, Finished, vars, bookkeeping, consumer
  <2>2. GateInv' /\ ReleasedInv' /\ BetweenCounts' /\ ProgressInv' /\ NoLoadsInv'
    BY <2>1 DEF SupplierInv, GateInv, ReleasedInv, BetweenCounts, ProgressInv, NoLoadsInv
  <2>3. LifecycleInv' /\ ItemInv' /\ SpentInv'
    BY <2>1 DEF SupplierInv, LifecycleInv, ItemInv, SpentInv, HandedOut, ItemOf
  <2> QED BY <1>0, <2>1, <2>2, <2>3 DEF SupplierInv
<1>10. \A t \in Threads : ~ReleaseStore(t)
  BY DEF ReleaseStore, SupplierInv, NoLoadsInv
<1> QED BY <1>1, <1>2, <1>3, <1>4, <1>5, <1>6, <1>7, <1>8, <1>9, <1>10 DEF Next

-----------------------------------------------------------------------------
(* The theorems.                                                           *)

\* The invariant holds of every supply that releases in any order and whose
\* users follow the setUsers() protocol.
THEOREM SupplierInvariant ==
  ASSUME OrderedRelease = FALSE, AddToSingleUser = FALSE
  PROVE  Spec => []SupplierInv
<1>1. Init => SupplierInv
  BY InitInv
<1>2. TypeOK /\ SupplierInv /\ [Next]_vars => SupplierInv'
  BY StepInv
<1> QED BY <1>1, <1>2, TypeCorrect, PTL DEF Spec

-----------------------------------------------------------------------------
(***************************************************************************)
(* orderedRelease.  The counter is read in one step and written in         *)
(* another, so a thread may overwrite what another has written.  Then the  *)
(* counter says more than what it has still to see (Owed), never less: the *)
(* item is kept, and never freed early.                                    *)
(***************************************************************************)
\* The threads between the load and the store of the counter of s.
Loading(s) == {t \in Threads : loads[t].busy /\ loads[t].seq = s}

\* The decrements the counter of s has still to see.
Owed(s) == users[s] + Cardinality(Loading(s))

Counts(item) == item.multipleUsers /\ item.counter > 0

\* What is released is everything up to the gate.
OrderedGate ==
    /\ sequence <= claimed /\ claimed - RingSize <= sequence
    /\ done = {s \in Seqs : s <= sequence}

\* Releasing is the turn of the first sequence behind the gate.
OrderedLifecycle ==
    \A s \in Seqs :
        /\ freeing[s] \in {0, 1}
        /\ Owed(s) > 0 \/ freeing[s] > 0 \/ s \in done => HandedOut(s)
        /\ s \in done => Owed(s) = 0 /\ freeing[s] = 0
        /\ freeing[s] > 0 => Owed(s) = 0 /\ ~Counts(ItemOf(s))
        /\ Loading(s) # {} \/ freeing[s] > 0 => s = sequence + 1

\* A counter is not below what it has still to see.
OrderedItem ==
    \A s \in Seqs : s <= claimed /\ s \notin done =>
        /\ ItemOf(s).producerSequence = s
        /\ HandedOut(s) => ReleaseSeq(ItemOf(s)) = s
        /\ Owed(s) > 0 => IF Counts(ItemOf(s)) THEN Owed(s) <= ItemOf(s).counter
                                               ELSE Owed(s) = 1

\* Nor is what a thread has read of it.
OrderedLoads ==
    \A t \in Threads : loads[t].busy =>
        /\ loads[t].slot = Slot(loads[t].seq)
        /\ Owed(loads[t].seq) = 1 \/ Owed(loads[t].seq) <= loads[t].count

\* A slot whose trips are all over has a counter that is off or used up.
OrderedSpent ==
    \A i \in Slots :
        (\A s \in Seqs : Slot(s) = i /\ HandedOut(s) => s \in done) => ~Counts(items[i])

\* With orderedRelease an item is freed by its last user or not at all, and the
\* gate follows the releases one by one: the strengthening that makes
\* NoReuseWhileInUse and GateIsReleasedPrefix inductive.
OrderedInv == /\ OrderedGate
              /\ ProgressInv
              /\ OrderedLifecycle
              /\ OrderedItem
              /\ OrderedLoads
              /\ OrderedSpent

\* Of any number of threads finitely many are decrementing.
LoadsFinite == \A s \in Seqs : IsFiniteSet(Loading(s))

\* The parts of OrderedInv that are about one sequence, one thread, one slot.
TurnOK(s) ==
    /\ freeing[s] \in {0, 1}
    /\ Owed(s) > 0 \/ freeing[s] > 0 \/ s \in done => HandedOut(s)
    /\ s \in done => Owed(s) = 0 /\ freeing[s] = 0
    /\ freeing[s] > 0 => Owed(s) = 0 /\ ~Counts(ItemOf(s))
    /\ Loading(s) # {} \/ freeing[s] > 0 => s = sequence + 1

CounterOK(s) ==
    s <= claimed /\ s \notin done =>
        /\ ItemOf(s).producerSequence = s
        /\ HandedOut(s) => ReleaseSeq(ItemOf(s)) = s
        /\ Owed(s) > 0 => IF Counts(ItemOf(s)) THEN Owed(s) <= ItemOf(s).counter
                                               ELSE Owed(s) = 1

LoadOK(t) ==
    loads[t].busy =>
        /\ loads[t].slot = Slot(loads[t].seq)
        /\ Owed(loads[t].seq) = 1 \/ Owed(loads[t].seq) <= loads[t].count

TripsOver(i) == \A s \in Seqs : Slot(s) = i /\ HandedOut(s) => s \in done

LEMMA OwedFacts ==
  ASSUME TypeOK, LoadsFinite, NEW s \in Seqs
  PROVE  /\ users[s] \in Nat /\ Owed(s) \in Nat /\ freeing[s] \in Nat
         /\ Owed(s) = 0 <=> users[s] = 0 /\ Loading(s) = {}
         /\ Loading(s) = {} => Owed(s) = users[s]
         /\ users[s] <= Owed(s)
<1>1. IsFiniteSet(Loading(s)) /\ users[s] \in Nat /\ freeing[s] \in Nat
  BY DEF LoadsFinite, TypeOK
<1>2. Cardinality(Loading(s)) \in Nat /\ (Cardinality(Loading(s)) = 0 <=> Loading(s) = {})
  BY <1>1, FS_CardinalityType, FS_EmptySet
<1> QED BY <1>1, <1>2 DEF Owed

LEMMA OwedFactsNext ==
  ASSUME TypeOK', LoadsFinite', NEW s \in Seqs
  PROVE  /\ users'[s] \in Nat /\ Owed(s)' \in Nat /\ freeing'[s] \in Nat
         /\ Owed(s)' = 0 <=> users'[s] = 0 /\ Loading(s)' = {}
         /\ Loading(s)' = {} => Owed(s)' = users'[s]
         /\ users'[s] <= Owed(s)'
<1>1. IsFiniteSet(Loading(s)') /\ users'[s] \in Nat /\ freeing'[s] \in Nat
  BY DEF LoadsFinite, TypeOK
<1>2. Cardinality(Loading(s)') \in Nat /\ (Cardinality(Loading(s)') = 0 <=> Loading(s)' = {})
  BY <1>1, FS_CardinalityType, FS_EmptySet
<1> QED BY <1>1, <1>2 DEF Owed

LEMMA InvParts ==
  ASSUME TypeOK, OrderedInv
  PROVE  /\ OrderedGate /\ ProgressInv
         /\ \A s \in Seqs : TurnOK(s) /\ CounterOK(s)
         /\ \A t \in Threads : LoadOK(t)
         /\ \A i \in Slots : TripsOver(i) => ~Counts(items[i])
BY DEF OrderedInv, OrderedLifecycle, OrderedItem, OrderedLoads, OrderedSpent,
   TurnOK, CounterOK, LoadOK, TripsOver

LEMMA FromParts ==
  ASSUME OrderedGate', ProgressInv',
         \A s \in Seqs : TurnOK(s)' /\ CounterOK(s)',
         \A t \in Threads : LoadOK(t)',
         \A i \in Slots : TripsOver(i)' => ~Counts(items'[i])
  PROVE  OrderedInv'
BY DEF OrderedInv, OrderedLifecycle, OrderedItem, OrderedLoads, OrderedSpent,
   TurnOK, CounterOK, LoadOK, TripsOver

\* A thread comes and goes.
LEMMA LoadsStayFinite ==
  ASSUME TypeOK, LoadsFinite, [Next]_vars
  PROVE  LoadsFinite'
<1> SUFFICES ASSUME NEW s \in Seqs PROVE IsFiniteSet(Loading(s)')
  BY DEF LoadsFinite
<1>1. IsFiniteSet(Loading(s))
  BY DEF LoadsFinite
<1>2. CASE loads' = loads
  BY <1>1, <1>2 DEF Loading
<1>3. ASSUME NEW t \in Threads, \A u \in Threads : u # t => loads'[u] = loads[u]
      PROVE  IsFiniteSet(Loading(s)')
  <2>1. Loading(s)' \subseteq Loading(s) \cup {t}
    BY <1>3 DEF Loading
  <2>2. IsFiniteSet(Loading(s) \cup {t})
    BY <1>1, FS_AddElement
  <2> QED BY <2>1, <2>2, FS_Subset
<1>4. CASE \E t \in Threads : ReleaseStore(t) \/ \E r \in Seqs : ReleaseLoad(t, r)
  <2>1. PICK t \in Threads : ReleaseStore(t) \/ \E r \in Seqs : ReleaseLoad(t, r)
    BY <1>4
  <2>2. \A u \in Threads : u # t => loads'[u] = loads[u]
    BY <2>1 DEF ReleaseStore, ReleaseLoad, TypeOK
  <2> QED BY <1>3, <2>2
<1>5. CASE loads' # loads
  BY <1>4, <1>5 DEF Next, vars, Get, GetAsIs, Claim, Publish, PublishBatch, ConsumerGet,
     ErrorAlert, SetUsers, AddUsers, Release, RecordRelease, Finished
<1> QED BY <1>2, <1>5

\* A sequence that was not released is in front of the gate, within a ring of it,
\* and so in a slot of its own.
LEMMA InWindow ==
  ASSUME TypeOK, OrderedGate, NEW s \in Seqs, s \notin done
  PROVE  s > sequence /\ (s <= claimed => s - RingSize <= sequence)
BY BoundAssumption, RingSizeAssumption DEF TypeOK, OrderedGate, Seqs

LEMMA OwnSlot ==
  ASSUME TypeOK, OrderedGate,
         NEW r \in Seqs, r <= claimed, r \notin done,
         NEW s \in Seqs, s <= claimed, s \notin done, r # s
  PROVE  Slot(r) # Slot(s)
<1>1. r \in Nat /\ s \in Nat /\ sequence \in Int
  BY BoundAssumption DEF TypeOK, Seqs
<1> QED BY <1>1, InWindow, WithinRing

\* The slot of a sequence whose turn is to come has a counter that is off.
LEMMA NextTripSpent ==
  ASSUME TypeOK, OrderedInv, NEW s \in Seqs, ~HandedOut(s), s > sequence,
         s - RingSize <= sequence
  PROVE  ~Counts(ItemOf(s))
<1>1. Slot(s) \in Slots /\ s \in Nat /\ sequence \in Int
  BY SlotType, BoundAssumption DEF Seqs, TypeOK
<1>2. ASSUME NEW r \in Seqs, Slot(r) = Slot(s), HandedOut(r) PROVE r \in done
  <2> SUFFICES ASSUME r \notin done PROVE FALSE
    OBVIOUS
  <2>1. r <= claimed /\ r # s /\ r \in Nat
    BY <1>2 DEF HandedOut, Seqs
  <2>2. r > sequence /\ r - RingSize <= sequence
    BY <2>1, InWindow, InvParts
  <2> QED BY <1>1, <1>2, <2>1, <2>2, WithinRing
<1> QED BY <1>1, <1>2, InvParts DEF TripsOver, ItemOf

\* What an item counts is what Spent says it does not.
LEMMA SpentCounts ==
  ASSUME NEW item \in SupplyItem
  PROVE  Spent(item) <=> ~Counts(item)
BY DEF Spent, Counts, SupplyItem

\* Claiming: the sequences claimed are fresh, and their slots are those of
\* sequences behind the gate.
LEMMA ClaimOrdered ==
  ASSUME TypeOK, LoadsFinite, OrderedInv, TypeOK',
         NEW n \in 1 .. MaxBatch, Get(n) \/ GetAsIs(n)
  PROVE  OrderedInv'
<1> USE BoundAssumption, RingSizeAssumption
<1> DEFINE new == claimed + 1 .. claimed + n
<1>1. /\ claimed' = claimed + n
      /\ claimed + n - RingSize <= sequence
      /\ users' = IF Pipeline THEN users
                  ELSE [s \in Seqs |-> IF s \in new THEN 1 ELSE users[s]]
      /\ UNCHANGED <<sequence, nextConsumerSequence, loads, freeing, done>>
  BY DEF Get, GetAsIs, Claim, RoomFor, bookkeeping, consumer
<1>2. claimed \in Int /\ n \in Int /\ n >= 1 /\ sequence \in Int /\ sequence <= claimed
  BY InvParts DEF TypeOK, OrderedGate
<1>3. OrderedGate' /\ ProgressInv'
  <2>1. OrderedGate'
    BY <1>1, <1>2, InvParts DEF OrderedGate
  <2> QED BY <2>1, ClaimProgress, InvParts
<1>4. \A s \in Seqs : Loading(s)' = Loading(s)
  BY <1>1 DEF Loading
<1>5. ASSUME NEW s \in new
      PROVE  /\ s \in Seqs /\ s \notin done /\ freeing[s] = 0
             /\ users[s] = 0 /\ Loading(s) = {}
             /\ items'[Slot(s)].producerSequence = s
             /\ ReleaseSeq(items'[Slot(s)]) = s
             /\ ~Counts(items'[Slot(s)])
  <2>1. /\ s \in Seqs /\ s \in Nat /\ s > claimed
        /\ s > sequence /\ s - RingSize <= sequence
        /\ Slot(s) \in Slots /\ items[Slot(s)] \in SupplyItem
        /\ \/ items'[Slot(s)] = ResetItem(items[Slot(s)], s)
           \/ items'[Slot(s)] = AsIsItem(items[Slot(s)], s)
    BY <1>2, ClaimItems
  <2>2. ~HandedOut(s)
    BY <1>2, <2>1 DEF HandedOut
  <2>3. s \notin done /\ freeing[s] = 0 /\ Owed(s) = 0
    BY <2>1, <2>2, OwedFacts, InvParts DEF TurnOK
  <2>4. Spent(items[Slot(s)])
    BY <2>1, <2>2, NextTripSpent, SpentCounts DEF ItemOf
  <2>5. items'[Slot(s)] \in SupplyItem
    BY <2>1, ItemUpdates
  <2>6. /\ items'[Slot(s)].producerSequence = s
        /\ ReleaseSeq(items'[Slot(s)]) = s
        /\ Spent(items'[Slot(s)])
    BY <2>1, <2>4, FreshItem
  <2> QED BY <2>1, <2>3, <2>5, <2>6, OwedFacts, SpentCounts
<1>6. ASSUME NEW s \in new
      PROVE  Owed(s)' = IF Pipeline THEN 0 ELSE 1
  <2>1. users'[s] = IF Pipeline THEN 0 ELSE 1
    BY <1>1, <1>5
  <2>2. Cardinality(Loading(s)') = 0
    BY <1>4, <1>5, FS_EmptySet
  <2> QED BY <2>1, <2>2 DEF Owed
<1>7. ASSUME NEW s \in Seqs, s \notin new
      PROVE  /\ Owed(s)' = Owed(s) /\ (s <= claimed' <=> s <= claimed)
             /\ HandedOut(s)' <=> HandedOut(s)
  <2>1. s <= claimed' <=> s <= claimed
    BY <1>1, <1>2, <1>7 DEF Seqs
  <2>2. users'[s] = users[s]
    BY <1>1, <1>7
  <2> QED BY <1>1, <1>4, <2>1, <2>2 DEF HandedOut, Owed
<1>8. ASSUME NEW s \in Seqs, s <= claimed, s \notin done
      PROVE  ItemOf(s)' = ItemOf(s)
  <2>1. s \in Nat /\ s > sequence /\ s - RingSize <= sequence /\ Slot(s) \in Slots
    BY <1>8, InWindow, InvParts, SlotType DEF Seqs
  <2>2. ASSUME NEW x \in new PROVE Slot(x) # Slot(s)
    <3>1. x \in Nat /\ x > sequence /\ x - RingSize <= sequence /\ x # s
      BY <1>1, <1>2, <1>8, <2>1
    <3> QED BY <1>2, <2>1, <3>1, WithinRing
  <2>3. items'[Slot(s)] = items[Slot(s)]
    BY <2>1, <2>2 DEF Get, GetAsIs, Claim
  <2> QED BY <2>3 DEF ItemOf, Slot
<1>9. ASSUME NEW s \in Seqs PROVE TurnOK(s)' /\ CounterOK(s)'
  <2>1. CASE s \in new
    <3>1. s <= claimed'
      BY <1>1, <2>1
    <3>2. Owed(s)' > 0 => HandedOut(s)'
      BY <1>6, <2>1, <3>1 DEF HandedOut
    <3>3. TurnOK(s)'
      BY <1>1, <1>4, <1>5, <2>1, <3>2 DEF TurnOK
    <3>4. Owed(s)' > 0 => Owed(s)' = 1
      BY <1>6, <2>1
    <3>5. CounterOK(s)'
      BY <1>5, <2>1, <3>4 DEF CounterOK, ItemOf, Slot
    <3> QED BY <3>3, <3>5
  <2>2. CASE s \notin new
    <3>1. TurnOK(s) /\ CounterOK(s)
      BY InvParts
    <3>2. freeing[s] > 0 => ItemOf(s)' = ItemOf(s)
      BY <1>8, <3>1, OwedFacts DEF TurnOK, HandedOut
    <3>3. TurnOK(s)'
      BY <1>1, <1>4, <1>7, <2>2, <3>1, <3>2 DEF TurnOK
    <3>4. CounterOK(s)'
      BY <1>1, <1>7, <1>8, <2>2, <3>1 DEF CounterOK
    <3> QED BY <3>3, <3>4
  <2> QED BY <2>1, <2>2
<1>10. ASSUME NEW t \in Threads PROVE LoadOK(t)'
  <2> SUFFICES ASSUME loads[t].busy PROVE LoadOK(t)'
    BY <1>1 DEF LoadOK
  <2>1. loads[t].seq \in Seqs /\ t \in Loading(loads[t].seq)
    BY DEF TypeOK, Loads, Loading
  <2>2. PICK q \in Seqs : q = loads[t].seq
    BY <2>1
  <2>3. Owed(q)' = Owed(q)
    <3>1. q \notin new
      BY <1>5, <2>1, <2>2
    <3> QED BY <1>7, <3>1
  <2>4. loads'[t] = loads[t]
    BY <1>1
  <2>5. Owed(loads[t].seq)' = Owed(loads[t].seq)
    <3>1. Owed(loads[t].seq)' = Owed(q)'
      BY <2>2, <2>4 DEF Owed, Loading
    <3> QED BY <2>2, <2>3, <3>1
  <2>6. LoadOK(t)
    BY InvParts
  <2> QED BY <2>4, <2>5, <2>6 DEF LoadOK, Slot
<1>11. ASSUME NEW i \in Slots, TripsOver(i)' PROVE ~Counts(items'[i])
  <2>1. CASE \E s \in new : Slot(s) = i
    BY <1>5, <2>1
  <2>2. CASE ~\E s \in new : Slot(s) = i
    <3>1. items'[i] = items[i]
      BY <2>2 DEF Get, GetAsIs, Claim
    <3>2. TripsOver(i)
      BY <1>1, <1>7, <1>11, <2>2 DEF TripsOver, Slot
    <3> QED BY <3>1, <3>2, InvParts
  <2> QED BY <2>1, <2>2
<1> QED BY <1>3, <1>9, <1>10, <1>11, FromParts

\* What only moves the cursor or alerts the barrier disturbs nothing else.
LEMMA SameItems ==
  ASSUME TypeOK, OrderedInv, ProgressInv',
         UNCHANGED <<items, claimed, sequence, nextConsumerSequence,
                     users, loads, freeing, done>>
  PROVE  OrderedInv'
<1>1. \A s \in Seqs : Loading(s)' = Loading(s) /\ Owed(s)' = Owed(s)
  BY DEF Loading, Owed
<1>2. OrderedGate' /\ OrderedLifecycle' /\ OrderedItem' /\ OrderedSpent'
  BY <1>1 DEF OrderedInv, OrderedGate, OrderedLifecycle, OrderedItem, OrderedSpent,
     HandedOut, ItemOf
<1>3. OrderedLoads'
  <2>1. \A t \in Threads : Owed(loads[t].seq)' = Owed(loads[t].seq)
    BY DEF Owed, Loading
  <2> QED BY <2>1 DEF OrderedInv, OrderedLoads
<1> QED BY <1>2, <1>3 DEF OrderedInv

\* An operation on one item that was handed out disturbs no other.
LEMMA OneItem ==
  ASSUME TypeOK, LoadsFinite, OrderedInv, NEW s \in Seqs, HandedOut(s), s \notin done,
         UNCHANGED <<claimed, cursor, sequence, nextConsumerSequence,
                     availableConsumerSequence, filling, done>>,
         \A i \in Slots : i # Slot(s) => items'[i] = items[i],
         \A r \in Seqs : r # s => /\ users'[r] = users[r] /\ freeing'[r] = freeing[r]
                                  /\ Loading(r)' = Loading(r),
         TurnOK(s)', CounterOK(s)', \A t \in Threads : LoadOK(t)'
  PROVE  OrderedInv'
<1>1. OrderedGate' /\ ProgressInv'
  BY InvParts DEF OrderedGate, ProgressInv
<1>2. ASSUME NEW r \in Seqs, r # s PROVE TurnOK(r)' /\ CounterOK(r)'
  <2>1. /\ Loading(r)' = Loading(r) /\ freeing'[r] = freeing[r]
        /\ Owed(r)' = Owed(r) /\ (HandedOut(r)' <=> HandedOut(r))
    BY <1>2 DEF Owed, HandedOut
  <2>2. ASSUME r <= claimed, r \notin done PROVE ItemOf(r)' = ItemOf(r)
    <3>1. Slot(r) # Slot(s) /\ Slot(r) \in Slots
      BY <1>2, <2>2, OwnSlot, InvParts, SlotType DEF HandedOut, Seqs
    <3> QED BY <3>1 DEF ItemOf, Slot
  <2>3. TurnOK(r) /\ CounterOK(r)
    BY InvParts
  <2>4. freeing[r] > 0 => ItemOf(r)' = ItemOf(r)
    BY <2>2, <2>3, OwedFacts DEF TurnOK, HandedOut
  <2>5. TurnOK(r)'
    BY <2>1, <2>3, <2>4 DEF TurnOK
  <2>6. CounterOK(r)'
    BY <2>1, <2>2, <2>3 DEF CounterOK
  <2> QED BY <2>5, <2>6
<1>3. ASSUME NEW i \in Slots, TripsOver(i)' PROVE ~Counts(items'[i])
  <2>1. \A r \in Seqs : HandedOut(r)' <=> HandedOut(r)
    BY DEF HandedOut
  <2>2. TripsOver(i)
    BY <1>3, <2>1 DEF TripsOver, Slot
  <2>3. i # Slot(s)
    BY <2>2 DEF TripsOver
  <2> QED BY <2>2, <2>3, InvParts
<1> QED BY <1>1, <1>2, <1>3, FromParts

\* consumerGet(): the next published sequence x gets its first user.
LEMMA ConsumerOrdered ==
  ASSUME TypeOK, LoadsFinite, OrderedInv, ConsumerGet,
         NEW x \in Seqs, x = nextConsumerSequence
  PROVE  OrderedInv'
<1>1. /\ items' = [items EXCEPT ![Slot(x)] =
                     [@ EXCEPT !.consumerSequence = x, !.fromConsumerGet = TRUE]]
      /\ nextConsumerSequence' = x + 1
      /\ users' = [users EXCEPT ![x] = 1]
      /\ UNCHANGED <<claimed, sequence, loads, freeing, done>>
  BY DEF ConsumerGet, bookkeeping
<1>2. /\ ProgressInv' /\ Pipeline /\ x \in Nat /\ x <= claimed /\ ~HandedOut(x)
  BY ConsumerProgress, InvParts
<1>3. /\ x \notin done /\ freeing[x] = 0 /\ Loading(x) = {} /\ CounterOK(x)
  BY <1>2, OwedFacts, InvParts DEF TurnOK
<1>4. Slot(x) \in Slots /\ items[Slot(x)] \in SupplyItem /\ ~Counts(items[Slot(x)])
  <2>1. x > sequence /\ x - RingSize <= sequence
    BY <1>2, <1>3, InWindow, InvParts
  <2>2. Slot(x) \in Slots
    BY <1>2, SlotType
  <2> QED BY <1>2, <2>1, <2>2, NextTripSpent DEF ItemOf, TypeOK
<1>5. /\ items'[Slot(x)] = [items[Slot(x)] EXCEPT !.consumerSequence = x,
                                                  !.fromConsumerGet = TRUE]
      /\ \A i \in Slots : i # Slot(x) => items'[i] = items[i]
      /\ users'[x] = 1 /\ \A r \in Seqs : r # x => users'[r] = users[r]
  BY <1>1, <1>2, <1>4 DEF TypeOK
<1>6. /\ items'[Slot(x)].producerSequence = items[Slot(x)].producerSequence
      /\ ReleaseSeq(items'[Slot(x)]) = x /\ ~Counts(items'[Slot(x)])
  BY <1>4, <1>5 DEF SupplyItem, ReleaseSeq, Counts
<1>7. OrderedGate'
  BY <1>1, InvParts DEF OrderedGate
<1>8. \A s \in Seqs : Loading(s)' = Loading(s)
  BY <1>1 DEF Loading
<1>9. Owed(x)' = 1 /\ \A r \in Seqs : r # x => Owed(r)' = Owed(r)
  <2>1. Cardinality(Loading(x)') = 0
    BY <1>3, <1>8, FS_EmptySet
  <2> QED BY <1>5, <1>8, <2>1 DEF Owed
<1>10. HandedOut(x)' /\ \A r \in Seqs : r # x => (HandedOut(r)' <=> HandedOut(r))
  <2>1. \A r \in Seqs : r # x => (r < x + 1 <=> r < x)
    BY <1>2 DEF Seqs
  <2>2. x < x + 1
    BY <1>2
  <2> QED BY <1>1, <1>2, <2>1, <2>2 DEF HandedOut
<1>11. ASSUME NEW s \in Seqs PROVE TurnOK(s)' /\ CounterOK(s)'
  <2>1. TurnOK(s) /\ CounterOK(s)
    BY InvParts
  <2>2. CASE s = x
    <3>1. TurnOK(x)'
      BY <1>1, <1>3, <1>8, <1>10 DEF TurnOK
    <3>2. CounterOK(x)'
      BY <1>1, <1>2, <1>3, <1>6, <1>9 DEF CounterOK, ItemOf, Slot
    <3> QED BY <2>2, <3>1, <3>2
  <2>3. CASE s # x
    <3>1. ASSUME s <= claimed, s \notin done PROVE ItemOf(s)' = ItemOf(s)
      <4>1. Slot(s) # Slot(x) /\ Slot(s) \in Slots
        BY <1>2, <1>3, <2>3, <3>1, OwnSlot, InvParts, SlotType DEF Seqs
      <4> QED BY <1>5, <4>1 DEF ItemOf, Slot
    <3>2. freeing[s] > 0 => ItemOf(s)' = ItemOf(s)
      BY <2>1, <3>1, OwedFacts DEF TurnOK, HandedOut
    <3>3. TurnOK(s)'
      BY <1>1, <1>8, <1>9, <1>10, <2>1, <2>3, <3>2 DEF TurnOK
    <3>4. CounterOK(s)'
      BY <1>1, <1>9, <1>10, <2>1, <2>3, <3>1 DEF CounterOK
    <3> QED BY <3>3, <3>4
  <2> QED BY <2>2, <2>3
<1>12. ASSUME NEW t \in Threads PROVE LoadOK(t)'
  <2> SUFFICES ASSUME loads[t].busy PROVE LoadOK(t)'
    BY <1>1 DEF LoadOK
  <2>1. loads[t].seq \in Seqs /\ t \in Loading(loads[t].seq)
    BY DEF TypeOK, Loads, Loading
  <2>2. PICK q \in Seqs : q = loads[t].seq
    BY <2>1
  <2>3. Owed(q)' = Owed(q)
    BY <1>3, <1>9, <2>1, <2>2
  <2>4. LoadOK(t) /\ UNCHANGED loads[t]
    BY <1>1, InvParts
  <2> QED BY <2>2, <2>3, <2>4 DEF LoadOK, Slot, Owed, Loading
<1>13. ASSUME NEW i \in Slots, TripsOver(i)' PROVE ~Counts(items'[i])
  <2>1. i # Slot(x)
    BY <1>1, <1>3, <1>10, <1>13 DEF TripsOver, Slot
  <2>2. TripsOver(i)
    BY <1>1, <1>10, <1>13, <2>1 DEF TripsOver, Slot
  <2> QED BY <1>5, <2>1, <2>2, InvParts
<1> QED BY <1>2, <1>7, <1>11, <1>12, <1>13, FromParts

\* A sequence that has users was handed out and is not released.
LEMMA InHand ==
  ASSUME TypeOK, LoadsFinite, OrderedInv, NEW s \in Seqs,
         Owed(s) > 0 \/ freeing[s] > 0
  PROVE  /\ HandedOut(s) /\ s \notin done /\ s <= claimed
         /\ Slot(s) \in Slots /\ ItemOf(s) \in SupplyItem /\ ReleaseSeq(ItemOf(s)) = s
<1>1. HandedOut(s) /\ s \notin done /\ s <= claimed
  BY InvParts, OwedFacts DEF TurnOK, HandedOut
<1>2. Slot(s) \in Slots
  BY SlotType DEF Seqs
<1> QED BY <1>1, <1>2, InvParts DEF CounterOK, ItemOf, TypeOK

\* setUsers() and addUsers(): the counter follows the number of users.
LEMMA UsersOrdered ==
  ASSUME TypeOK, LoadsFinite, OrderedInv, TypeOK', LoadsFinite', AddToSingleUser = FALSE,
         NEW s \in Seqs, NEW n \in 1 .. MaxUsers, SetUsers(s, n) \/ AddUsers(s, n)
  PROVE  OrderedInv'
<1> DEFINE item == items[Slot(s)]
<1>1. /\ users[s] > 0 /\ n \in Nat
      /\ UNCHANGED <<claimed, cursor, sequence, nextConsumerSequence,
                     availableConsumerSequence, filling, loads, freeing, done>>
  BY BoundAssumption DEF SetUsers, AddUsers, bookkeeping, consumer
<1>2. Loading(s) = {} /\ Owed(s) = users[s] /\ users[s] \in Nat
  <2>1. NoneDecrementing(s)
    BY DEF SetUsers, AddUsers
  <2>2. Loading(s) = {}
    BY <2>1 DEF NoneDecrementing, Loading
  <2> QED BY <2>2, OwedFacts
<1>3. /\ HandedOut(s) /\ s \notin done /\ s <= claimed
      /\ Slot(s) \in Slots /\ item \in SupplyItem /\ ReleaseSeq(item) = s
  BY <1>1, <1>2, InHand DEF ItemOf
<1>4. TurnOK(s) /\ CounterOK(s)
  BY InvParts
<1>5. /\ \A i \in Slots : i # Slot(s) => items'[i] = items[i]
      /\ \A r \in Seqs : r # s => users'[r] = users[r]
  BY DEF SetUsers, AddUsers, TypeOK
<1>6. \A r \in Seqs : Loading(r)' = Loading(r)
  BY <1>1 DEF Loading
<1>7. /\ items'[Slot(s)].producerSequence = item.producerSequence
      /\ ReleaseSeq(items'[Slot(s)]) = s
      /\ items'[Slot(s)].multipleUsers
      /\ users'[s] <= items'[Slot(s)].counter /\ users'[s] > 0
  <2>1. CASE SetUsers(s, n)
    <3>1. items'[Slot(s)] = [item EXCEPT !.multipleUsers = TRUE, !.counter = n]
      BY <1>3, <2>1 DEF SetUsers, TypeOK
    <3>2. users'[s] = n /\ n > 1
      BY <2>1 DEF SetUsers, TypeOK
    <3>3. items'[Slot(s)].multipleUsers /\ items'[Slot(s)].counter = n
      BY <1>3, <3>1 DEF SupplyItem
    <3>4. /\ items'[Slot(s)].producerSequence = item.producerSequence
          /\ ReleaseSeq(items'[Slot(s)]) = ReleaseSeq(item)
      BY <1>3, <3>1 DEF SupplyItem, ReleaseSeq
    <3> QED BY <1>1, <1>3, <3>2, <3>3, <3>4
  <2>2. CASE AddUsers(s, n)
    <3>1. item.multipleUsers /\ item.counter > 0
      BY <2>2 DEF AddUsers, ItemOf
    <3>2. users[s] <= item.counter
      BY <1>1, <1>2, <1>3, <1>4, <3>1 DEF CounterOK, ItemOf, Counts
    <3>3. items'[Slot(s)] = [item EXCEPT !.counter = item.counter + n]
      BY <1>3, <2>2, <3>1 DEF AddUsers, CounterAfterAdd, ItemOf, TypeOK
    <3>4. users'[s] = users[s] + n
      BY <2>2 DEF AddUsers, TypeOK
    <3>5. items'[Slot(s)].multipleUsers /\ items'[Slot(s)].counter = item.counter + n
      BY <1>3, <3>1, <3>3 DEF SupplyItem
    <3>6. /\ items'[Slot(s)].producerSequence = item.producerSequence
          /\ ReleaseSeq(items'[Slot(s)]) = ReleaseSeq(item)
      BY <1>3, <3>3 DEF SupplyItem, ReleaseSeq
    <3>7. item.counter \in Int
      BY <1>3 DEF SupplyItem
    <3> QED BY <1>1, <1>2, <1>3, <3>2, <3>4, <3>5, <3>6, <3>7
  <2> QED BY <2>1, <2>2
<1>8. Owed(s)' = users'[s] /\ Owed(s)' \in Nat
  BY <1>2, <1>6, OwedFactsNext
<1>9. TurnOK(s)'
  <2>1. freeing[s] = 0
    BY <1>1, <1>2, <1>4, OwedFacts DEF TurnOK
  <2>2. HandedOut(s)'
    BY <1>1, <1>3 DEF HandedOut
  <2> QED BY <1>1, <1>2, <1>3, <1>6, <2>1, <2>2 DEF TurnOK
<1>10. CounterOK(s)'
  <2>1. items'[Slot(s)].counter \in Int
    BY <1>3 DEF TypeOK, SupplyItem
  <2>2. items'[Slot(s)].counter > 0
    BY <1>7, <1>8, <2>1
  <2> QED BY <1>1, <1>3, <1>4, <1>7, <1>8, <2>2 DEF CounterOK, ItemOf, Slot, Counts
<1>11. ASSUME NEW t \in Threads PROVE LoadOK(t)'
  <2> SUFFICES ASSUME loads[t].busy PROVE LoadOK(t)'
    BY <1>1 DEF LoadOK
  <2>1. loads[t].seq \in Seqs /\ t \in Loading(loads[t].seq)
    BY DEF TypeOK, Loads, Loading
  <2>2. PICK q \in Seqs : q = loads[t].seq
    BY <2>1
  <2>3. q # s
    BY <1>2, <2>1, <2>2
  <2>4. Owed(q)' = Owed(q)
    BY <1>5, <1>6, <2>3 DEF Owed
  <2>5. LoadOK(t) /\ UNCHANGED loads[t]
    BY <1>1, InvParts
  <2> QED BY <2>2, <2>4, <2>5 DEF LoadOK, Slot, Owed, Loading
<1> QED BY <1>1, <1>3, <1>5, <1>6, <1>9, <1>10, <1>11, OneItem

\* The load: the thread that reads the counter owes its decrement as the user did.
LEMMA LoadOrdered ==
  ASSUME TypeOK, LoadsFinite, OrderedInv,
         NEW t \in Threads, NEW s \in Seqs, ReleaseLoad(t, s)
  PROVE  OrderedInv'
<1>1. /\ ~loads[t].busy /\ users[s] > 0 /\ OrderPromise(s)
      /\ users' = [users EXCEPT ![s] = @ - 1]
      /\ loads' = [loads EXCEPT ![t] =
                     [busy |-> TRUE, seq |-> ReleaseSeq(ItemOf(s)),
                      slot |-> Slot(s), count |-> ItemOf(s).counter]]
      /\ UNCHANGED <<items, claimed, cursor, sequence, nextConsumerSequence,
                     availableConsumerSequence, filling, freeing, done>>
  BY DEF ReleaseLoad, bookkeeping, consumer
<1>2. users[s] \in Nat /\ Owed(s) \in Nat /\ Owed(s) > 0 /\ freeing[s] \in Nat
  BY <1>1, OwedFacts
<1>3. /\ HandedOut(s) /\ s \notin done /\ s <= claimed
      /\ Slot(s) \in Slots /\ ItemOf(s) \in SupplyItem /\ ReleaseSeq(ItemOf(s)) = s
      /\ TurnOK(s) /\ CounterOK(s)
  BY <1>2, InHand, InvParts
<1>4. s = sequence + 1
  <2>1. sequence \in Int /\ sequence >= -1 /\ s \in Nat /\ s <= MaxSeq /\ MaxSeq \in Nat
    BY BoundAssumption DEF TypeOK, Seqs
  <2>2. s > sequence
    BY <1>3, InWindow, InvParts
  <2>3. CASE s - 1 > sequence
    <3>1. s - 1 \in 0 .. s - 1 /\ s - 1 \in Seqs
      BY <2>1, <2>3 DEF Seqs
    <3>2. s - 1 \in done
      BY <1>1, <3>1 DEF OrderPromise
    <3> QED BY <2>1, <2>3, <3>2, InvParts DEF OrderedGate
  <2> QED BY <2>1, <2>2, <2>3
<1>5. /\ loads'[t] = [busy |-> TRUE, seq |-> s, slot |-> Slot(s), count |-> ItemOf(s).counter]
      /\ \A u \in Threads : u # t => loads'[u] = loads[u]
      /\ users'[s] = users[s] - 1 /\ \A r \in Seqs : r # s => users'[r] = users[r]
  BY <1>1, <1>3 DEF TypeOK
<1>6. /\ Loading(s)' = Loading(s) \cup {t} /\ t \notin Loading(s)
      /\ \A r \in Seqs : r # s => Loading(r)' = Loading(r)
  <2>1. \A r : t \notin Loading(r)
    BY <1>1 DEF Loading
  <2>2. loads'[t].busy /\ loads'[t].seq = s
    BY <1>5
  <2> QED BY <1>5, <2>1, <2>2 DEF Loading
<1>7. Owed(s)' = Owed(s) /\ \A r \in Seqs : r # s => Owed(r)' = Owed(r)
  <2>1. IsFiniteSet(Loading(s)) /\ Cardinality(Loading(s)) \in Nat
    BY FS_CardinalityType DEF LoadsFinite
  <2>2. Cardinality(Loading(s)') = Cardinality(Loading(s)) + 1
    BY <1>6, <2>1, FS_AddElement
  <2> QED BY <1>2, <1>5, <1>6, <2>1, <2>2 DEF Owed
<1>8. HandedOut(s)' /\ ItemOf(s)' = ItemOf(s)
  BY <1>1, <1>3 DEF HandedOut, ItemOf, Slot
<1>9. TurnOK(s)'
  <2>1. freeing[s] = 0
    BY <1>2, <1>3 DEF TurnOK
  <2> QED BY <1>1, <1>3, <1>4, <1>7, <1>8, <2>1 DEF TurnOK
<1>10. CounterOK(s)'
  BY <1>1, <1>3, <1>7, <1>8 DEF CounterOK
<1>11. ASSUME NEW u \in Threads PROVE LoadOK(u)'
  <2>1. CASE u = t
    <3>1. /\ loads'[u].seq = s /\ loads'[u].slot = Slot(s)
          /\ loads'[u].count = ItemOf(s).counter
      BY <1>5, <2>1
    <3>2. Owed(s) = 1 \/ Owed(s) <= ItemOf(s).counter
      BY <1>2, <1>3 DEF CounterOK
    <3>3. (loads[u].seq)' = s
      BY <3>1
    <3>4. Owed(loads[u].seq)' = Owed(s)'
      BY <3>3 DEF Owed, Loading
    <3> QED BY <1>7, <3>1, <3>2, <3>4 DEF LoadOK, Slot
  <2>2. CASE u # t
    <3> SUFFICES ASSUME loads[u].busy PROVE LoadOK(u)'
      BY <1>5, <2>2 DEF LoadOK
    <3>1. PICK q \in Seqs : q = loads[u].seq
      BY DEF TypeOK, Loads
    <3>2. Owed(q)' = Owed(q)
      BY <1>7
    <3>3. LoadOK(u) /\ UNCHANGED loads[u]
      BY <1>5, <2>2, InvParts
    <3> QED BY <3>1, <3>2, <3>3 DEF LoadOK, Slot, Owed, Loading
  <2> QED BY <2>1, <2>2
<1> QED BY <1>1, <1>3, <1>5, <1>6, <1>9, <1>10, <1>11, OneItem

\* The store: whatever other threads have written meanwhile, the item is freed
\* only if this decrement was the last one it was owed.
LEMMA StoreOrdered ==
  ASSUME TypeOK, LoadsFinite, OrderedInv, TypeOK', LoadsFinite',
         NEW t \in Threads, NEW s \in Seqs, s = loads[t].seq, ReleaseStore(t)
  PROVE  OrderedInv'
<1> DEFINE item  == items[Slot(s)]
           count == loads[t].count - 1
<1>1. loads[t].busy /\ loads[t].slot = Slot(s) /\ t \in Loading(s)
  BY InvParts DEF ReleaseStore, LoadOK, Loading
<1>2. /\ loads' = [loads EXCEPT ![t] = NoLoad]
      /\ items' = IF item.multipleUsers
                  THEN [items EXCEPT ![Slot(s)].counter = count] ELSE items
      /\ freeing' = IF NoUserLeft(item, count)
                    THEN [freeing EXCEPT ![s] = @ + 1] ELSE freeing
      /\ UNCHANGED <<claimed, cursor, sequence, nextConsumerSequence,
                     availableConsumerSequence, filling, users, done>>
  BY <1>1 DEF ReleaseStore, bookkeeping, consumer
<1>3. Owed(s) \in Nat /\ Owed(s) > 0
  BY <1>1, OwedFacts
<1>4. /\ HandedOut(s) /\ s \notin done /\ s <= claimed
      /\ Slot(s) \in Slots /\ item \in SupplyItem /\ ReleaseSeq(item) = s
      /\ TurnOK(s) /\ CounterOK(s)
  BY <1>3, InHand, InvParts DEF ItemOf
<1>5. /\ s = sequence + 1 /\ freeing[s] = 0
      /\ count \in Int /\ item.counter \in Int
  BY <1>1, <1>3, <1>4, OwedFacts DEF TurnOK, TypeOK, Loads, SupplyItem
<1>6. /\ loads'[t] = NoLoad /\ \A u \in Threads : u # t => loads'[u] = loads[u]
      /\ \A i \in Slots : i # Slot(s) => items'[i] = items[i]
      /\ \A r \in Seqs : r # s => freeing'[r] = freeing[r]
      /\ freeing'[s] = IF NoUserLeft(item, count) THEN 1 ELSE 0
  BY <1>2, <1>4, <1>5 DEF TypeOK
<1>7. Loading(s)' = Loading(s) \ {t} /\ \A r \in Seqs : r # s => Loading(r)' = Loading(r)
  <2>1. ~loads'[t].busy
    BY <1>6 DEF NoLoad
  <2>2. \A r \in Seqs : r # s => t \notin Loading(r)
    BY DEF Loading
  <2> QED BY <1>6, <2>1, <2>2 DEF Loading
<1>8. Owed(s)' = Owed(s) - 1 /\ \A r \in Seqs : r # s => Owed(r)' = Owed(r)
  <2>1. IsFiniteSet(Loading(s)) /\ Cardinality(Loading(s)) \in Nat
    BY FS_CardinalityType DEF LoadsFinite
  <2>2. Cardinality(Loading(s)') = Cardinality(Loading(s)) - 1
    BY <1>1, <1>7, <2>1, FS_RemoveElement
  <2>3. users[s] \in Nat
    BY DEF TypeOK
  <2> QED BY <1>2, <1>7, <2>1, <2>2, <2>3 DEF Owed
<1>9. Owed(s) = 1 \/ Owed(s) <= loads[t].count
  BY <1>1, InvParts DEF LoadOK
<1>10. loads[t].count \in Int
  BY DEF TypeOK, Loads
<1>11. NoUserLeft(item, count) => Owed(s)' = 0
  <2>1. ~item.multipleUsers => Owed(s) = 1
    BY <1>3, <1>4 DEF CounterOK, Counts, ItemOf
  <2> QED BY <1>3, <1>8, <1>9, <1>10, <2>1 DEF NoUserLeft
<1>12. /\ items'[Slot(s)].producerSequence = item.producerSequence
       /\ ReleaseSeq(items'[Slot(s)]) = s
       /\ items'[Slot(s)].multipleUsers = item.multipleUsers
       /\ items'[Slot(s)].counter = IF item.multipleUsers THEN count ELSE item.counter
  <2>1. CASE item.multipleUsers
    <3>1. items'[Slot(s)] = [item EXCEPT !.counter = count]
      BY <1>2, <1>4, <2>1 DEF TypeOK
    <3> QED BY <1>4, <2>1, <3>1 DEF SupplyItem, ReleaseSeq
  <2>2. CASE ~item.multipleUsers
    BY <1>2, <1>4, <2>2
  <2> QED BY <2>1, <2>2
<1>13. Counts(items'[Slot(s)]) <=> ~NoUserLeft(item, count)
  BY <1>5, <1>12 DEF Counts, NoUserLeft
<1>14. HandedOut(s)'
  BY <1>2, <1>4 DEF HandedOut
<1>15. TurnOK(s)'
  <2>1. freeing'[s] \in {0, 1} /\ (freeing'[s] > 0 => NoUserLeft(item, count))
    BY <1>6
  <2> QED BY <1>2, <1>4, <1>5, <1>11, <1>13, <1>14, <2>1 DEF TurnOK, ItemOf, Slot
<1>16. CounterOK(s)'
  <2>1. item.producerSequence = s
    BY <1>4 DEF CounterOK, ItemOf
  <2>2. CASE NoUserLeft(item, count)
    <3>1. ~(Owed(s)' > 0)
      BY <1>11, <2>2
    <3> QED BY <1>12, <2>1, <3>1 DEF CounterOK, ItemOf, Slot
  <2>3. CASE ~NoUserLeft(item, count)
    <3>1. items'[Slot(s)].counter = count
      BY <1>12, <2>3 DEF NoUserLeft
    <3>2. Owed(s)' > 0 => Owed(s)' <= count
      BY <1>3, <1>8, <1>9, <1>10
    <3>3. Counts(items'[Slot(s)])
      BY <1>13, <2>3
    <3> QED BY <1>12, <2>1, <3>1, <3>2, <3>3 DEF CounterOK, ItemOf, Slot
  <2> QED BY <2>2, <2>3
<1>17. ASSUME NEW u \in Threads PROVE LoadOK(u)'
  <2> SUFFICES ASSUME loads'[u].busy PROVE LoadOK(u)'
    BY DEF LoadOK
  <2>1. u # t
    BY <1>6 DEF NoLoad
  <2>2. UNCHANGED loads[u] /\ loads[u].busy /\ LoadOK(u)
    BY <1>6, <2>1, InvParts
  <2>3. PICK q \in Seqs : q = loads[u].seq
    BY DEF TypeOK, Loads
  <2>4. Owed(loads[u].seq)' = Owed(q)'
    BY <2>2, <2>3 DEF Owed, Loading
  <2>5. Owed(q)' = 1 \/ Owed(q)' <= loads[u].count
    <3>1. CASE q = s
      <4>1. u \in Loading(s)'
        BY <2>2, <2>3, <3>1 DEF Loading
      <4>2. Owed(s)' \in Nat /\ Owed(s)' # 0
        BY <4>1, OwedFactsNext
      <4>3. loads[u].count \in Int
        BY DEF TypeOK, Loads
      <4>4. Owed(s) = 1 \/ Owed(s) <= loads[u].count
        BY <2>2, <2>3, <3>1 DEF LoadOK
      <4>5. Owed(s)' <= loads[u].count
        BY <1>3, <1>8, <4>2, <4>3, <4>4
      <4> QED BY <3>1, <4>5
    <3>2. CASE q # s
      BY <1>8, <2>2, <2>3, <3>2 DEF LoadOK
    <3> QED BY <3>1, <3>2
  <2> QED BY <2>2, <2>4, <2>5 DEF LoadOK, Slot
<1> QED BY <1>2, <1>4, <1>6, <1>7, <1>15, <1>16, <1>17, OneItem

\* release() without the mutex: the gate moves to the sequence released, which
\* is the one behind it.
LEMMA RecordOrdered ==
  ASSUME TypeOK, LoadsFinite, OrderedInv, OrderedRelease = TRUE,
         NEW seq \in Seqs, RecordRelease(seq)
  PROVE  OrderedInv' /\ sequence' >= sequence
<1>1. /\ freeing[seq] > 0
      /\ freeing' = [freeing EXCEPT ![seq] = @ - 1]
      /\ done' = done \cup {seq} /\ sequence' = seq
      /\ UNCHANGED <<items, claimed, cursor, nextConsumerSequence,
                     availableConsumerSequence, filling, users, loads>>
  BY DEF RecordRelease, consumer
<1>2. /\ seq = sequence + 1 /\ freeing[seq] = 1 /\ Owed(seq) = 0 /\ ~Counts(ItemOf(seq))
      /\ HandedOut(seq) /\ seq \notin done /\ seq <= claimed
  BY <1>1, InHand, InvParts DEF TurnOK
<1>3. /\ sequence \in Int /\ seq \in Int /\ claimed \in Int /\ RingSize \in Nat
      /\ claimed - RingSize <= sequence /\ done = {s \in Seqs : s <= sequence}
  BY BoundAssumption, RingSizeAssumption, InvParts DEF TypeOK, Seqs, OrderedGate
<1>4. OrderedGate' /\ ProgressInv'
  <2>1. done' = {s \in Seqs : s <= seq}
    <3>1. \A s \in Seqs : s <= seq <=> s <= sequence \/ s = seq
      BY <1>2, <1>3 DEF Seqs
    <3> QED BY <1>1, <1>3, <3>1
  <2>2. OrderedGate'
    BY <1>1, <1>2, <1>3, <2>1 DEF OrderedGate
  <2> QED BY <1>1, <2>2, InvParts DEF ProgressInv
<1>5. \A s \in Seqs : Loading(s)' = Loading(s) /\ Owed(s)' = Owed(s)
  BY <1>1 DEF Loading, Owed
<1>6. \A s \in Seqs : (HandedOut(s)' <=> HandedOut(s)) /\ ItemOf(s)' = ItemOf(s)
  BY <1>1 DEF HandedOut, ItemOf, Slot
<1>7. freeing'[seq] = 0 /\ \A s \in Seqs : s # seq => freeing'[s] = freeing[s]
  BY <1>1, <1>2 DEF TypeOK
<1>8. ASSUME NEW s \in Seqs PROVE TurnOK(s)' /\ CounterOK(s)'
  <2>1. TurnOK(s) /\ CounterOK(s)
    BY InvParts
  <2>2. CASE s = seq
    <3>1. Loading(seq) = {}
      BY <1>2, OwedFacts
    <3>2. TurnOK(s)'
      BY <1>2, <1>5, <1>6, <1>7, <2>2, <3>1 DEF TurnOK
    <3> QED BY <1>1, <2>2, <3>2 DEF CounterOK
  <2>3. CASE s # seq
    <3>1. Loading(s) = {} /\ ~(freeing[s] > 0)
      BY <1>2, <2>1, <2>3 DEF TurnOK
    <3>2. TurnOK(s)'
      BY <1>1, <1>5, <1>6, <1>7, <2>1, <2>3, <3>1 DEF TurnOK
    <3>3. CounterOK(s)'
      BY <1>1, <1>5, <1>6, <2>1, <2>3 DEF CounterOK
    <3> QED BY <3>2, <3>3
  <2> QED BY <2>2, <2>3
<1>9. ASSUME NEW t \in Threads PROVE LoadOK(t)'
  <2>1. Owed(loads[t].seq)' = Owed(loads[t].seq)
    BY <1>1 DEF Owed, Loading
  <2>2. LoadOK(t)
    BY InvParts
  <2> QED BY <1>1, <2>1, <2>2 DEF LoadOK, Slot
<1>10. ASSUME NEW i \in Slots, TripsOver(i)' PROVE ~Counts(items'[i])
  <2>1. CASE i = Slot(seq)
    BY <1>1, <1>2, <2>1 DEF ItemOf
  <2>2. CASE i # Slot(seq)
    <3>1. TripsOver(i)
      BY <1>1, <1>6, <1>10, <2>2 DEF TripsOver, Slot
    <3> QED BY <1>1, <3>1, InvParts
  <2> QED BY <2>1, <2>2
<1>11. sequence' >= sequence
  BY <1>1, <1>2, <1>3
<1> QED BY <1>4, <1>8, <1>9, <1>10, <1>11, FromParts

LEMMA InitOrdered == Init => OrderedInv /\ LoadsFinite
<1> SUFFICES ASSUME Init PROVE OrderedInv /\ LoadsFinite
  OBVIOUS
<1> USE BoundAssumption, RingSizeAssumption
<1>1. \A s \in Seqs : Loading(s) = {} /\ users[s] = 0 /\ Cardinality(Loading(s)) = 0
  BY FS_EmptySet DEF Init, Loading, NoLoad
<1>2. \A s \in Seqs : Owed(s) = 0
  BY <1>1 DEF Owed
<1>3. OrderedGate /\ ProgressInv
  BY DEF Init, OrderedGate, ProgressInv, Seqs
<1>4. OrderedLifecycle /\ OrderedItem
  BY <1>1, <1>2 DEF Init, OrderedLifecycle, OrderedItem, Seqs
<1>5. OrderedLoads /\ OrderedSpent
  BY DEF Init, OrderedLoads, OrderedSpent, NoLoad, NewItem, Counts
<1>6. LoadsFinite
  BY <1>1, FS_EmptySet DEF LoadsFinite
<1> QED BY <1>3, <1>4, <1>5, <1>6 DEF OrderedInv

\* Every step preserves the invariant, and none moves the gate backward.
LEMMA StepOrdered ==
  ASSUME TypeOK, TypeOK', LoadsFinite, LoadsFinite', OrderedInv,
         OrderedRelease = TRUE, AddToSingleUser = FALSE, [Next]_vars
  PROVE  OrderedInv' /\ sequence' >= sequence
<1>0. sequence \in Int
  BY BoundAssumption DEF TypeOK
<1>1. CASE \E n \in 1 .. MaxBatch : Get(n) \/ GetAsIs(n)
  <2>1. sequence' = sequence
    BY <1>1 DEF Get, GetAsIs, Claim, bookkeeping
  <2>2. OrderedInv'
    BY <1>1, ClaimOrdered
  <2> QED BY <1>0, <2>1, <2>2
<1>2. ASSUME NEW lo \in Seqs, NEW hi \in Seqs, lo <= hi,
             \/ lo = hi /\ Publish(hi)
             \/ PublishBatch(lo, hi)
      PROVE  OrderedInv' /\ sequence' >= sequence
  <2>1. \A s \in Seqs : s <= claimed /\ ~HandedOut(s) => ItemOf(s).producerSequence = s
    BY InvParts DEF TurnOK, CounterOK
  <2>2. /\ ProgressInv'
        /\ UNCHANGED <<items, claimed, sequence, lastSequenceReleased,
                       maxSequence, between, nextConsumerSequence,
                       users, loads, freeing, done>>
    BY <1>2, <2>1, PublishProgress, InvParts
  <2> QED BY <1>0, <2>2, SameItems
<1>3. CASE \E s \in Seqs : Publish(s)
  <2>1. PICK s \in Seqs : Publish(s)
    BY <1>3
  <2>2. s <= s
    BY DEF Seqs
  <2> QED BY <1>2, <2>1, <2>2
<1>4. CASE \E lo, hi \in Seqs : PublishBatch(lo, hi)
  <2>1. PICK lo \in Seqs, hi \in Seqs : PublishBatch(lo, hi)
    BY <1>4
  <2>2. lo <= hi
    BY <2>1 DEF PublishBatch, Seqs
  <2> QED BY <1>2, <2>1, <2>2
<1>5. CASE ConsumerGet
  <2>1. PICK x \in Seqs : x = nextConsumerSequence
    BY <1>5, ConsumerProgress, InvParts
  <2>2. sequence' = sequence
    BY <1>5 DEF ConsumerGet, bookkeeping
  <2> QED BY <1>0, <1>5, <2>1, <2>2, ConsumerOrdered
<1>6. CASE \E s \in Seqs, n \in 1 .. MaxUsers : SetUsers(s, n) \/ AddUsers(s, n)
  <2>1. sequence' = sequence
    BY <1>6 DEF SetUsers, AddUsers, bookkeeping
  <2>2. OrderedInv'
    BY <1>6, UsersOrdered
  <2> QED BY <1>0, <2>1, <2>2
<1>7. CASE \E t \in Threads, s \in Seqs : ReleaseLoad(t, s)
  <2>1. sequence' = sequence
    BY <1>7 DEF ReleaseLoad, bookkeeping
  <2>2. OrderedInv'
    BY <1>7, LoadOrdered
  <2> QED BY <1>0, <2>1, <2>2
<1>8. CASE \E t \in Threads : ReleaseStore(t)
  <2>1. PICK t \in Threads : ReleaseStore(t)
    BY <1>8
  <2>2. PICK s \in Seqs : s = loads[t].seq
    BY DEF TypeOK, Loads
  <2>3. sequence' = sequence
    BY <2>1 DEF ReleaseStore, bookkeeping
  <2> QED BY <1>0, <2>1, <2>2, <2>3, StoreOrdered
<1>9. CASE \E s \in Seqs : RecordRelease(s)
  BY <1>9, RecordOrdered
<1>10. \A s \in Seqs : ~Release(s)
  BY DEF Release
<1>11. CASE ErrorAlert \/ Finished \/ UNCHANGED vars
  <2>1. UNCHANGED <<items, claimed, cursor, sequence, nextConsumerSequence,
                    availableConsumerSequence, filling, users, loads, freeing, done>>
    BY <1>11 DEF ErrorAlert, Finished, vars, bookkeeping, consumer
  <2>2. ProgressInv'
    BY <2>1, InvParts DEF ProgressInv
  <2> QED BY <1>0, <2>1, <2>2, SameItems
<1> QED BY <1>1, <1>3, <1>4, <1>5, <1>6, <1>7, <1>8, <1>9, <1>10, <1>11 DEF Next

LEMMA AlwaysFinite == Spec => []LoadsFinite
<1>1. TypeOK /\ LoadsFinite /\ [Next]_vars => LoadsFinite'
  BY LoadsStayFinite
<1> QED BY <1>1, InitOrdered, TypeCorrect, PTL DEF Spec

\* The invariant holds of every supply with orderedRelease, for any number of
\* threads that release an item at the same time, if items are released in order
\* and users follow the setUsers() protocol.
THEOREM OrderedInvariant ==
  ASSUME OrderedRelease = TRUE, AddToSingleUser = FALSE
  PROVE  Spec => []OrderedInv
<1>1. /\ TypeOK /\ TypeOK' /\ LoadsFinite /\ LoadsFinite' /\ OrderedInv /\ [Next]_vars
      => OrderedInv'
  BY StepOrdered
<1> QED BY <1>1, AlwaysFinite, InitOrdered, TypeCorrect, PTL DEF Spec

-----------------------------------------------------------------------------
(***************************************************************************)
(* What is common to the two ways of releasing, and the properties that    *)
(* follow.                                                                 *)
(***************************************************************************)
\* Whichever way items are released: a sequence is
\* used from when it is handed out until its release is recorded, and the gate
\* is within a ring of the claims and behind what is not released.
PoolFacts ==
    /\ sequence <= claimed /\ claimed - RingSize <= sequence
    /\ ProgressInv
    /\ \A s \in Seqs :
        /\ s <= sequence => s \in done
        /\ s \in done => HandedOut(s)
        /\ Used(s) <=> HandedOut(s) /\ s \notin done
        /\ s <= claimed /\ s \notin done => ItemOf(s).producerSequence = s

LEMMA AnyOrderFacts == TypeOK /\ SupplierInv => PoolFacts
<1> SUFFICES ASSUME TypeOK, SupplierInv PROVE PoolFacts
  OBVIOUS
<1>1. sequence <= claimed /\ claimed - RingSize <= sequence
  BY BoundAssumption DEF TypeOK, SupplierInv, GateInv
<1>2. ASSUME NEW s \in Seqs
      PROVE  /\ s <= sequence => s \in done
             /\ s \in done => HandedOut(s)
             /\ s <= claimed /\ s \notin done => ItemOf(s).producerSequence = s
  BY DEF SupplierInv, ReleasedInv, LifecycleInv, ItemInv
<1>3. ASSUME NEW s \in Seqs PROVE Used(s) <=> HandedOut(s) /\ s \notin done
  <2>1. Lifecycle(s) /\ users[s] \in Nat /\ freeing[s] \in Nat
    BY DEF SupplierInv, LifecycleInv, Lifecycle, TypeOK
  <2>2. NoneDecrementing(s)
    BY DEF SupplierInv, NoLoadsInv, NoneDecrementing
  <2> QED BY <2>1, <2>2 DEF Lifecycle, Used, Idle
<1> QED BY <1>1, <1>2, <1>3 DEF PoolFacts, SupplierInv

LEMMA OrderedFacts ==
  ASSUME TypeOK, LoadsFinite, OrderedInv
  PROVE  PoolFacts
<1>1. sequence <= claimed /\ claimed - RingSize <= sequence /\ ProgressInv
  BY InvParts DEF OrderedGate
<1>2. ASSUME NEW s \in Seqs
      PROVE  /\ s <= sequence => s \in done
             /\ s \in done => HandedOut(s)
             /\ s <= claimed /\ s \notin done => ItemOf(s).producerSequence = s
  BY InvParts DEF OrderedGate, TurnOK, CounterOK
<1>3. ASSUME NEW s \in Seqs PROVE Used(s) <=> HandedOut(s) /\ s \notin done
  <2>1. NoneDecrementing(s) <=> Loading(s) = {}
    BY DEF NoneDecrementing, Loading
  <2>2. Idle(s) <=> Owed(s) = 0 /\ freeing[s] = 0
    BY <2>1, OwedFacts DEF Idle
  <2>3. Owed(s) > 0 \/ freeing[s] > 0 => HandedOut(s) /\ s \notin done
    BY InHand
  <2>4. s \in done => Owed(s) = 0 /\ freeing[s] = 0
    BY InvParts DEF TurnOK
  <2>5. Owed(s) \in Nat /\ freeing[s] \in Nat
    BY OwedFacts
  <2> QED BY <2>2, <2>3, <2>4, <2>5 DEF Used
<1> QED BY <1>1, <1>2, <1>3 DEF PoolFacts

\* Items are released in any order, or in order.
LEMMA TwoWays == OrderedRelease = FALSE \/ OrderedRelease = TRUE
BY ModeAssumption

LEMMA AlwaysFacts ==
  ASSUME AddToSingleUser = FALSE
  PROVE  Spec => []PoolFacts
<1>1. ASSUME OrderedRelease = FALSE PROVE Spec => []PoolFacts
  BY <1>1, SupplierInvariant, AnyOrderFacts, TypeCorrect, PTL
<1>2. ASSUME OrderedRelease = TRUE PROVE Spec => []PoolFacts
  <2>1. TypeOK /\ LoadsFinite /\ OrderedInv => PoolFacts
    BY OrderedFacts
  <2> QED BY <1>2, <2>1, OrderedInvariant, AlwaysFinite, TypeCorrect, PTL
<1> QED BY <1>1, <1>2, TwoWays

LEMMA AlwaysForward ==
  ASSUME AddToSingleUser = FALSE
  PROVE  Spec => [][sequence' >= sequence]_vars
<1>1. ASSUME OrderedRelease = FALSE PROVE Spec => [][sequence' >= sequence]_vars
  <2>1. TypeOK /\ SupplierInv /\ [Next]_vars => sequence' >= sequence
    BY <1>1, StepInv
  <2> QED BY <1>1, <2>1, SupplierInvariant, TypeCorrect, PTL DEF Spec
<1>2. ASSUME OrderedRelease = TRUE PROVE Spec => [][sequence' >= sequence]_vars
  <2>1. /\ TypeOK /\ TypeOK' /\ LoadsFinite /\ LoadsFinite' /\ OrderedInv /\ [Next]_vars
        => sequence' >= sequence
    BY <1>2, StepOrdered
  <2> QED BY <1>2, <2>1, OrderedInvariant, AlwaysFinite, TypeCorrect, PTL DEF Spec
<1> QED BY <1>1, <1>2, TwoWays

\* No item is handed out again while anyone of its previous trip around the
\* ring may still read or write it (Supplier.h, mode 1 and mode 2).
THEOREM NoReuse ==
  ASSUME AddToSingleUser = FALSE
  PROVE  Spec => []NoReuseWhileInUse
<1>1. TypeOK /\ PoolFacts => NoReuseWhileInUse
  <2> SUFFICES ASSUME TypeOK, PoolFacts, NEW r \in Seqs, NEW s \in Seqs,
                      r < s, s <= claimed, Slot(r) = Slot(s), InUse(r)
               PROVE  FALSE
    BY DEF NoReuseWhileInUse
  <2>1. r \in Nat /\ s \in Nat /\ sequence \in Int /\ claimed \in Int
    BY BoundAssumption DEF TypeOK, Seqs
  <2>2. r \in done
    <3>1. CASE r > sequence
      <4>1. s - r < RingSize
        BY <2>1, <3>1, RingSizeAssumption DEF PoolFacts
      <4> QED BY <2>1, <4>1, SlotsDiffer
    <3> QED BY <2>1, <3>1 DEF PoolFacts
  <2>3. CASE users[r] > 0
    <3>1. Used(r)
      BY <2>1, <2>3 DEF Used, Idle
    <3> QED BY <2>2, <3>1 DEF PoolFacts
  <2>4. CASE r \in filling
    <3>1. ~HandedOut(r)
      BY <2>4, BoundAssumption DEF PoolFacts, ProgressInv, HandedOut, TypeOK, Seqs
    <3> QED BY <2>2, <3>1 DEF PoolFacts
  <2>5. CASE Pipeline /\ r >= nextConsumerSequence
    <3>1. ~HandedOut(r)
      BY <2>5, BoundAssumption DEF HandedOut, TypeOK, Seqs
    <3> QED BY <2>2, <3>1 DEF PoolFacts
  <2> QED BY <2>3, <2>4, <2>5 DEF InUse
<1> QED BY <1>1, TypeCorrect, AlwaysFacts, PTL

\* The gate never passes a sequence that is not wholly released: "higher
\* sequences are never released before lower".
THEOREM GatePrefix ==
  ASSUME AddToSingleUser = FALSE
  PROVE  Spec => []GateIsReleasedPrefix
<1>1. PoolFacts => GateIsReleasedPrefix
  BY DEF PoolFacts, GateIsReleasedPrefix, Used
<1> QED BY <1>1, AlwaysFacts, PTL

\* If no sequence is left, the gate is at the last one claimed: nothing is left in
\* between.
LEMMA AnyOrderFrees ==
  ASSUME OrderedRelease = FALSE, TypeOK, SupplierInv
  PROVE  AllReturnedFreesRing
<1> SUFFICES ASSUME sequence # claimed, \A s \in Seqs : s <= claimed => s \in done
             PROVE  FALSE
  BY DEF AllReturnedFreesRing
<1>1. /\ sequence \in Int /\ claimed \in Int /\ maxSequence \in Int
      /\ sequence >= -1 /\ claimed <= MaxSeq
      /\ sequence <= maxSequence /\ maxSequence <= claimed
      /\ sequence < maxSequence => maxSequence - sequence - 1 # between
  BY BoundAssumption DEF TypeOK, SupplierInv, GateInv
<1>2. claimed \in Seqs
  BY <1>1, BoundAssumption DEF Seqs
<1>3. claimed \in done
  BY <1>1, <1>2
<1>4. maxSequence = claimed
  BY <1>1, <1>3 DEF SupplierInv, ReleasedInv
<1>5. {s \in done : sequence < s /\ s < maxSequence} = sequence + 1 .. maxSequence - 1
  <2>1. ASSUME NEW s \in done
        PROVE  sequence < s /\ s < maxSequence <=> s \in sequence + 1 .. maxSequence - 1
    BY <1>1, BoundAssumption DEF TypeOK, Seqs
  <2>2. ASSUME NEW s \in sequence + 1 .. maxSequence - 1 PROVE s \in done
    BY <1>1, <1>4, BoundAssumption DEF Seqs
  <2> QED BY <2>1, <2>2
<1>6. sequence + 1 \in Int /\ maxSequence - 1 \in Int
  BY <1>1
<1>7. Cardinality(sequence + 1 .. maxSequence - 1) =
        IF sequence + 1 > maxSequence - 1 THEN 0
        ELSE (maxSequence - 1) - (sequence + 1) + 1
  BY <1>6, FS_Interval, Zenon
<1>8. between = Cardinality(sequence + 1 .. maxSequence - 1)
  BY <1>5 DEF SupplierInv, BetweenCounts
<1> QED BY <1>1, <1>4, <1>7, <1>8

LEMMA InOrderFrees ==
  ASSUME TypeOK, OrderedGate
  PROVE  AllReturnedFreesRing
<1> SUFFICES ASSUME sequence < claimed PROVE \E s \in Seqs : s <= claimed /\ s \notin done
  BY BoundAssumption DEF AllReturnedFreesRing, OrderedGate, TypeOK
<1>1. claimed \in Seqs /\ claimed <= claimed /\ claimed \notin done
  BY BoundAssumption DEF OrderedGate, TypeOK, Seqs
<1> QED BY <1>1

\* When every claimed sequence has been released, in whatever order, the
\* whole ring is free again: release() strands no capacity.
THEOREM RingIsFreed ==
  ASSUME AddToSingleUser = FALSE
  PROVE  Spec => []AllReturnedFreesRing
<1>1. ASSUME OrderedRelease = FALSE PROVE Spec => []AllReturnedFreesRing
  <2>1. TypeOK /\ SupplierInv => AllReturnedFreesRing
    BY <1>1, AnyOrderFrees
  <2> QED BY <1>1, <2>1, TypeCorrect, SupplierInvariant, PTL
<1>2. ASSUME OrderedRelease = TRUE PROVE Spec => []AllReturnedFreesRing
  <2>1. TypeOK /\ OrderedInv => AllReturnedFreesRing
    BY InOrderFrees, InvParts
  <2> QED BY <1>2, <2>1, TypeCorrect, OrderedInvariant, PTL
<1> QED BY <1>1, <1>2, TwoWays

\* The gate only moves forward.
THEOREM GateForward ==
  ASSUME AddToSingleUser = FALSE
  PROVE  Spec => GateMonotone
<1>1. [sequence' >= sequence]_vars => [sequence' >= sequence]_sequence
  BY DEF vars, bookkeeping
<1> QED BY <1>1, AlwaysForward, PTL DEF GateMonotone

-----------------------------------------------------------------------------
(***************************************************************************)
(* The pool of items (ItemPool).  At any time a slot holds at most one     *)
(* sequence that is claimed and not behind the gate; where that sequence   *)
(* is on its way says where the item is.                                   *)
(***************************************************************************)
\* A claimed sequence that the gate has not passed.
Live(s) == s <= claimed /\ s > sequence

\* Where a live sequence is on its way.
Phase(s) == IF s \in filling THEN "filling"
            ELSE IF Offered(s) THEN "offered"
            ELSE IF s \in done THEN "returned"
            ELSE "used"

\* What is not live is not in use, and nothing is said of it.
LEMMA OnlyLive ==
  ASSUME TypeOK, PoolFacts, NEW s \in Seqs, ~Live(s)
  PROVE  ~Filling(s) /\ ~Offered(s) /\ ~Used(s) /\ ~Returned(s)
<1> USE BoundAssumption
<1>1. /\ s \in Int /\ claimed \in Int /\ sequence \in Int /\ cursor \in Int
      /\ nextConsumerSequence \in Int
  BY DEF TypeOK, Seqs
<1>2. CASE s > claimed
  <2>1. ~HandedOut(s)
    BY <1>1, <1>2 DEF HandedOut
  <2>2. ~Used(s) /\ s \notin done
    BY <2>1 DEF PoolFacts
  <2> QED BY <1>1, <1>2, <2>2 DEF PoolFacts, ProgressInv, Filling, Offered, Returned
<1>3. CASE s <= sequence
  <2>1. s \in done
    BY <1>3 DEF PoolFacts
  <2>2. HandedOut(s) /\ ~Used(s)
    BY <2>1 DEF PoolFacts
  <2> QED BY <1>1, <1>3, <2>1, <2>2 DEF PoolFacts, ProgressInv, HandedOut,
             Filling, Offered, Returned
<1> QED BY <1>1, <1>2, <1>3 DEF Live

\* Two live sequences are in different slots.
LEMMA LiveApart ==
  ASSUME TypeOK, PoolFacts, NEW r \in Seqs, NEW s \in Seqs, Live(r), Live(s), r # s
  PROVE  Slot(r) # Slot(s)
<1>1. r \in Nat /\ s \in Nat /\ claimed \in Int /\ sequence \in Int /\ RingSize \in Nat
  BY BoundAssumption, RingSizeAssumption DEF TypeOK, Seqs
<1>2. claimed - RingSize <= sequence
  BY DEF PoolFacts
<1>3. r - s < RingSize /\ s - r < RingSize
  BY <1>1, <1>2 DEF Live
<1>4. CASE r < s
  BY <1>1, <1>3, <1>4, SlotsDiffer
<1>5. CASE s < r
  BY <1>1, <1>3, <1>5, SlotsDiffer
<1> QED BY <1>1, <1>4, <1>5

\* A slot without a live sequence is free.
LEMMA FreeSlot ==
  ASSUME TypeOK, PoolFacts, NEW i \in Slots,
         \A s \in Seqs : Live(s) => Slot(s) # i
  PROVE  State[i] = "free"
<1>1. \A s \in Seqs : Slot(s) = i =>
          ~Filling(s) /\ ~Offered(s) /\ ~Used(s) /\ ~Returned(s)
  BY OnlyLive
<1>2. StateOf(i) = "free"
  BY <1>1 DEF StateOf, SeqsOf
<1> QED BY <1>2 DEF State

\* A slot with a live sequence is where that sequence is.
LEMMA LiveSlot ==
  ASSUME TypeOK, PoolFacts, NEW s \in Seqs, Live(s)
  PROVE  State[Slot(s)] = Phase(s)
<1>1. Slot(s) \in Slots
  BY SlotType DEF Seqs
<1>2. \A r \in Seqs : Slot(r) = Slot(s) /\ r # s =>
          ~Filling(r) /\ ~Offered(r) /\ ~Used(r) /\ ~Returned(r)
  BY OnlyLive, LiveApart
<1>3. /\ (\E r \in SeqsOf(Slot(s)) : Filling(r)) <=> Filling(s)
      /\ (\E r \in SeqsOf(Slot(s)) : Offered(r)) <=> Offered(s)
      /\ (\E r \in SeqsOf(Slot(s)) : Used(r)) <=> Used(s)
      /\ (\E r \in SeqsOf(Slot(s)) : Returned(r)) <=> Returned(s)
  BY <1>2 DEF SeqsOf
<1>4. Returned(s) <=> s \in done
  BY DEF Returned, Live
<1>5. s \in done => ~Used(s)
  BY DEF PoolFacts
<1>6. ~Filling(s) /\ ~Offered(s) /\ s \notin done => Used(s)
  <2> SUFFICES ASSUME ~Filling(s), ~Offered(s), s \notin done PROVE Used(s)
    OBVIOUS
  <2>1. HandedOut(s)
    BY BoundAssumption DEF Filling, Offered, Live, HandedOut, PoolFacts,
       ProgressInv, TypeOK, Seqs
  <2> QED BY <2>1 DEF PoolFacts
<1>7. StateOf(Slot(s)) = Phase(s)
  BY <1>3, <1>4, <1>5, <1>6 DEF StateOf, Phase, Filling
<1> QED BY <1>1, <1>7 DEF State

\* How the live sequences say where the items are.
Located ==
    /\ \A i \in Slots : (\A s \in Seqs : Live(s) => Slot(s) # i) => State[i] = "free"
    /\ \A s \in Seqs : Live(s) => State[Slot(s)] = Phase(s)

LEMMA LocatedNow == TypeOK /\ PoolFacts => Located
BY FreeSlot, LiveSlot DEF Located

LEMMA LocatedNext == TypeOK' /\ PoolFacts' => Located'
BY LocatedNow, PTL

\* A step that changes neither the window of live sequences nor their phases
\* leaves the items where they are.
LEMMA NothingMoves ==
  ASSUME Located, Located',
         UNCHANGED <<claimed, sequence, cursor, nextConsumerSequence, filling, done>>
  PROVE  State' = State /\ Taken' = Taken /\ Line' = Line
<1>1. \A s \in Seqs : (Live(s)' <=> Live(s)) /\ Phase(s)' = Phase(s)
  BY DEF Live, Phase, Offered
<1>2. ASSUME NEW i \in Slots PROVE State'[i] = State[i]
  <2>1. CASE \E s \in Seqs : Live(s) /\ Slot(s) = i
    <3>1. PICK s \in Seqs : Live(s) /\ Slot(s) = i
      BY <2>1
    <3>2. Slot(s)' = i
      BY <3>1 DEF Slot
    <3> QED BY <1>1, <3>1, <3>2 DEF Located
  <2>2. CASE ~\E s \in Seqs : Live(s) /\ Slot(s) = i
    BY <1>1, <2>2 DEF Located, Slot
  <2> QED BY <2>1, <2>2
<1>3. State' = State
  BY <1>2 DEF State
<1>4. Line' = Line /\ Taken' = Taken
  BY DEF Line, Slot, Taken
<1> QED BY <1>3, <1>4

\* A line of items as a sequence.
LEMMA LineSeq ==
  ASSUME NEW x \in Nat, NEW n \in Nat
  PROVE  LET L == [k \in 1 .. n |-> Slot(x + k - 1)]
         IN  /\ L \in Seq(Slots)
             /\ Len(L) = n
             /\ \A k \in 1 .. n : L[k] = Slot(x + k - 1)
<1> DEFINE L == [k \in 1 .. n |-> Slot(x + k - 1)]
<1>1. ASSUME NEW k \in 1 .. n PROVE Slot(x + k - 1) \in Slots
  <2>1. x + k - 1 \in Nat
    OBVIOUS
  <2> QED BY <2>1, SlotType
<1>2. L \in [1 .. n -> Slots]
  BY <1>1
<1>3. L \in Seq(Slots) /\ Len(L) = n
  <2> HIDE DEF L
  <2> QED BY <1>2
<1>4. \A k \in 1 .. n : L[k] = Slot(x + k - 1)
  OBVIOUS
<1> QED BY <1>3, <1>4

\* The line between producer and consumer has a length.
LEMMA LineLength ==
  ASSUME TypeOK, PoolFacts, Pipeline
  PROVE  claimed + 1 - nextConsumerSequence \in Nat /\ nextConsumerSequence \in Nat
BY BoundAssumption DEF TypeOK, PoolFacts, ProgressInv

\* An item whose sequences stay where they are stays where it is.
LEMMA ItemStays ==
  ASSUME Located, Located', NEW i \in Slots,
         \A s \in Seqs : Slot(s) = i =>
             (Live(s)' <=> Live(s)) /\ (Live(s) => Phase(s)' = Phase(s))
  PROVE  State'[i] = State[i]
<1>1. \A s \in Seqs : Slot(s)' = Slot(s)
  BY DEF Slot
<1>2. CASE \E s \in Seqs : Live(s) /\ Slot(s) = i
  <2>1. PICK s \in Seqs : Live(s) /\ Slot(s) = i
    BY <1>2
  <2> QED BY <1>1, <2>1 DEF Located
<1>3. CASE ~\E s \in Seqs : Live(s) /\ Slot(s) = i
  BY <1>1, <1>3 DEF Located
<1> QED BY <1>2, <1>3

\* get(): the items were free, and are the producer's next in line.
LEMMA ClaimTakes ==
  ASSUME TypeOK, PoolFacts, TypeOK', PoolFacts', Located, Located',
         NEW n \in 1 .. MaxBatch, NEW Prepare(_, _), Claim(n, Prepare)
  PROVE  \E S \in SUBSET Slots : Pool!Take(S)
<1> DEFINE new == claimed + 1 .. claimed + n
           S   == {Slot(s) : s \in new}
           to  == IF Pipeline THEN "filling" ELSE "used"
<1>1. /\ claimed \in Int /\ claimed >= -1 /\ n \in Nat /\ n >= 1 /\ sequence \in Int
      /\ claimed' = claimed + n /\ claimed + n <= MaxSeq
      /\ claimed + n - RingSize <= sequence /\ sequence <= claimed
      /\ RingSize \in Nat /\ MaxSeq \in Nat
  BY BoundAssumption, RingSizeAssumption DEF TypeOK, Claim, RoomFor, PoolFacts
<1>2. new \subseteq Seqs
  BY <1>1 DEF Seqs
<1>3. UNCHANGED <<sequence, cursor, nextConsumerSequence, done>>
  BY DEF Claim, bookkeeping, consumer
<1>4. S \subseteq Slots
  <2>1. \A s \in new : s \in Nat
    BY <1>1
  <2> QED BY <2>1, SlotType
<1>5. \A i \in S : State[i] = "free"
  <2> SUFFICES ASSUME NEW s \in new, NEW r \in Seqs, Live(r) PROVE Slot(r) # Slot(s)
    BY <1>4 DEF Located
  <2>1. r \in Nat /\ s \in Nat /\ r < s /\ s - r < RingSize
    BY <1>1 DEF Live, Seqs
  <2> QED BY <2>1, SlotsDiffer
<1>6. \A i \in S : State'[i] = to
  <2> SUFFICES ASSUME NEW s \in new PROVE State'[Slot(s)] = to
    OBVIOUS
  <2>1. s \in Seqs /\ Live(s)' /\ Slot(s)' = Slot(s)
    BY <1>1, <1>2, <1>3 DEF Live, Slot
  <2>2. State'[Slot(s)] = Phase(s)'
    BY <2>1 DEF Located
  <2>3. s \notin done'
    <3>1. s \in done => s <= claimed
      BY <2>1 DEF PoolFacts, HandedOut
    <3> QED BY <1>1, <1>3, <3>1
  <2>4. CASE Pipeline
    <3>1. s \in filling'
      BY <2>4 DEF Claim
    <3> QED BY <2>2, <2>4, <3>1 DEF Phase
  <2>5. CASE ~Pipeline
    <3>1. s \notin filling' /\ ~Offered(s)'
      BY <2>5 DEF PoolFacts, ProgressInv, Offered
    <3> QED BY <2>2, <2>3, <2>5, <3>1 DEF Phase
  <2> QED BY <2>4, <2>5
<1>7. \A i \in Slots \ S : State'[i] = State[i]
  <2> SUFFICES ASSUME NEW i \in Slots, i \notin S PROVE State'[i] = State[i]
    OBVIOUS
  <2>1. ASSUME NEW s \in Seqs, Slot(s) = i
        PROVE  (Live(s)' <=> Live(s)) /\ (Live(s) => Phase(s)' = Phase(s))
    <3>1. s \notin new
      BY <2>1
    <3>2. s \in Int
      BY <1>1 DEF Seqs
    <3>3. Live(s)' <=> Live(s)
      BY <1>1, <1>3, <3>1, <3>2 DEF Live
    <3>4. s \in filling' <=> s \in filling
      BY <3>1 DEF Claim
    <3>5. Offered(s)' <=> Offered(s)
      BY <1>3 DEF Offered
    <3> QED BY <1>3, <3>3, <3>4, <3>5 DEF Phase
  <2> QED BY <2>1, ItemStays
<1>8. State' = [i \in Slots |-> IF i \in S THEN to ELSE State[i]]
  <2> HIDE DEF S, to
  <2> QED BY <1>4, <1>6, <1>7 DEF State
<1>9. Pool!Move(S, "free", to)
  <2> HIDE DEF S, to
  <2> QED BY <1>5, <1>8 DEF Pool!Move
<1>10. IF Pipeline
       THEN /\ Len(Line) <= Len(Line')
            /\ \A k \in 1 .. Len(Line) : Line'[k] = Line[k]
            /\ S = {Line'[k] : k \in Len(Line) + 1 .. Len(Line')}
       ELSE Line' = Line
  <2>1. CASE ~Pipeline
    BY <2>1 DEF Line
  <2>2. CASE Pipeline
    <3> DEFINE x == nextConsumerSequence
               m == claimed + 1 - x
    <3>1. x \in Nat /\ m \in Nat /\ m + n \in Nat
      BY <1>1, <2>2, LineLength
    <3>2. Line = [k \in 1 .. m |-> Slot(x + k - 1)]
      BY <2>2 DEF Line
    <3>3. Line' = [k \in 1 .. m + n |-> Slot(x + k - 1)]
      <4>1. claimed' + 1 - nextConsumerSequence' = m + n
        BY <1>1, <1>3, <3>1
      <4> QED BY <1>3, <2>2, <4>1 DEF Line, Slot
    <3>4. Len(Line) = m /\ \A k \in 1 .. m : Line[k] = Slot(x + k - 1)
      <4> HIDE DEF x, m
      <4> QED BY <3>1, <3>2, LineSeq
    <3>5. Len(Line') = m + n /\ \A k \in 1 .. m + n : Line'[k] = Slot(x + k - 1)
      <4> HIDE DEF x, m
      <4> QED BY <3>1, <3>3, LineSeq
    <3>6. \A k \in m + 1 .. m + n : Line'[k] = Slot(x + k - 1) /\ x + k - 1 \in new
      BY <1>1, <3>1, <3>5
    <3>7. \A s \in new : s - x + 1 \in m + 1 .. m + n /\ x + (s - x + 1) - 1 = s
      BY <1>1, <3>1
    <3>8. S = {Line'[k] : k \in m + 1 .. m + n}
      <4> HIDE DEF x, m, new
      <4>1. ASSUME NEW k \in m + 1 .. m + n PROVE Line'[k] \in S
        BY <3>6
      <4>2. ASSUME NEW i \in S PROVE \E k \in m + 1 .. m + n : Line'[k] = i
        <5>1. PICK s \in new : i = Slot(s)
          OBVIOUS
        <5> QED BY <3>6, <3>7, <5>1
      <4> QED BY <4>1, <4>2
    <3>9. Len(Line) <= Len(Line')
      BY <1>1, <3>1, <3>4, <3>5
    <3>10. \A k \in 1 .. Len(Line) : Line'[k] = Line[k]
      BY <1>1, <3>1, <3>4, <3>5
    <3>11. S = {Line'[k] : k \in Len(Line) + 1 .. Len(Line')}
      <4> HIDE DEF S, m, x
      <4> QED BY <3>4, <3>5, <3>8
    <3> QED BY <2>2, <3>9, <3>10, <3>11
  <2> QED BY <2>1, <2>2
<1>11. Taken' = Taken + Cardinality(S)
  <2>1. IsFiniteSet(new) /\ Cardinality(new) = n
    <3>1. claimed + 1 \in Int /\ claimed + n \in Int
      BY <1>1
    <3>2. (claimed + n) - (claimed + 1) + 1 = n /\ claimed + 1 <= claimed + n
      BY <1>1
    <3> QED BY <3>1, <3>2, FS_Interval
  <2>2. S \in SUBSET Slots /\ \A s, r \in new : Slot(s) = Slot(r) => s = r
    <3> SUFFICES ASSUME NEW s \in new, NEW r \in new, s < r PROVE Slot(s) # Slot(r)
      BY <1>1, <1>4
    <3>1. s \in Nat /\ r \in Nat /\ r - s < RingSize
      BY <1>1
    <3> QED BY <3>1, SlotsDiffer
  <2>3. Cardinality(S) = n
    <3> DEFINE f == [s \in new |-> Slot(s)]
    <3>1. f \in Bijection(new, S)
      <4> HIDE DEF new
      <4>1. f \in [new -> S]
        OBVIOUS
      <4>2. \A s, r \in new : f[s] = f[r] => s = r
        BY <2>2
      <4>3. \A i \in S : \E s \in new : f[s] = i
        OBVIOUS
      <4> QED BY <4>1, <4>2, <4>3 DEF Bijection, Injection, Surjection, IsInjective
    <3> HIDE DEF new, S, f
    <3>2. ExistsBijection(new, S)
      BY <3>1 DEF ExistsBijection
    <3> QED BY <2>1, <3>2, FS_Bijection
  <2> HIDE DEF S
  <2> QED BY <1>1, <2>3 DEF Taken
<1>12. Pool!Cardinality(S) = Cardinality(S)
  <2> HIDE DEF S
  <2> QED BY DEF Pool!Cardinality, Cardinality
<1> QED BY <1>4, <1>9, <1>10, <1>11, <1>12 DEF Pool!Take

\* publish(): what the producer was filling is offered, nothing else.
LEMMA PublishOffers ==
  ASSUME TypeOK, PoolFacts, PoolFacts', Located, Located',
         NEW lo \in Seqs, NEW hi \in Seqs, lo <= hi,
         \/ lo = hi /\ Publish(hi)
         \/ PublishBatch(lo, hi)
  PROVE  \E S \in SUBSET Slots : Pool!Offer(S)
<1> DEFINE S == {Slot(s) : s \in lo .. hi}
<1>1. /\ lo .. hi \subseteq filling
      /\ \A r \in filling : lo <= r
      /\ cursor' = ItemOf(hi).producerSequence
      /\ filling' = filling \ (lo .. hi)
      /\ UNCHANGED <<claimed, sequence, nextConsumerSequence, done>>
  <2>1. lo = hi => lo .. hi = {hi}
    BY DEF Seqs
  <2> QED BY <2>1 DEF Publish, PublishBatch, bookkeeping, consumer
<1>2. /\ lo \in Int /\ hi \in Int /\ claimed \in Int /\ cursor \in Int
      /\ sequence \in Int /\ nextConsumerSequence \in Int
  BY BoundAssumption DEF TypeOK, Seqs
<1>3. /\ Pipeline
      /\ filling = {s \in Seqs : cursor < s /\ s <= claimed}
      /\ nextConsumerSequence <= cursor + 1
  <2>1. hi \in lo .. hi
    BY <1>2
  <2>2. filling # {}
    BY <1>1, <2>1
  <2> QED BY <2>2 DEF PoolFacts, ProgressInv
<1>4. ASSUME NEW s \in lo .. hi
      PROVE  s \in Seqs /\ s \in Nat /\ cursor < s /\ s <= claimed /\ s \notin done /\ Live(s)
  <2>1. s \in Seqs /\ cursor < s /\ s <= claimed /\ s \in Int /\ s \in Nat
    BY <1>1, <1>3 DEF Seqs
  <2>2. ~HandedOut(s)
    BY <1>2, <1>3, <2>1 DEF HandedOut
  <2>3. s \notin done
    BY <2>1, <2>2 DEF PoolFacts
  <2>4. s > sequence
    BY <1>2, <2>1, <2>3 DEF PoolFacts
  <2> QED BY <2>1, <2>3, <2>4 DEF Live
<1>5. cursor' = hi
  <2>1. hi \in lo .. hi
    BY <1>2
  <2> QED BY <1>1, <1>4, <2>1 DEF PoolFacts
<1>6. S \subseteq Slots
  BY <1>4, SlotType
<1>7. ASSUME NEW s \in lo .. hi
      PROVE  State[Slot(s)] = "filling" /\ State'[Slot(s)] = "offered"
  <2>1. Phase(s) = "filling"
    BY <1>1 DEF Phase
  <2>2. s \notin filling' /\ Offered(s)'
    BY <1>1, <1>2, <1>3, <1>4, <1>5 DEF Offered
  <2>3. Phase(s)' = "offered" /\ Live(s)' /\ Slot(s)' = Slot(s)
    BY <1>1, <1>4, <2>2 DEF Phase, Live, Slot
  <2> QED BY <1>4, <2>1, <2>3 DEF Located
<1>8. ASSUME NEW i \in Slots, i \notin S PROVE State'[i] = State[i]
  <2>1. ASSUME NEW s \in Seqs, Slot(s) = i
        PROVE  (Live(s)' <=> Live(s)) /\ (Live(s) => Phase(s)' = Phase(s))
    <3>1. s \notin lo .. hi /\ s \in Int
      BY <1>8, <2>1 DEF Seqs
    <3>2. Live(s)' <=> Live(s)
      BY <1>1 DEF Live
    <3>3. s \in filling' <=> s \in filling
      BY <1>1, <3>1
    <3>4. Live(s) => (Offered(s)' <=> Offered(s))
      <4> SUFFICES ASSUME Live(s) PROVE s <= hi <=> s <= cursor
        BY <1>1, <1>5 DEF Offered
      <4>1. s > cursor => s \in filling
        BY <1>2, <1>3, <3>1 DEF Live
      <4>2. s > cursor => lo <= s
        BY <1>1, <4>1
      <4>3. cursor < hi
        <5>1. hi \in lo .. hi
          BY <1>2
        <5> QED BY <1>4, <5>1
      <4> QED BY <1>2, <3>1, <4>2, <4>3
    <3> QED BY <1>1, <3>2, <3>3, <3>4 DEF Phase
  <2> QED BY <2>1, ItemStays
<1>9. State' = [i \in Slots |-> IF i \in S THEN "offered" ELSE State[i]]
  <2>1. \A i \in S : State'[i] = "offered"
    BY <1>7
  <2> HIDE DEF S
  <2> QED BY <1>6, <1>8, <2>1 DEF State
<1>10. \A i \in S : State[i] = "filling"
  BY <1>7
<1>11. Line' = Line /\ Taken' = Taken
  BY <1>1 DEF Line, Slot, Taken
<1> HIDE DEF S
<1> QED BY <1>6, <1>9, <1>10, <1>11 DEF Pool!Offer, Pool!Move

\* consumerGet(): the first in line, which is offered, is used.
LEMMA ConsumerReceives ==
  ASSUME TypeOK, PoolFacts, PoolFacts', Located, Located', ConsumerGet
  PROVE  Pool!Receive
<1> DEFINE x == nextConsumerSequence
           m == claimed + 1 - x
<1>1. /\ Pipeline
      /\ nextConsumerSequence' = x + 1
      /\ UNCHANGED <<claimed, cursor, sequence, filling, done>>
  BY DEF ConsumerGet, bookkeeping
<1>2. /\ claimed \in Int /\ cursor \in Int /\ sequence \in Int /\ x \in Nat
      /\ x <= cursor /\ cursor <= claimed
      /\ x \in Seqs
  BY <1>1, BoundAssumption DEF ConsumerGet, Published, TypeOK, PoolFacts, ProgressInv, Seqs
<1>3. x \notin done /\ x \notin filling /\ Live(x)
  <2>1. ~HandedOut(x)
    BY <1>1, <1>2 DEF HandedOut
  <2>2. x \notin done
    BY <1>2, <2>1 DEF PoolFacts
  <2>3. x > sequence
    BY <1>2, <2>2 DEF PoolFacts
  <2>4. x \notin filling
    BY <1>1, <1>2 DEF PoolFacts, ProgressInv
  <2> QED BY <1>2, <2>2, <2>3, <2>4 DEF Live
<1>4. Slot(x) \in Slots /\ State[Slot(x)] = "offered"
  <2>1. Phase(x) = "offered"
    BY <1>1, <1>2, <1>3 DEF Phase, Offered
  <2> QED BY <1>2, <1>3, <2>1, SlotType DEF Located
<1>5. State'[Slot(x)] = "used"
  <2> SUFFICES ASSUME NEW s \in Seqs, s = x PROVE State'[Slot(s)] = "used"
    BY <1>2
  <2>1. ~Offered(s)' /\ s \notin filling' /\ s \notin done'
    BY <1>1, <1>2, <1>3 DEF Offered
  <2>2. Live(s)' /\ Slot(s)' = Slot(s) /\ Phase(s)' = "used"
    BY <1>1, <1>3, <2>1 DEF Live, Slot, Phase
  <2> QED BY <2>2 DEF Located
<1>6. ASSUME NEW i \in Slots, i # Slot(x) PROVE State'[i] = State[i]
  <2>1. ASSUME NEW s \in Seqs, Slot(s) = i
        PROVE  (Live(s)' <=> Live(s)) /\ (Live(s) => Phase(s)' = Phase(s))
    <3>1. s # x /\ s \in Int
      BY <1>6, <2>1 DEF Seqs
    <3>2. Offered(s)' <=> Offered(s)
      BY <1>1, <1>2, <3>1 DEF Offered
    <3> QED BY <1>1, <3>2 DEF Live, Phase
  <2> QED BY <2>1, ItemStays
<1>7. State' = [i \in Slots |-> IF i \in {Slot(x)} THEN "used" ELSE State[i]]
  BY <1>4, <1>5, <1>6 DEF State
<1>8. m \in Nat /\ m >= 1 /\ m - 1 \in Nat /\ x + 1 \in Nat
  BY <1>2
<1>9. /\ Line \in Seq(Slots) /\ Len(Line) = m
      /\ \A k \in 1 .. m : Line[k] = Slot(x + k - 1)
  <2>1. Line = [k \in 1 .. m |-> Slot(x + k - 1)]
    BY <1>1 DEF Line
  <2> HIDE DEF x, m
  <2> QED BY <1>2, <1>8, <2>1, LineSeq
<1>10. Line' = [k \in 1 .. m - 1 |-> Slot(x + 1 + k - 1)]
  <2>1. claimed' + 1 - nextConsumerSequence' = m - 1
    BY <1>1, <1>2
  <2> QED BY <1>1, <2>1 DEF Line, Slot
<1>11. /\ Line' \in Seq(Slots) /\ Len(Line') = m - 1
       /\ \A k \in 1 .. m - 1 : Line'[k] = Slot(x + 1 + k - 1)
  <2> HIDE DEF x, m
  <2> QED BY <1>8, <1>10, LineSeq
<1>12. Line # <<>> /\ Head(Line) = Slot(x)
  <2>1. Line[1] = Slot(x)
    <3>1. x + 1 - 1 = x /\ 1 \in 1 .. m
      BY <1>2, <1>8
    <3> QED BY <1>9, <3>1
  <2> QED BY <1>8, <1>9, <2>1
<1>13. Line' = Tail(Line)
  <2>1. Tail(Line) \in Seq(Slots) /\ Len(Tail(Line)) = m - 1
        /\ \A k \in 1 .. m - 1 : Tail(Line)[k] = Line[k + 1]
    <3> HIDE DEF x, m
    <3> QED BY <1>8, <1>9, <1>12, HeadTailProperties
  <2>2. ASSUME NEW k \in 1 .. m - 1 PROVE Tail(Line)[k] = Line'[k]
    <3>1. k + 1 \in 1 .. m /\ x + (k + 1) - 1 = x + 1 + k - 1
      BY <1>2, <1>8
    <3> QED BY <1>9, <1>11, <2>1, <3>1
  <2> HIDE DEF x, m
  <2> QED BY <1>11, <2>1, <2>2, SeqEqual
<1>14. Taken' = Taken
  BY <1>1 DEF Taken
<1> QED BY <1>4, <1>7, <1>12, <1>13, <1>14 DEF Pool!Receive, Pool!Move

\* release() under the mutex: the item is returned, and what the gate passes,
\* all of it returned, is free.
LEMMA RecordReturns ==
  ASSUME TypeOK, PoolFacts, TypeOK', PoolFacts', Located, Located',
         NEW seq \in Seqs, RecordRelease(seq), sequence' >= sequence
  PROVE  \E i \in Slots, S \in SUBSET Slots : Pool!Return(i, S)
<1> DEFINE passed == {s \in Seqs : sequence < s /\ s <= sequence'}
           S == {Slot(s) : s \in passed}
<1>1. /\ freeing[seq] > 0
      /\ done' = done \cup {seq}
      /\ UNCHANGED <<claimed, cursor, nextConsumerSequence, filling>>
  BY DEF RecordRelease, consumer
<1>2. /\ claimed \in Int /\ cursor \in Int /\ sequence \in Int /\ sequence' \in Int
      /\ nextConsumerSequence \in Int
      /\ sequence' >= sequence /\ sequence' <= claimed
  <2>1. sequence' <= claimed'
    BY DEF PoolFacts
  <2> QED BY <1>1, <2>1, BoundAssumption DEF TypeOK
<1>3. \A s \in Seqs : s \in Nat /\ s \in Int /\ Slot(s) \in Slots
  BY SlotType DEF Seqs
<1>4. ASSUME NEW s \in Seqs, HandedOut(s)
      PROVE  s \notin filling /\ ~Offered(s)
  <2>1. CASE Pipeline
    <3>1. s < nextConsumerSequence /\ nextConsumerSequence <= cursor + 1
      BY <1>4, <2>1 DEF HandedOut, PoolFacts, ProgressInv
    <3> QED BY <1>2, <1>3, <2>1, <3>1 DEF Offered, PoolFacts, ProgressInv
  <2>2. CASE ~Pipeline
    BY <2>2 DEF Offered, PoolFacts, ProgressInv
  <2> QED BY <2>1, <2>2
<1>5. \A s \in done : s \in Seqs /\ HandedOut(s)
  BY DEF TypeOK, PoolFacts
<1>6. HandedOut(seq) /\ seq \notin done /\ Live(seq)
  <2>1. HandedOut(seq) /\ seq \notin done
    BY <1>1 DEF PoolFacts, Used, Idle
  <2>2. seq > sequence
    BY <1>2, <1>3, <2>1 DEF PoolFacts
  <2> QED BY <2>1, <2>2 DEF HandedOut, Live
<1>7. \A s \in Seqs : Offered(s)' <=> Offered(s)
  BY <1>1 DEF Offered
<1>8. State[Slot(seq)] = "used"
  <2>1. Phase(seq) = "used"
    BY <1>4, <1>6 DEF Phase
  <2> QED BY <1>6, <2>1 DEF Located
<1>9. ASSUME NEW s \in passed
      PROVE  s \in Seqs /\ Live(s) /\ s \in done'
  BY <1>2, <1>3 DEF Live, PoolFacts
<1>10. S \subseteq Slots
  BY <1>3
<1>11. ASSUME NEW s \in passed
       PROVE  Slot(s) = Slot(seq) \/ State[Slot(s)] = "returned"
  <2>1. CASE s = seq
    BY <2>1
  <2>2. CASE s # seq
    <3>1. s \in done
      BY <1>1, <1>9, <2>2
    <3>2. Phase(s) = "returned"
      BY <1>4, <1>5, <3>1 DEF Phase
    <3> QED BY <1>9, <3>2 DEF Located
  <2> QED BY <2>1, <2>2
<1>12. ASSUME NEW s \in passed PROVE State'[Slot(s)] = "free"
  <2>1. ASSUME NEW r \in Seqs, Live(r)' PROVE Slot(r)' # Slot(s)
    <3>1. Live(r) /\ r # s
      BY <1>1, <1>2, <1>3, <2>1 DEF Live
    <3> QED BY <1>9, <3>1, LiveApart DEF Slot
  <2> QED BY <1>3, <1>9, <2>1 DEF Located
<1>13. ASSUME Slot(seq) \notin S PROVE State'[Slot(seq)] = "returned"
  <2>1. seq \notin passed
    BY <1>13
  <2>2. Live(seq)'
    BY <1>1, <1>2, <1>3, <1>6, <2>1 DEF Live
  <2>3. Phase(seq)' = "returned" /\ Slot(seq)' = Slot(seq)
    BY <1>1, <1>4, <1>6, <1>7 DEF Phase, Slot
  <2> QED BY <2>2, <2>3 DEF Located
<1>14. ASSUME NEW j \in Slots, j \notin S, j # Slot(seq) PROVE State'[j] = State[j]
  <2>1. ASSUME NEW s \in Seqs, Slot(s) = j
        PROVE  (Live(s)' <=> Live(s)) /\ (Live(s) => Phase(s)' = Phase(s))
    <3>1. s # seq /\ s \notin passed
      BY <1>14, <2>1
    <3>2. Live(s)' <=> Live(s)
      BY <1>1, <1>2, <1>3, <3>1 DEF Live
    <3> QED BY <1>1, <1>7, <3>1, <3>2 DEF Phase
  <2> QED BY <2>1, ItemStays
<1>15. State' = [j \in Slots |-> IF j \in S THEN "free"
                                 ELSE IF j = Slot(seq) THEN "returned" ELSE State[j]]
  <2>1. \A j \in S : State'[j] = "free"
    BY <1>12
  <2> HIDE DEF S
  <2> QED BY <1>3, <1>10, <1>13, <1>14, <2>1 DEF State
<1>16. \A j \in S : j = Slot(seq) \/ State[j] = "returned"
  BY <1>11
<1>17. Line' = Line /\ Taken' = Taken
  BY <1>1 DEF Line, Slot, Taken
<1> HIDE DEF S
<1> QED BY <1>3, <1>8, <1>10, <1>15, <1>16, <1>17 DEF Pool!Return

\* An unused supply is an unused pool.
LEMMA InitIsPoolInit ==
  ASSUME Init, Located
  PROVE  Pool!Init
<1>1. \A s \in Seqs : ~Live(s)
  BY DEF Init, Live, Seqs
<1>2. State = [i \in Slots |-> "free"]
  <2>1. \A i \in Slots : State[i] = "free"
    BY <1>1 DEF Located
  <2> QED BY <2>1 DEF State
<1>3. Line = <<>>
  <2>1. claimed + 1 - nextConsumerSequence = 0
    BY DEF Init
  <2>2. 1 .. 0 = {}
    OBVIOUS
  <2> QED BY <2>1, <2>2 DEF Line
<1>4. Taken = 0
  BY DEF Init, Taken
<1> QED BY <1>2, <1>3, <1>4 DEF Pool!Init

\* Every step of the supply is a step of the pool, or leaves it as it is.
LEMMA StepIsPoolStep ==
  ASSUME TypeOK, PoolFacts, TypeOK', PoolFacts', Located, Located',
         sequence' >= sequence, [Next]_vars
  PROVE  [Pool!Next]_<<State, Taken, Line>>
<1>1. CASE \E n \in 1 .. MaxBatch : Get(n) \/ GetAsIs(n)
  <2>1. PICK n \in 1 .. MaxBatch : Get(n) \/ GetAsIs(n)
    BY <1>1
  <2>2. CASE Get(n)
    BY <2>2, ClaimTakes DEF Get, Pool!Next
  <2>3. CASE GetAsIs(n)
    BY <2>3, ClaimTakes DEF GetAsIs, Pool!Next
  <2> QED BY <2>1, <2>2, <2>3
<1>2. CASE \E s \in Seqs : Publish(s)
  <2>1. PICK s \in Seqs : Publish(s)
    BY <1>2
  <2>2. s <= s
    BY DEF Seqs
  <2> QED BY <2>1, <2>2, PublishOffers DEF Pool!Next
<1>3. CASE \E lo, hi \in Seqs : PublishBatch(lo, hi)
  <2>1. PICK lo, hi \in Seqs : PublishBatch(lo, hi)
    BY <1>3
  <2>2. lo <= hi
    BY <2>1 DEF PublishBatch, Seqs
  <2> QED BY <2>1, <2>2, PublishOffers DEF Pool!Next
<1>4. CASE ConsumerGet
  BY <1>4, ConsumerReceives DEF Pool!Next
<1>5. CASE \E s \in Seqs : RecordRelease(s)
  BY <1>5, RecordReturns DEF Pool!Next
<1>6. CASE UNCHANGED <<claimed, sequence, cursor, nextConsumerSequence, filling, done>>
  BY <1>6, NothingMoves
<1>7. CASE \E s \in Seqs, n \in 1 .. MaxUsers : SetUsers(s, n) \/ AddUsers(s, n)
  BY <1>6, <1>7 DEF SetUsers, AddUsers, bookkeeping, consumer
<1>8. CASE \E s \in Seqs : Release(s)
  BY <1>6, <1>8 DEF Release, bookkeeping, consumer
<1>9. CASE ErrorAlert \/ Finished \/ UNCHANGED vars
  BY <1>6, <1>9 DEF ErrorAlert, Finished, vars, bookkeeping, consumer
<1>10. CASE \E t \in Threads : ReleaseStore(t) \/ \E s \in Seqs : ReleaseLoad(t, s)
  BY <1>6, <1>10 DEF ReleaseLoad, ReleaseStore, bookkeeping, consumer
<1> QED BY <1>1, <1>2, <1>3, <1>4, <1>5, <1>7, <1>8, <1>9, <1>10 DEF Next

\* The supply of util/Supplier.h, with users that follow the setUsers() protocol,
\* keeps the promise of a pool of items, in both of its modes, released in order
\* or in any order, and for every size of the ring.
THEOREM SupplierIsPool ==
  ASSUME AddToSingleUser = FALSE
  PROVE  Spec => ImplementsPool
<1>1. Init /\ TypeOK /\ PoolFacts => Pool!Init
  BY LocatedNow, InitIsPoolInit
<1>2. /\ TypeOK /\ PoolFacts /\ TypeOK' /\ PoolFacts'
      /\ [sequence' >= sequence]_vars /\ [Next]_vars
      => [Pool!Next]_<<State, Taken, Line>>
  <2> SUFFICES ASSUME TypeOK, PoolFacts, TypeOK', PoolFacts',
                      [sequence' >= sequence]_vars, [Next]_vars
               PROVE  [Pool!Next]_<<State, Taken, Line>>
    OBVIOUS
  <2>1. sequence' >= sequence
    BY BoundAssumption DEF TypeOK, vars, bookkeeping
  <2> QED BY <2>1, LocatedNow, LocatedNext, StepIsPoolStep
<1> QED BY <1>1, <1>2, TypeCorrect, AlwaysFacts, AlwaysForward, PTL
    DEF Spec, ImplementsPool, Pool!Spec
=============================================================================
