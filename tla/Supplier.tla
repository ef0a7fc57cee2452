------------------------------ MODULE Supplier ------------------------------
(***************************************************************************)
(* The ring of reusable items of util/Supplier.h with the per-item user    *)
(* counting of util/SupplyItem.cpp.  A single producer claims items from a *)
(* Disruptor ring (external), in one of the two documented modes:          *)
(*   pool      get() ... release()                            (mode 1)     *)
(*   pipeline  get() ... publish(), consumerGet() ... release()  (mode 2)  *)
(* Any number of threads hold references to an item and release them in    *)
(* any order.  release() is two steps, the decrement of the item's counter *)
(* and the bookkeeping under supplyMutex; with orderedRelease the counter  *)
(* is a plain volatile int, so its decrement is a load and a store.        *)
(*                                                                         *)
(* Ring positions are the sequences 0, 1, 2, ...; sequence s lives in slot *)
(* s % RingSize.                                                           *)
(***************************************************************************)
EXTENDS Integers, FiniteSets

CONSTANTS
    RingSize,        \* ringSize argument of the constructor
    Pipeline,        \* TRUE: mode 2, FALSE: mode 1
    OrderedRelease,  \* orderedRelease argument of the constructor
    Threads,         \* threads that call release() when OrderedRelease
    AddToSingleUser, \* may addUsers() be called on an item with one user?
    CanAlert,        \* may errorAlert() be called?
    MaxBatch,        \* bound: items claimed by one get(n, items)
    MaxUsers,        \* bound: simultaneous users of one item, and its counter
    MaxSeq           \* bound: last sequence ever claimed

ASSUME RingSizeAssumption ==
    /\ RingSize \in Nat \ {0}
    /\ \E k \in 0 .. RingSize : RingSize = 2^k

ASSUME BoundAssumption ==
    /\ MaxSeq \in Nat
    /\ MaxBatch \in 1 .. RingSize
    /\ MaxUsers \in Nat \ {0}

ASSUME ModeAssumption ==
    /\ Pipeline \in BOOLEAN
    /\ OrderedRelease \in BOOLEAN
    /\ AddToSingleUser \in BOOLEAN
    /\ CanAlert \in BOOLEAN

VARIABLES
    items,      \* slot -> the fields of the SupplyItem stored there
    claimed,    \* last sequence claimed by the producer (Disruptor nextValue)
    cursor,     \* last published sequence (Disruptor cursor)
    sequence,   \* gating sequence: everything up to it may be reclaimed
    lastSequenceReleased, maxSequence, between,  \* release bookkeeping
    nextConsumerSequence, availableConsumerSequence,
    alerted,    \* the barrier has been alerted
    filling,    \* sequences the producer has claimed and not yet published
    users,      \* sequence -> references to it that are not yet given back
    loads,      \* thread -> the volatile counter it has read, or NoLoad
    freeing,    \* sequence -> threads about to record its release
    done        \* sequences whose release has been recorded

bookkeeping == <<sequence, lastSequenceReleased, maxSequence, between>>
consumer    == <<nextConsumerSequence, availableConsumerSequence, alerted>>
vars == <<items, claimed, cursor, bookkeeping, consumer,
          filling, users, loads, freeing, done>>

-----------------------------------------------------------------------------
Seqs  == 0 .. MaxSeq
Slots == 0 .. RingSize - 1

Slot(s) == s % RingSize

\* The item a thread that was given sequence s points at.
ItemOf(s) == items[Slot(s)]

SupplyItem == [producerSequence : Seqs,
               consumerSequence : Seqs,
               fromConsumerGet  : BOOLEAN,
               multipleUsers    : BOOLEAN,
               counter          : Int]

NewItem == [producerSequence |-> 0, consumerSequence |-> 0,
            fromConsumerGet |-> FALSE, multipleUsers |-> FALSE, counter |-> 0]

NoLoad == [busy |-> FALSE, seq |-> 0, slot |-> 0, count |-> 0]

Loads == [busy : BOOLEAN, seq : Seqs, slot : Slots, count : Int]

\* The sequence release() takes from the item.
ReleaseSeq(item) == IF item.fromConsumerGet THEN item.consumerSequence
                                            ELSE item.producerSequence

Init ==
    /\ items = [i \in Slots |-> NewItem]
    /\ claimed = -1
    /\ cursor = -1
    /\ sequence = -1
    /\ lastSequenceReleased = -1
    /\ maxSequence = -1
    /\ between = 0
    /\ nextConsumerSequence = 0
    /\ availableConsumerSequence = -1
    /\ alerted = FALSE
    /\ filling = {}
    /\ users = [s \in Seqs |-> 0]
    /\ loads = [t \in Threads |-> NoLoad]
    /\ freeing = [s \in Seqs |-> 0]
    /\ done = {}

-----------------------------------------------------------------------------
(* The producer.                                                           *)

\* Mutant of RoomFor: off by one at the gate.
RoomForOneMore(n) ==
    /\ claimed + n - RingSize <= sequence + 1
    /\ claimed + n <= MaxSeq

\* Disruptor's next(n): the ring has room for n more items behind the gate.
RoomFor(n) ==
    /\ claimed + n - RingSize <= sequence
    /\ claimed + n <= MaxSeq

\* The item a get() hands out for sequence s.
ResetItem(item, s) == [NewItem EXCEPT !.producerSequence = s]

\* The item a getAsIs() hands out: the user counting is left as it was.
AsIsItem(item, s) == [item EXCEPT !.fromConsumerGet = FALSE,
                                  !.producerSequence = s]

\* Claiming n items; in pool mode the caller is the one user of each.
Claim(n, Prepare(_, _)) ==
    LET new == claimed + 1 .. claimed + n
    IN  /\ RoomFor(n)
        /\ claimed' = claimed + n
        /\ items' = [i \in Slots |->
                        IF \E s \in new : Slot(s) = i
                        THEN Prepare(items[i], CHOOSE s \in new : Slot(s) = i)
                        ELSE items[i]]
        /\ filling' = IF Pipeline THEN filling \cup new ELSE filling
        /\ users' = IF Pipeline THEN users
                    ELSE [s \in Seqs |-> IF s \in new THEN 1 ELSE users[s]]
        /\ UNCHANGED <<cursor, bookkeeping, consumer, loads, freeing, done>>

\* get() and get(n, items).
Get(n) == Claim(n, ResetItem)

\* getAsIs() and getAsIs(n, items).
GetAsIs(n) == Claim(n, AsIsItem)

\* publish(item); the producer publishes in the order it claimed.
Publish(s) ==
    /\ s \in filling
    /\ \A r \in filling : s <= r
    /\ cursor' = ItemOf(s).producerSequence
    /\ filling' = filling \ {s}
    /\ UNCHANGED <<items, claimed, bookkeeping, consumer,
                   users, loads, freeing, done>>

\* publish(n, items): only the last item's sequence reaches the cursor.
PublishBatch(lo, hi) ==
    /\ lo < hi
    /\ lo .. hi \subseteq filling
    /\ \A r \in filling : lo <= r
    /\ cursor' = ItemOf(hi).producerSequence
    /\ filling' = filling \ (lo .. hi)
    /\ UNCHANGED <<items, claimed, bookkeeping, consumer,
                   users, loads, freeing, done>>

-----------------------------------------------------------------------------
(* The consumer.                                                           *)

\* Mutant of Published: the barrier follows claims instead of publishes.
ClaimedOnly(s) == s <= claimed

\* Disruptor's barrier->waitFor(s) returns.
Published(s) == s <= cursor

\* consumerGet(): waits on the barrier only when the cached availability is
\* used up; an alerted barrier makes it return without an item.
ConsumerGet ==
    LET next    == nextConsumerSequence
        waiting == availableConsumerSequence < next
    IN  /\ Pipeline
        /\ waiting => ~alerted /\ Published(next)
        /\ availableConsumerSequence' =
               IF waiting THEN cursor ELSE availableConsumerSequence
        /\ items' = [items EXCEPT ![Slot(next)] =
                        [@ EXCEPT !.consumerSequence = next,
                                  !.fromConsumerGet = TRUE]]
        /\ nextConsumerSequence' = next + 1
        /\ users' = [users EXCEPT ![next] = 1]
        /\ UNCHANGED <<claimed, cursor, bookkeeping, alerted, filling,
                       loads, freeing, done>>

\* errorAlert().
ErrorAlert ==
    /\ CanAlert /\ ~alerted
    /\ alerted' = TRUE
    /\ UNCHANGED <<items, claimed, cursor, bookkeeping, nextConsumerSequence,
                   availableConsumerSequence, filling, users, loads, freeing,
                   done>>

-----------------------------------------------------------------------------
(* The users of an item.                                                   *)

\* No thread is between the load and the store of the counter of s.
NoneDecrementing(s) == \A t \in Threads : ~(loads[t].busy /\ loads[t].seq = s)

\* setUsers(n), called by the only user before the item is shared.
SetUsers(s, n) ==
    /\ users[s] = 1
    /\ ~ItemOf(s).multipleUsers \/ ItemOf(s).counter < 1
    /\ NoneDecrementing(s)
    /\ n > 1
    /\ items' = [items EXCEPT ![Slot(s)] =
                    [@ EXCEPT !.multipleUsers = TRUE, !.counter = n]]
    /\ users' = [users EXCEPT ![s] = n]
    /\ UNCHANGED <<claimed, cursor, bookkeeping, consumer, filling,
                   loads, freeing, done>>

\* Mutant of CounterAfterAdd: the users there were are not counted.
CounterOfAdded(item, n) == IF item.multipleUsers THEN n ELSE n + 1

\* The counter addUsers(n) leaves in the item.
CounterAfterAdd(item, n) ==
    IF item.multipleUsers THEN item.counter + n ELSE n + 1

\* addUsers(n), called by a user that still holds the item; its comment warns
\* that with orderedRelease it must not overlap a release.
AddUsers(s, n) ==
    LET item == ItemOf(s)
    IN  /\ users[s] > 0
        /\ users[s] + n <= MaxUsers
        /\ CounterAfterAdd(item, n) <= MaxUsers
        /\ NoneDecrementing(s)
        /\ AddToSingleUser \/ (item.multipleUsers /\ item.counter > 0)
        /\ items' = [items EXCEPT ![Slot(s)].counter = CounterAfterAdd(item, n)]
        /\ users' = [users EXCEPT ![s] = @ + n]
        /\ UNCHANGED <<claimed, cursor, bookkeeping, consumer, filling,
                       loads, freeing, done>>

\* What the caller promises when the supply is built with orderedRelease.
OrderPromise(s) == \A r \in 0 .. s - 1 : r \in done

\* Mutant of NoUserLeft: off by one.
NoUserLeftBelowZero(item, count) == ~item.multipleUsers \/ count < 0

\* decrementCounter() says that no user is left.
NoUserLeft(item, count) == ~item.multipleUsers \/ count < 1

\* release(item) up to the mutex: the atomic decrement of the counter.
Release(s) ==
    LET item  == ItemOf(s)
        count == item.counter - 1
        seq   == ReleaseSeq(item)
    IN  /\ ~OrderedRelease
        /\ users[s] > 0
        /\ users' = [users EXCEPT ![s] = @ - 1]
        /\ items' = IF item.multipleUsers
                    THEN [items EXCEPT ![Slot(s)].counter = count] ELSE items
        /\ freeing' = IF NoUserLeft(item, count)
                      THEN [freeing EXCEPT ![seq] = @ + 1] ELSE freeing
        /\ UNCHANGED <<claimed, cursor, bookkeeping, consumer, filling,
                       loads, done>>

\* With orderedRelease: the load half of --volatileCounters.
ReleaseLoad(t, s) ==
    /\ OrderedRelease
    /\ ~loads[t].busy
    /\ users[s] > 0
    /\ OrderPromise(s)
    /\ users' = [users EXCEPT ![s] = @ - 1]
    /\ loads' = [loads EXCEPT ![t] =
                    [busy |-> TRUE, seq |-> ReleaseSeq(ItemOf(s)),
                     slot |-> Slot(s), count |-> ItemOf(s).counter]]
    /\ UNCHANGED <<items, claimed, cursor, bookkeeping, consumer, filling,
                   freeing, done>>

\* With orderedRelease: the store half of --volatileCounters.
ReleaseStore(t) ==
    LET load  == loads[t]
        item  == items[load.slot]
        count == load.count - 1
    IN  /\ load.busy
        /\ loads' = [loads EXCEPT ![t] = NoLoad]
        /\ items' = IF item.multipleUsers
                    THEN [items EXCEPT ![load.slot].counter = count] ELSE items
        /\ freeing' = IF NoUserLeft(item, count)
                      THEN [freeing EXCEPT ![load.seq] = @ + 1] ELSE freeing
        /\ UNCHANGED <<claimed, cursor, bookkeeping, consumer, filling,
                       users, done>>

\* Mutant of Counted: an old maximum is not counted when it is overtaken.
CountedBelowMax(seq) == seq <= maxSequence /\ seq > lastSequenceReleased

\* The release of seq adds a sequence between the last released and the
\* highest one released: seq itself, or the maximum it overtakes.
Counted(seq) ==
    \/ seq > maxSequence /\ maxSequence > lastSequenceReleased
    \/ seq <= maxSequence /\ seq > lastSequenceReleased

\* Mutant of GateMoves: off by one, a hole is overlooked.
GateMovesOverHole(newMax, count) == newMax - lastSequenceReleased - 2 <= count

\* Mutant of GateMoves: off by one the other way.
GateMovesLate(newMax, count) == newMax - lastSequenceReleased = count

\* Every sequence between the last released and newMax has been released.
GateMoves(newMax, count) == newMax - lastSequenceReleased - 1 = count

\* Mutant of ReleaseInAnyOrder: the gate follows every release.
ReleaseAtOnce(seq) ==
    /\ sequence' = seq
    /\ UNCHANGED <<lastSequenceReleased, maxSequence, between>>

\* release(item) under supplyMutex: the gate moves only when every sequence
\* up to the highest one released has been released.
ReleaseInAnyOrder(seq) ==
    LET newMax  == IF seq > maxSequence THEN seq ELSE maxSequence
        count   == IF Counted(seq) THEN between + 1 ELSE between
        moves   == GateMoves(newMax, count)
    IN  /\ maxSequence' = newMax
        /\ sequence' = IF moves THEN newMax ELSE sequence
        /\ lastSequenceReleased' = IF moves THEN newMax
                                            ELSE lastSequenceReleased
        /\ between' = IF moves THEN 0 ELSE count

\* release(item) after decrementCounter() has said that no user is left.
RecordRelease(seq) ==
    /\ freeing[seq] > 0
    /\ freeing' = [freeing EXCEPT ![seq] = @ - 1]
    /\ done' = done \cup {seq}
    /\ IF OrderedRelease
       THEN /\ sequence' = seq
            /\ UNCHANGED <<lastSequenceReleased, maxSequence, between>>
       ELSE ReleaseInAnyOrder(seq)
    /\ UNCHANGED <<items, claimed, cursor, consumer, filling, users, loads>>

-----------------------------------------------------------------------------
\* The end of a bounded history: everything has been claimed and freed, or
\* an alert has stopped the consumer.
Finished ==
    /\ alerted \/ (claimed = MaxSeq /\ sequence = MaxSeq)
    /\ UNCHANGED vars

Next ==
    \/ \E n \in 1 .. MaxBatch : Get(n) \/ GetAsIs(n)
    \/ \E s \in Seqs : Publish(s)
    \/ \E lo, hi \in Seqs : PublishBatch(lo, hi)
    \/ ConsumerGet
    \/ ErrorAlert
    \/ \E s \in Seqs, n \in 1 .. MaxUsers : SetUsers(s, n) \/ AddUsers(s, n)
    \/ \E s \in Seqs : Release(s)
    \/ \E t \in Threads, s \in Seqs : ReleaseLoad(t, s)
    \/ \E t \in Threads : ReleaseStore(t)
    \/ \E s \in Seqs : RecordRelease(s)
    \/ Finished

Spec == Init /\ [][Next]_vars

\* Every thread keeps running and every user of an item releases it.
\* (ConsumerGet is the consumer's loop, RecordRelease the mutex, which every
\* thread that waits for it gets.)
Fairness ==
    /\ WF_vars(\E n \in 1 .. MaxBatch : Get(n) \/ GetAsIs(n))
    /\ WF_vars(\E s \in Seqs : Publish(s))
    /\ WF_vars(ConsumerGet)
    /\ \A s \in Seqs : WF_vars(Release(s)) /\ WF_vars(RecordRelease(s))
    /\ \A t \in Threads : /\ WF_vars(\E s \in Seqs : ReleaseLoad(t, s))
                          /\ WF_vars(ReleaseStore(t))

\* An item does not gain new users for ever.
FinitelyManyUsers ==
    <>[][\A s \in Seqs, n \in 1 .. MaxUsers : ~AddUsers(s, n)]_vars

FairSpec == Spec /\ Fairness /\ FinitelyManyUsers

-----------------------------------------------------------------------------
\* Types of the variables of Supplier and its items: in particular no counter
\* of sequences runs ahead of what was claimed.
TypeOK ==
    /\ items \in [Slots -> SupplyItem]
    /\ claimed \in -1 .. MaxSeq
    /\ cursor \in -1 .. MaxSeq
    /\ sequence \in -1 .. MaxSeq
    /\ lastSequenceReleased \in -1 .. MaxSeq
    /\ maxSequence \in -1 .. MaxSeq
    /\ between \in Nat
    /\ nextConsumerSequence \in 0 .. MaxSeq + 1
    /\ availableConsumerSequence \in -1 .. MaxSeq
    /\ alerted \in BOOLEAN
    /\ filling \in SUBSET Seqs
    /\ users \in [Seqs -> Nat]
    /\ loads \in [Threads -> Loads]
    /\ freeing \in [Seqs -> Nat]
    /\ done \in SUBSET Seqs

\* No thread has a reference to s any more, nor is releasing one.
Idle(s) == /\ users[s] = 0
           /\ freeing[s] = 0
           /\ NoneDecrementing(s)

\* A claimed sequence somebody may still write or read.
InUse(s) == /\ s <= claimed
            /\ \/ s \in filling
               \/ users[s] > 0
               \/ Pipeline /\ s <= cursor /\ s >= nextConsumerSequence

\* Supplier.h: "the item is only released when all 5 users have called
\* release()".  An item handed out again has no user left from its previous
\* trip around the ring.
NoReuseWhileInUse ==
    \A r, s \in Seqs : r < s /\ s <= claimed /\ Slot(r) = Slot(s) => ~InUse(r)

\* Supplier.h: "higher sequences are never released before lower".  The gate
\* the producer waits on never passes a sequence that is not yet released.
GateIsReleasedPrefix ==
    \A s \in Seqs : s <= sequence => s \in done /\ Idle(s)

\* The number of released sequences between the gate and the highest one
\* released is what `between` says, so the gate can tell when to move.
BetweenCounts ==
    ~OrderedRelease =>
        between = Cardinality({s \in done : sequence < s /\ s < maxSequence})

\* When everything claimed has been released the whole ring is free again,
\* in whatever order the releases came.
AllReturnedFreesRing ==
    (\A s \in Seqs : s <= claimed => s \in done) => sequence = claimed

\* The gate never moves backward.
GateMonotone == [][sequence' >= sequence]_sequence

\* A claimed item comes back: with threads that keep running and users that
\* release, the gate passes every claimed sequence, unless an alert stops the
\* consumer.
EventuallyFreed == \A s \in Seqs : claimed >= s ~> sequence >= s \/ alerted

-----------------------------------------------------------------------------
(* The inductive invariant behind the safety properties, for a supply that *)
(* releases in any order and whose users follow the setUsers() protocol.   *)

\* Where the gate, the highest release and the claims stand to each other; the
\* gate is not left behind when it could move.
GateInv ==
    /\ lastSequenceReleased = sequence
    /\ sequence <= maxSequence
    /\ maxSequence <= claimed
    /\ claimed - RingSize <= sequence
    /\ sequence < maxSequence => maxSequence - sequence - 1 # between

\* Which sequences have been released.
ReleasedInv ==
    /\ \A s \in Seqs : s <= sequence => s \in done
    /\ \A s \in done : s <= maxSequence
    /\ maxSequence >= 0 => maxSequence \in done

\* How far the producer and the consumer have come.
ProgressInv ==
    /\ filling = IF Pipeline THEN {s \in Seqs : cursor < s /\ s <= claimed}
                             ELSE {}
    /\ Pipeline => /\ cursor <= claimed
                   /\ availableConsumerSequence <= cursor
                   /\ nextConsumerSequence <= cursor + 1

\* Sequence s has reached the threads that will release it.
HandedOut(s) == s <= claimed /\ (Pipeline => s < nextConsumerSequence)

\* A sequence is handed out, then has users, then one thread that frees it,
\* then is released: one at a time.
LifecycleInv ==
    \A s \in Seqs :
        /\ freeing[s] \in {0, 1}
        /\ users[s] > 0 \/ freeing[s] > 0 \/ s \in done => HandedOut(s)
        /\ s \in done => users[s] = 0 /\ freeing[s] = 0
        /\ freeing[s] > 0 => users[s] = 0
        /\ HandedOut(s) /\ s \notin done => users[s] > 0 \/ freeing[s] > 0

\* What the slot of a sequence that is not yet released says about it.
ItemInv ==
    \A s \in Seqs : s <= claimed /\ s \notin done =>
        /\ ItemOf(s).producerSequence = s
        /\ users[s] > 0 =>
              /\ ReleaseSeq(ItemOf(s)) = s
              /\ IF ItemOf(s).multipleUsers /\ ItemOf(s).counter > 0
                 THEN users[s] = ItemOf(s).counter
                 ELSE users[s] = 1

\* A slot nobody uses has a counter that is off or used up, so that getAsIs()
\* and consumerGet() start with one user.
SpentInv ==
    \A i \in Slots : (\A s \in Seqs : Slot(s) = i => users[s] = 0) =>
        ~items[i].multipleUsers \/ items[i].counter < 1

\* Without orderedRelease no counter is decremented in two steps.
NoLoadsInv == \A t \in Threads : ~loads[t].busy

\* A slot that is not released says of itself whose turn it is, counts its
\* users, and lies behind no gate: the strengthening that makes
\* NoReuseWhileInUse and GateIsReleasedPrefix inductive.
SupplierInv == /\ GateInv
               /\ NoLoadsInv
               /\ ReleasedInv
               /\ BetweenCounts
               /\ ProgressInv
               /\ LifecycleInv
               /\ ItemInv
               /\ SpentInv
=============================================================================
