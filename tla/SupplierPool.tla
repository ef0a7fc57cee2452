---------------------------- MODULE SupplierPool ----------------------------
(***************************************************************************)
(* util/Supplier.h implements a pool of items: the refinement mapping.     *)
(***************************************************************************)
EXTENDS Supplier, Sequences

\* The sequences of slot i.
SeqsOf(i) == {s \in Seqs : Slot(s) = i}

Filling(s)  == s \in filling
Offered(s)  == Pipeline /\ s <= cursor /\ s >= nextConsumerSequence
Used(s)     == ~Idle(s) \/ (HandedOut(s) /\ s \notin done)
Returned(s) == s \in done /\ s > sequence

\* Where the item in slot i is: a reference somebody has counts before a
\* release that was recorded.  An item that nobody has and whose release was
\* not recorded (its last decrement was overwritten) is lost to the pool: used.
StateOf(i) == IF \E s \in SeqsOf(i) : Filling(s) THEN "filling"
              ELSE IF \E s \in SeqsOf(i) : Offered(s) THEN "offered"
              ELSE IF \E s \in SeqsOf(i) : Used(s) THEN "used"
              ELSE IF \E s \in SeqsOf(i) : Returned(s) THEN "returned"
              ELSE "free"

State == [i \in Slots |-> StateOf(i)]

\* Every claimed sequence is an item handed out once more: a slot claimed while
\* somebody still has it shows here, though its item is "used" before and after.
Taken == claimed + 1

\* The items between the producer's get() and the consumer's.
Line == IF Pipeline
        THEN [k \in 1 .. claimed + 1 - nextConsumerSequence |->
                 Slot(nextConsumerSequence + k - 1)]
        ELSE <<>>

Pool == INSTANCE ItemPool WITH Items <- Slots,
                               state <- State,
                               taken <- Taken,
                               line <- Line

\* Supplier.h:32-55 promises a pool of items: get() hands out an item only if
\* everybody has given it back since the last time, consumerGet() hands on what
\* was published, once and in order, and release() frees an item when its last
\* user calls it, in whatever order that happens: every step of the supply is a
\* step of the pool or leaves the pool as it is.
ImplementsPool == Pool!Spec
=============================================================================
