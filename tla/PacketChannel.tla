---------------------------- MODULE PacketChannel ----------------------------
(***************************************************************************)
(* The UDP path (external) between senders and one receiving socket, as    *)
(* src/ uses it: it may lose packets and hand them over in another order.  *)
(* A packet carries the fields of the reassembly (RE) header: the source's *)
(* dataId, the tick, the offset of its data and the length of the whole    *)
(* event; and the number of data bytes in it.                              *)
(***************************************************************************)
EXTENDS Naturals, Sequences, SequencesExt

CONSTANTS
    Sources,       \* data ids
    Ticks,         \* ticks the sources send, in this order
    EventLength,   \* [Sources \X Ticks -> Nat], bytes of an event
    Reorder,       \* may packets overtake each other?
    CanLose,       \* may the network lose packets?
    MaxInFlight    \* bound: packets on the way

ASSUME ChannelAssumption ==
    /\ Ticks \subseteq Nat /\ Ticks # {}
    /\ EventLength \in [Sources \X Ticks -> Nat]
    /\ Reorder \in BOOLEAN
    /\ CanLose \in BOOLEAN
    /\ MaxInFlight \in Nat \ {0}

VARIABLE net       \* packets on the way, in the order they were sent

Packet(src, tick, offset, bytes) ==
    [src |-> src, tick |-> tick, offset |-> offset, bytes |-> bytes,
     length |-> EventLength[<<src, tick>>]]

\* May the i-th packet on the way be the next to arrive?
Deliverable(i) == Reorder \/ i = 1

Arrives(i) == net' = RemoveAt(net, i)
=============================================================================
