---------------------------- MODULE PacketStream ----------------------------
(***************************************************************************)
(* Senders (Packetize) and one receiver (Assemble) joined by a channel     *)
(* that may lose, reorder and duplicate packets.                           *)
(***************************************************************************)
EXTENDS Packetize, Assemble

CONSTANT MaxCopies   \* bound: packets the network may duplicate

ASSUME CopiesAssumption == MaxCopies \in Nat

VARIABLES
    copies,          \* packets duplicated so far
    delivered        \* history: the <<src, tick>> returned, in order

vars == <<net, sndVars, rcvVars, copies, delivered>>

Init == SendInit /\ ReceiveInit /\ copies = 0 /\ delivered = <<>>

\* External: the network loses a packet.
Lose(i) ==
    /\ CanLose
    /\ Arrives(i)
    /\ UNCHANGED <<sndVars, rcvVars, copies, delivered>>

\* External: the network delivers a packet twice.
Duplicate(i) ==
    /\ copies < MaxCopies
    /\ Len(net) < MaxInFlight
    /\ copies' = copies + 1
    /\ net' = InsertAt(net, i + 1, net[i])
    /\ UNCHANGED <<sndVars, rcvVars, delivered>>

Sending(src) ==
    /\ SendStep(src) \/ SendFails(src)
    /\ UNCHANGED <<rcvVars, copies, delivered>>

Receiving(i) ==
    /\ ReceiveStep(i)
    /\ UNCHANGED <<sndVars, copies, delivered>>

Returning ==
    /\ CallAgain
    /\ delivered' = IF result.status = "ok"
                    THEN Append(delivered, <<result.src, result.tick>>)
                    ELSE delivered
    /\ UNCHANGED <<sndVars, copies>>

Failing == ReceiveFails /\ UNCHANGED <<sndVars, copies, delivered>>

Opening == OpenSocket /\ UNCHANGED <<sndVars, copies, delivered>>

AllSent == \A src \in Sources : SourceDone(src)

\* Nothing more will arrive.
Finished ==
    /\ \/ broken # "no" \/ GivenUp
       \/ AllSent /\ net = <<>> /\ result = Running
       \/ rcv.socket = "deaf"
    /\ UNCHANGED vars

Next ==
    \/ \E src \in Sources : Sending(src)
    \/ \E i \in 1 .. Len(net) : Receiving(i) \/ Lose(i) \/ Duplicate(i)
    \/ Returning
    \/ Failing
    \/ Opening
    \/ Finished

Spec == Init /\ [][Next]_vars

\* Senders and receiver keep running, and a packet on the way arrives.
Fairness ==
    /\ \A src \in Sources :
          WF_vars(SendStep(src) /\ UNCHANGED <<rcvVars, copies, delivered>>)
    /\ WF_vars(\E i \in 1 .. Len(net) : Receiving(i))
    /\ WF_vars(Returning)
    /\ WF_vars(Opening)

FairSpec == Spec /\ Fairness

-----------------------------------------------------------------------------
\* "It will read entire buffer or return an error"
\* (ejfat_assemble_ersap.hpp:769): a buffer that is returned holds every byte of
\* one event, and nothing of another source or tick, as long as the network has
\* duplicated nothing.
ReturnsEntireBuffer ==
    result.status = "ok" /\ copies = 0 =>
        LET e == <<result.src, result.tick>>
        IN  /\ result.bytes = EventLength[e]
            /\ \A b \in 0 .. EventLength[e] - 1 : buf[b] = e

\* Even if packets are duplicated, a returned buffer starts with the first
\* packet of its event, for a tick whose packet with offset 0 does not come
\* first is dumped (ejfat_assemble_ersap.hpp:911-934); the tick UINT_MAX, with
\* which prevTick starts, is not.
StartsWithFirstPacket ==
    /\ result.status = "ok" /\ result.tick # UintMax
    /\ EventLength[<<result.src, result.tick>>] > 0
    => buf[0] = <<result.src, result.tick>>

EventBytes(S) == FoldSet(LAMBDA e, n : EventLength[e] + n, 0, S)

\* The statistics count the bytes of every event returned once, and no others:
\* neither what a call left unfinished nor an event returned a second time
\* (ejfat_assemble_ersap.hpp:996-1013); duplicated packets would count too.
StatsMatchReturns ==
    TakesStats /\ result = Running /\ copies = 0 =>
        stats.acceptedBytes = EventBytes(ToSet(delivered))

\* The receiver divides by the data bytes of a packet without looking at them
\* (ejfat_assemble_ersap.hpp:875).  It never meets a zero there unless a source
\* sent an event without data: no other event has such a packet, however it is
\* cut up, lost or reordered.
DividesOnlyByData ==
    broken = "division" => \E p \in sent : EventLength[<<p.src, p.tick>>] = 0

\* Over a path that neither loses nor reorders, a single source's events are
\* returned in order, none is counted as discarded, no call returns an error,
\* and doubling the buffer once (ejfat_assemble_ersap.hpp:1327-1331) always
\* makes it large enough.
InOrderIsComplete ==
    /\ \A i \in DOMAIN delivered :
           i > 1 => delivered[i - 1][2] < delivered[i][2]
    /\ stats.discardedBuffers = 0
    /\ result.status \in {"running", "ok", "part"}
    /\ broken = "no"

\* Over such a path every event is returned in the end.
EventuallyAll ==
    <>(\/ \A src \in Sources : sender[src] \in OldHeader
       \/ OpensSocket /\ delivered # <<>>
       \/ \A src \in Sources, tick \in Ticks : <<src, tick>> \in ToSet(delivered))

\* The estimate of dropped buffers (ejfat_assemble_ersap.hpp:988-994), for events
\* that arrive in order, is exactly the number of ticks skipped.
DroppedEstimateExact ==
    TakesStats /\ result = Running /\ delivered # <<>> =>
        stats.droppedBuffers =
            Last(delivered)[2] - Head(delivered)[2] + 1 - Len(delivered)
=============================================================================
