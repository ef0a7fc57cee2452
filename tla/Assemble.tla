------------------------------ MODULE Assemble ------------------------------
(***************************************************************************)
(* simulation/ejfat_assemble_ersap.hpp: the packets read from one socket   *)
(* are put together into a buffer until one event is complete.             *)
(*   getCompletePacketizedBuffer  fills the caller's buffer,               *)
(*   getCompleteAllocatedBuffer   makes its buffer larger if need be,      *)
(*   getPacketizedBuffer          takes packets in order only, and returns *)
(*                                an event in parts the caller adds up,    *)
(*   getBuffer                    opens a socket and calls one of the      *)
(*                                first two, the former with noCopy.       *)
(* One action per way a turn of the loop can end; the caller calls again   *)
(* after every return, passing the tick it expects next if                 *)
(* KnowExpectedTick.                                                       *)
(***************************************************************************)
EXTENDS PacketChannel, Integers

CONSTANTS
    Readers,           \* the functions the receiver may use
    BufLen,            \* bytes of the caller's buffer
    JumboBytes,        \* MAX_EJFAT_MTU: room wanted for a packet
    MaxRejected,       \* foreign packets until getPacketizedBuffer gives up, 100
    UintMax,           \* UINT_MAX, the initial prevTick
    KnowExpectedTick,  \* does the caller say which tick it expects?
    CanFailRecv        \* may recvfrom() or socket() fail?

ASSUME AssembleAssumption ==
    /\ Readers \subseteq {"getCompletePacketizedBuffer", "getCompleteAllocatedBuffer",
                          "getPacketizedBuffer", "getBuffer", "getBufferNoCopy"}
    /\ {BufLen, UintMax} \subseteq Nat
    /\ {JumboBytes, MaxRejected} \subseteq Nat \ {0}
    /\ KnowExpectedTick \in BOOLEAN
    /\ CanFailRecv \in BOOLEAN

VARIABLES
    reader,   \* the function in use
    rcv,      \* locals of the running call
    buf,      \* byte -> the <<src, tick>> whose data it holds
    bufLen,   \* bytes of the buffer
    result,   \* what the last call returned, or Running
    stats,    \* packetRecvStats, accumulated over the calls
    broken    \* "division" by zero, "overrun" of the buffer, or "no"

rcvVars == <<reader, rcv, buf, bufLen, result, stats, broken>>

NoTick  == -1                 \* 0xffffffffffffffff: no expected tick
Empty   == <<"none", NoTick>>
Running == [status |-> "running"]

OpensSocket == reader \in {"getBuffer", "getBufferNoCopy"}
Grows       == reader \in {"getCompleteAllocatedBuffer", "getBuffer"}
InStages    == reader = "getPacketizedBuffer"
TakesStats  == ~OpensSocket /\ ~InStages

\* Only a socket of the caller's, or the first one getBuffer opens, receives.
NewRead(expected, socket) ==
    [veryFirstRead |-> TRUE, dumpTick |-> FALSE, prevTick |-> UintMax,
     expectedTick |-> expected, srcId |-> "none", totalBytesRead |-> 0,
     pktCount |-> 0, discardedBufs |-> 0, nextOffset |-> 0,
     remainingLen |-> BufLen, rejectedPkt |-> 0, socket |-> socket]

Bytes == (0 .. BufLen - 1) \cup UNION {0 .. EventLength[e] - 1 : e \in DOMAIN EventLength}

\* A buffer that grows starts with room for one packet.
ReceiveInit ==
    /\ reader \in Readers
    /\ rcv = NewRead(NoTick, IF OpensSocket THEN "none" ELSE "bound")
    /\ buf = [b \in Bytes |-> Empty]
    /\ bufLen = IF Grows THEN JumboBytes ELSE BufLen
    /\ result = Running
    /\ stats = [acceptedBytes |-> 0, acceptedPackets |-> 0, badSrcIdPackets |-> 0,
                discardedBuffers |-> 0, droppedBuffers |-> 0]
    /\ broken = "no"

Reading == result = Running /\ broken = "no" /\ rcv.socket = "bound"

\* The first packet of a buffer clears the counts and fixes the source.
Begin(p) == IF rcv.veryFirstRead
            THEN [rcv EXCEPT !.totalBytesRead = 0, !.pktCount = 0, !.srcId = p.src]
            ELSE rcv

\* The guess at the number of packets divides by the packet's data bytes.
DividesByZero(p) == rcv.veryFirstRead /\ p.bytes = 0

\* Mutant of OtherSource: packets of every source are taken.
NoOtherSource(p) == FALSE

OtherSource(p) == ~rcv.veryFirstRead /\ p.src # rcv.srcId

NewTick(p) == p.tick # rcv.prevTick

\* Mutant of MissedFirst: a tick may start with any packet.
NeverMissedFirst(p) == FALSE

MissedFirst(p) == NewTick(p) /\ p.offset # 0

\* The largest buffer there can be after this packet: it is doubled once.
Room == IF Grows THEN 2 * bufLen ELSE bufLen

TooBig(p, room) == p.offset + p.bytes > room

\* What becomes of packet p: the tests of the loop in their order.
Verdict(p) == CASE DividesByZero(p)                -> "crash"
                [] OtherSource(p)                  -> "otherSource"
                [] MissedFirst(p)                  -> "dumpNewTick"
                [] ~NewTick(p) /\ rcv.dumpTick     -> "dumpSameTick"
                [] OTHER                           -> "fits"

\* recvfrom() reads the i-th packet on the way and the verdict on it is v.
ReadAny(i) == /\ Reading
              /\ i \in 1 .. Len(net)
              /\ Deliverable(i)
              /\ Arrives(i)
              /\ UNCHANGED reader
Read(i, v) == ReadAny(i) /\ ~InStages /\ Verdict(net[i]) = v

Crash(i) ==
    /\ Read(i, "crash")
    /\ broken' = "division"
    /\ UNCHANGED <<rcv, buf, bufLen, result, stats>>

RejectOtherSource(i) ==
    /\ Read(i, "otherSource")
    /\ stats' = IF TakesStats THEN [stats EXCEPT !.badSrcIdPackets = @ + 1] ELSE stats
    /\ UNCHANGED <<rcv, buf, bufLen, result, broken>>

\* The first packet of a new tick is not the one with offset 0: the tick is
\* dumped, with whatever was built so far.
DumpNewTick(i) ==
    /\ Read(i, "dumpNewTick")
    /\ rcv' = [Begin(net[i]) EXCEPT !.veryFirstRead = TRUE, !.dumpTick = TRUE,
                                    !.prevTick = net[i].tick,
                                    !.discardedBufs = @ + 1]
    /\ UNCHANGED <<buf, bufLen, result, stats, broken>>

DumpSameTick(i) ==
    /\ Read(i, "dumpSameTick")
    /\ rcv' = [Begin(net[i]) EXCEPT !.veryFirstRead = TRUE]
    /\ UNCHANGED <<buf, bufLen, result, stats, broken>>

BufferTooSmall(i) ==
    /\ Read(i, "fits") /\ TooBig(net[i], Room) /\ ~Grows
    /\ result' = [status |-> "BUF_TOO_SMALL"]
    /\ UNCHANGED <<rcv, buf, bufLen, stats, broken>>

\* Twice the size is not enough either, which the code does not look at: the
\* data go past the end of the buffer.
Overrun(i) ==
    /\ Read(i, "fits") /\ TooBig(net[i], Room) /\ Grows
    /\ broken' = "overrun"
    /\ UNCHANGED <<rcv, buf, bufLen, result, stats>>

\* Mutant of Restart: the partial event of the previous tick stays counted.
KeepCounting(p) == Begin(p)

\* Mutant of Restart: every new tick counts as the end of an unfinished one.
RestartAlways(p) == IF NewTick(p)
                    THEN [rcv EXCEPT !.totalBytesRead = 0, !.pktCount = 0,
                                     !.srcId = p.src, !.discardedBufs = @ + 1]
                    ELSE Begin(p)

\* A new tick that starts with offset 0 discards a previous one in progress.
Restart(p) == IF NewTick(p) /\ ~rcv.veryFirstRead
              THEN [rcv EXCEPT !.totalBytesRead = 0, !.pktCount = 0,
                               !.srcId = p.src, !.discardedBufs = @ + 1]
              ELSE Begin(p)

\* The locals after p has been copied into the buffer.
Copied(p) == [Restart(p) EXCEPT !.totalBytesRead = @ + p.bytes,
                                !.pktCount = @ + 1,
                                !.veryFirstRead = FALSE,
                                !.dumpTick = IF NewTick(p) THEN FALSE ELSE @,
                                !.prevTick = p.tick]

\* Mutant of DroppedTicks: the sign of the difference is lost.
DroppedTicksBothWays(tick) ==
    IF rcv.expectedTick = NoTick THEN 0 ELSE tick + 1 - rcv.expectedTick

\* Ticks missing between the expected one and the one built (prescale 1).
DroppedTicks(tick) ==
    IF rcv.expectedTick = NoTick THEN 0
    ELSE IF tick < rcv.expectedTick THEN rcv.expectedTick - tick
                                    ELSE tick - rcv.expectedTick

Copy(p) == [b \in Bytes |-> IF p.offset <= b /\ b < p.offset + p.bytes
                            THEN <<p.src, p.tick>> ELSE buf[b]]

Ok(p, bytes) == [status |-> "ok", src |-> p.src, tick |-> p.tick, bytes |-> bytes]

AcceptPacket(i) ==
    LET p    == net[i]
        r    == Copied(p)
        done == r.totalBytesRead >= p.length
    IN  /\ Read(i, "fits")
        /\ ~TooBig(p, Room)
        /\ bufLen' = IF TooBig(p, bufLen) THEN Room ELSE bufLen
        /\ rcv' = r
        /\ buf' = Copy(p)
        /\ result' = IF done THEN Ok(p, r.totalBytesRead) ELSE result
        /\ stats' = IF done /\ TakesStats
                    THEN [stats EXCEPT !.acceptedBytes = @ + r.totalBytesRead,
                                       !.acceptedPackets = @ + r.pktCount,
                                       !.discardedBuffers = @ + r.discardedBufs,
                                       !.droppedBuffers = @ + DroppedTicks(p.tick)]
                    ELSE stats
        /\ UNCHANGED broken

\* getPacketizedBuffer: the offset is looked at first, then the source and tick.
StagedExpects(p) == p.offset = IF rcv.veryFirstRead THEN 0 ELSE rcv.nextOffset
Foreign(p) == ~rcv.veryFirstRead /\ (p.src # rcv.srcId \/ p.tick # rcv.prevTick)

StagedOutOfOrder(i) ==
    /\ ReadAny(i) /\ InStages /\ ~StagedExpects(net[i])
    /\ result' = [status |-> "OUT_OF_ORDER"]
    /\ UNCHANGED <<rcv, buf, bufLen, stats, broken>>

StagedReject(i) ==
    /\ ReadAny(i) /\ InStages /\ StagedExpects(net[i]) /\ Foreign(net[i])
    /\ rcv' = [rcv EXCEPT !.rejectedPkt = @ + 1]
    /\ result' = IF rcv'.rejectedPkt >= MaxRejected THEN [status |-> "NO_REASSEMBLY"]
                                                    ELSE result
    /\ UNCHANGED <<buf, bufLen, stats, broken>>

\* Each part goes where the parts before it end.  The part is returned when
\* there may be no room for another packet, or the event is complete.
StagedAccept(i) ==
    LET p == net[i]
        r == [rcv EXCEPT !.veryFirstRead = FALSE, !.srcId = p.src, !.prevTick = p.tick,
                         !.totalBytesRead = @ + p.bytes, !.remainingLen = @ - p.bytes,
                         !.pktCount = @ + 1, !.nextOffset = p.offset + p.bytes]
    IN  /\ ReadAny(i) /\ InStages /\ StagedExpects(p) /\ ~Foreign(p)
        /\ rcv' = r
        /\ buf' = Copy(p)
        /\ result' = IF r.nextOffset >= p.length THEN Ok(p, r.totalBytesRead)
                     ELSE IF r.remainingLen < JumboBytes THEN [status |-> "part"]
                     ELSE result
        /\ UNCHANGED <<bufLen, stats, broken>>

\* getBuffer: a socket that cannot be bound, because the one of the call before
\* was never closed, is read all the same.
OpenSocket ==
    /\ result = Running /\ rcv.socket \in {"none", "again"}
    /\ \/ rcv' = [rcv EXCEPT !.socket = IF @ = "none" THEN "bound" ELSE "deaf"]
          /\ UNCHANGED result
       \/ CanFailRecv /\ result' = [status |-> "NETWORK_ERROR"] /\ UNCHANGED rcv
    /\ UNCHANGED <<net, reader, buf, bufLen, stats, broken>>

\* recvfrom() fails: the call returns and what it had read is forgotten.
ReceiveFails ==
    /\ Reading
    /\ CanFailRecv
    /\ result' = [status |-> "RECV_MSG"]
    /\ UNCHANGED <<net, reader, rcv, buf, bufLen, stats, broken>>

SocketNext == IF OpensSocket /\ rcv.socket = "bound" THEN "again" ELSE rcv.socket

\* The caller calls again.  The users of the growing buffer stop at an error,
\* after which the buffer may have been freed.
GivenUp == Grows /\ result.status \notin {"running", "ok"}

CallAgain ==
    /\ result # Running /\ ~GivenUp
    /\ result' = Running
    /\ rcv' = IF result.status = "part"
              THEN [rcv EXCEPT !.remainingLen = BufLen, !.rejectedPkt = 0]
              ELSE NewRead(IF KnowExpectedTick /\ result.status = "ok"
                           THEN result.tick + 1 ELSE NoTick, SocketNext)
    /\ UNCHANGED <<net, reader, buf, bufLen, stats, broken>>

Complete(i) ==
    \/ Crash(i)
    \/ RejectOtherSource(i)
    \/ DumpNewTick(i)
    \/ DumpSameTick(i)
    \/ AcceptPacket(i)

GetCompletePacketizedBuffer(i) == (~Grows /\ Complete(i)) \/ BufferTooSmall(i)
GetCompleteAllocatedBuffer(i) == (Grows /\ Complete(i)) \/ Overrun(i)
GetPacketizedBuffer(i) == StagedOutOfOrder(i) \/ StagedReject(i) \/ StagedAccept(i)

ReceiveStep(i) ==
    \/ GetCompletePacketizedBuffer(i)
    \/ GetCompleteAllocatedBuffer(i)
    \/ GetPacketizedBuffer(i)
=============================================================================
