------------------------------ MODULE Packetize ------------------------------
(***************************************************************************)
(* simulation/ejfat_packetize.hpp: one event is cut into packets of at     *)
(* most maxUdpPayload bytes.  If the very first packet is refused as too   *)
(* big the payload shrinks by a fifth.  Six functions have this loop:      *)
(*   SendNew, FastNew            write the offset into the header,         *)
(*   Send, Sendto, Sendmsg, Fast write a number and marks for the first    *)
(*                               and the last packet (the old header);     *)
(*   FastNew, Fast               send straight from the caller's buffer    *)
(*                               and write headers over what is sent.      *)
(* sendBuffer opens a socket and calls SendNew or FastNew.                 *)
(* Every source sends the events of Ticks one after the other.             *)
(***************************************************************************)
EXTENDS PacketChannel, Integers, FiniteSets

CONSTANTS
    SendFunctions,  \* the functions a source may use
    MaxUdpPayload,  \* payload size the caller asks for
    HeaderBytes,    \* HEADER_BYTES
    HeaderGrowth,   \* HEADER_BYTES - HEADER_BYTES_OLD
    PathLimit,      \* external: largest payload the socket accepts
    CanFailSend     \* may send() fail for another reason?

ASSUME PayloadAssumption ==
    /\ SendFunctions \subseteq {"SendNew", "FastNew", "Send", "Sendto", "Sendmsg",
                                "Fast", "sendBuffer", "sendBufferFast"}
    /\ MaxUdpPayload \in Nat \ {0}
    /\ {HeaderBytes, HeaderGrowth} \subseteq Nat
    /\ PathLimit \in Nat \ {0}
    /\ CanFailSend \in BOOLEAN

VARIABLES
    sender, \* source -> the function it uses
    snd,    \* source -> the locals of its running call
    sent    \* set of packets handed to the network (history)

sndVars == <<sender, snd, sent>>

WithSocket == {"sendBuffer", "sendBufferFast"}
OldHeader  == {"Send", "Sendto", "Sendmsg", "Fast"}
InPlace    == {"FastNew", "Fast", "sendBufferFast"}

\* sendBuffer leaves room for the old, shorter header.
Payload(fn) == IF fn \in WithSocket THEN MaxUdpPayload + HeaderGrowth
                                    ELSE MaxUdpPayload

\* A call that sends the event of the given tick from its beginning.
NewCall(src, tick, fn) ==
    [tick |-> tick, localOffset |-> 0, remainingBytes |-> EventLength[<<src, tick>>],
     maxUdpPayload |-> Payload(fn), veryFirstPacket |-> TRUE,
     veryLastPacket |-> FALSE, packetCounter |-> 0, firstLoop |-> TRUE,
     open |-> fn \notin WithSocket, headers |-> {}]

Least(S) == CHOOSE t \in S : \A u \in S : t <= u

SendInit ==
    /\ net = <<>>
    /\ sender \in [Sources -> SendFunctions]
    /\ snd = [src \in Sources |-> NewCall(src, Least(Ticks), sender[src])]
    /\ sent = {}

\* The source has called send for all its ticks.
SourceDone(src) == snd[src].tick \notin Ticks

\* Mutant of Looping: off by one, a packet without data ends every event.
LoopingOnceMore(c) == c.firstLoop \/ c.remainingBytes >= 0

Looping(c) == c.firstLoop \/ c.remainingBytes > 0

BytesToWrite(c) == IF c.remainingBytes > c.maxUdpPayload THEN c.maxUdpPayload
                                                         ELSE c.remainingBytes

VeryLast(c) == c.veryLastPacket \/ BytesToWrite(c) = c.remainingBytes

\* The bytes of the caller's buffer a header is written over: in front of the
\* data of every packet but the first.
HeaderOver(c, fn) ==
    IF fn \in InPlace /\ c.localOffset > 0
    THEN c.localOffset - HeaderBytes .. c.localOffset - 1 ELSE {}

\* Mutant of AfterSend: the offset advances by the payload asked for.
AfterSendFixedStep(c, fn) ==
    [c EXCEPT !.firstLoop = FALSE, !.veryFirstPacket = FALSE,
              !.veryLastPacket = VeryLast(c), !.headers = @ \cup HeaderOver(c, fn),
              !.packetCounter = IF fn \in OldHeader THEN @ + 1 ELSE @,
              !.localOffset = @ + MaxUdpPayload,
              !.remainingBytes = @ - BytesToWrite(c)]

\* The locals after a packet has gone out.
AfterSend(c, fn) ==
    [c EXCEPT !.firstLoop = FALSE, !.veryFirstPacket = FALSE,
              !.veryLastPacket = VeryLast(c), !.headers = @ \cup HeaderOver(c, fn),
              !.packetCounter = IF fn \in OldHeader THEN @ + 1 ELSE @,
              !.localOffset = @ + BytesToWrite(c),
              !.remainingBytes = @ - BytesToWrite(c)]

InLoop(src) == ~SourceDone(src) /\ snd[src].open /\ Looping(snd[src])

\* What a packet is remembered by: its place in the event, the marks of the old
\* header, and whether its data are the caller's.
Record(src, c, fn) ==
    LET bytes == c.localOffset .. c.localOffset + BytesToWrite(c) - 1
    IN  [src |-> src, tick |-> c.tick, offset |-> c.localOffset,
         bytes |-> BytesToWrite(c), number |-> c.packetCounter,
         first |-> c.veryFirstPacket, last |-> VeryLast(c),
         intact |-> bytes \cap (c.headers \cup HeaderOver(c, fn)) = {}]

\* One turn of the loop whose send() succeeds.  The receivers of this library
\* read the new header only.
SendPacket(src, fn) ==
    LET c == snd[src]
    IN  /\ InLoop(src)
        /\ BytesToWrite(c) <= PathLimit
        /\ Len(net) < MaxInFlight
        /\ net' = IF fn \in OldHeader THEN net
                  ELSE Append(net, Packet(src, c.tick, c.localOffset, BytesToWrite(c)))
        /\ sent' = sent \cup {Record(src, c, fn)}
        /\ snd' = [snd EXCEPT ![src] = AfterSend(c, fn)]

\* send() answers EMSGSIZE to the very first packet: startAgain with 20% less.
\* packetCounter, advanced for the header, is set back; firstLoop is cleared
\* at the start of the loop, or after a packet has gone out.
ShrinkPayload(src, fn) ==
    LET c == snd[src]
    IN  /\ InLoop(src)
        /\ BytesToWrite(c) > PathLimit
        /\ c.veryFirstPacket
        /\ snd' = [snd EXCEPT ![src].maxUdpPayload = (@ * 8) \div 10,
                              ![src].veryLastPacket = FALSE,
                              ![src].firstLoop = fn \in InPlace]
        /\ UNCHANGED <<net, sent>>

\* The next tick's call.  With no tick left the value is outside Ticks.
NextTick(tick) == IF \E u \in Ticks : u > tick
                  THEN Least({u \in Ticks : u > tick})
                  ELSE 1 + tick

StartNext(src) ==
    LET tick == NextTick(snd[src].tick)
    IN  snd' = [snd EXCEPT ![src] =
                   IF tick \in Ticks THEN NewCall(src, tick, sender[src])
                   ELSE [@ EXCEPT !.tick = tick]]

\* Any other error ends the call with the rest of the event unsent.
SendFails(src) ==
    /\ CanFailSend
    /\ InLoop(src)
    /\ StartNext(src)
    /\ UNCHANGED <<net, sender, sent>>

\* The call returns and the caller goes on to its next event.
SendReturns(src) ==
    /\ ~SourceDone(src) /\ snd[src].open
    /\ ~Looping(snd[src])
    /\ StartNext(src)
    /\ UNCHANGED <<net, sent>>

Loop(src, fn) == SendPacket(src, fn) \/ ShrinkPayload(src, fn) \/ SendReturns(src)

SendNew(src) == sender[src] \in {"SendNew", "sendBuffer"} /\ Loop(src, "SendNew")
FastNew(src) == sender[src] \in {"FastNew", "sendBufferFast"} /\ Loop(src, "FastNew")
Fast(src)    == sender[src] = "Fast" /\ Loop(src, "Fast")
Send(src)    == sender[src] = "Send" /\ Loop(src, "Send")
Sendto(src)  == sender[src] = "Sendto" /\ Loop(src, "Sendto")
Sendmsg(src) == sender[src] = "Sendmsg" /\ Loop(src, "Sendmsg")

\* sendBuffer makes and connects a socket for every event; without one the
\* event is not sent.
SendBufferOpens(src) ==
    /\ ~SourceDone(src)
    /\ ~snd[src].open
    /\ \/ snd' = [snd EXCEPT ![src].open = TRUE]
       \/ CanFailSend /\ StartNext(src)
    /\ UNCHANGED <<net, sent>>

SendStep(src) ==
    /\ \/ SendNew(src) \/ FastNew(src) \/ Fast(src) \/ Send(src) \/ Sendto(src)
       \/ Sendmsg(src) \/ SendBufferOpens(src)
    /\ UNCHANGED sender

\* The packets of one event that have been sent.
PacketsOf(src, tick) == {p \in sent : p.src = src /\ p.tick = tick}

\* The packets that carry byte b of the event.
Covering(src, tick, b) ==
    {p \in PacketsOf(src, tick) : p.offset <= b /\ b < p.offset + p.bytes}

\* Without an offset in the header, the packets are put in order by their
\* numbers, and the ends of the event are found by the marks.
Marked(src, tick) ==
    \A p \in PacketsOf(src, tick) :
        /\ p.number = Cardinality({q \in PacketsOf(src, tick) : q.offset < p.offset})
        /\ p.first <=> p.offset = 0
        /\ p.last <=> p.offset + p.bytes = EventLength[<<src, tick>>]

\* What has been sent of an event is its first k bytes, each in one packet and
\* as the caller gave it; after a call that did not fail it is the whole event,
\* whatever payload size the path has enforced, and whichever of the functions
\* of ejfat_packetize.hpp was called.
SentPacketsTile ==
    \A src \in Sources : \A tick \in Ticks :
        LET length  == EventLength[<<src, tick>>]
            bytes   == 0 .. length + MaxUdpPayload
        IN  /\ \A b \in bytes : Cardinality(Covering(src, tick, b)) <= 1
            /\ \E k \in 0 .. length :
                  /\ {b \in bytes : Covering(src, tick, b) # {}} = 0 .. k - 1
                  /\ tick < snd[src].tick /\ ~CanFailSend => k = length
            /\ \A p \in PacketsOf(src, tick) : p.intact
            /\ sender[src] \in OldHeader => Marked(src, tick)
=============================================================================
