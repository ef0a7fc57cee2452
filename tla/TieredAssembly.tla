--------------------------- MODULE TieredAssembly ---------------------------
(***************************************************************************)
(* simulation/packetBlasteeFullNewMP: threadAssemble rebuilds the events   *)
(* of one source in buffers of a Supplier.  Unfinished events wait in the  *)
(* fast map, in buffers of the supply, and then as copies in the slow map. *)
(* What leaves the fast map goes back to the supply: it is released at     *)
(* once (option dumpBufs), or published for threadReadBuffers to release.  *)
(*                                                                         *)
(* An event is cut into packets of one unit each, which arrive in any      *)
(* order; those that never arrive are lost.  A packet is worked off in     *)
(* steps with one call of the supply at most.                              *)
(***************************************************************************)
EXTENDS Integers, FiniteSets, FiniteSetsExt

CONSTANTS
    Ticks,         \* ticks of the events the source sends
    Offsets,       \* offsets of the packets of an event
    ShortTicks,    \* ticks of the events that fit into one packet
    RingSize,      \* buffers of the supply
    FastMapMax, SlowMapMax,     \* FAST_MAP_MAX, SLOW_MAP_MAX
    FastStore, SlowStore,       \* FAST_STORE_MICROSEC, SLOW_STORE_MILLISEC
    RestartGap,    \* the source was restarted if its tick is so much smaller
    DumpModes,     \* possible values of the option dumpBufs
    CanExit,       \* may recv() fail, and may noRestart be given?
    MaxCopies, MaxCopiesRead,   \* bound: packets the network duplicates, with
                                \* and without dumpBufs
    MaxTime,       \* bound: clock
    MaxSeq         \* bound: buffers claimed, less one

ASSUME TieredAssumption ==
    /\ IsFiniteSet(Ticks) /\ Ticks \subseteq Nat \ {0}
    /\ IsFiniteSet(Offsets) /\ 0 \in Offsets
    /\ ShortTicks \subseteq Ticks
    /\ RingSize \in Nat \ {0} /\ MaxSeq \in Nat
    /\ FastMapMax \in 1 .. RingSize - 1 /\ SlowMapMax \in Nat \ {0}
    /\ FastStore \in Nat \ {0}
    /\ {SlowStore, RestartGap, MaxCopies, MaxCopiesRead, MaxTime} \subseteq Nat
    /\ {CanExit} \cup DumpModes \subseteq BOOLEAN

VARIABLES
    \* the supply: see module Supplier
    items, claimed, cursor, sequence, lastSequenceReleased, maxSequence, between,
    nextConsumerSequence, availableConsumerSequence, alerted, filling, users,
    loads, freeing, done,
    \* the buffers
    body,          \* slot -> BufferItem there
    copies,        \* tick -> copy made of its BufferItem, and its sequence
    \* threadAssemble
    pc, pkt, bufItem, prevBufItem, prevTick, largestTick, largestSlowTick,
    fromSlowMap,
    microSec,      \* the clock when it was last read, for the last new tick
    fast,          \* fastTickMap and fastTimeMap
    slow,          \* slowTickMap and slowTimeMap
    stats,         \* builtBuffers and discardedBuffers
    dumpBufs,      \* option
    \* the network
    net,           \* packets that have not arrived
    copied,        \* packets duplicated
    upset          \* history: which of the things below have happened

supply   == <<items, claimed, cursor, sequence, lastSequenceReleased,
              maxSequence, between, nextConsumerSequence,
              availableConsumerSequence, alerted, filling, users, loads,
              freeing, done>>
storage  == <<body, copies>>
current  == <<pkt, bufItem, fromSlowMap>>
previous == <<prevTick, prevBufItem>>
maps     == <<fast, slow, largestTick, largestSlowTick, microSec>>
network  == <<net, copied>>
vars == <<supply, storage, pc, current, previous, maps, stats, dumpBufs,
          network, upset>>

S == INSTANCE Supplier WITH
        Pipeline <- TRUE, OrderedRelease <- FALSE, Threads <- {},
        AddToSingleUser <- FALSE, CanAlert <- FALSE, MaxBatch <- 1,
        MaxUsers <- 1

-----------------------------------------------------------------------------
(* Buffers, and references to them.                                        *)

NoTick == 0
NoTickYet == -1
OffsetsOf(tick) == IF tick \in ShortTicks THEN {0} ELSE Offsets

NoPacket == [tick |-> NoTick, offset |-> 0]

\* A BufferItem: userLong and userInt are the number of its offsets.  Its
\* memory says which event's data is at which offset.
NewBody == [eventNum |-> NoTick, offsets |-> {}, isValidData |-> TRUE,
            memory |-> [o \in Offsets |-> NoTick]]

InRing(slot)  == [copy |-> FALSE, at |-> slot]
InCopy(tick)  == [copy |-> TRUE, at |-> tick]
NoItem == InRing(-1)

Item(ref) == IF ref.copy THEN copies[ref.at].body ELSE body[ref.at]

ProducerSequence(ref) == IF ref.copy THEN copies[ref.at].producerSequence
                                     ELSE items[ref.at].producerSequence

\* Every byte of the event is there, and nothing else.
Whole(item, tick) == /\ item.eventNum = tick
                     /\ item.offsets = OffsetsOf(tick)
                     /\ \A o \in OffsetsOf(tick) : item.memory[o] = tick

\* reset() leaves the memory of the buffer as it is.
Reset(item, tick) == [NewBody EXCEPT !.eventNum = tick, !.memory = item.memory]

With(map, tick, entry) ==
    [t \in DOMAIN map \cup {tick} |-> IF t = tick THEN entry ELSE map[t]]

Without(map, ticks) == [t \in DOMAIN map \ ticks |-> map[t]]

Oldest(map) == Min(DOMAIN map)

Init ==
    /\ S!Init
    /\ body = [i \in S!Slots |-> NewBody]
    /\ copies = [t \in Ticks |-> [body |-> NewBody, producerSequence |-> 0]]
    /\ pc = "recv"
    /\ pkt = NoPacket
    /\ bufItem = NoItem /\ prevBufItem = NoItem
    /\ prevTick = NoTickYet /\ largestTick = NoTickYet
    /\ largestSlowTick = NoTickYet
    /\ fromSlowMap = FALSE
    /\ microSec = 0
    /\ fast = << >> /\ slow = << >>
    /\ stats = [built |-> 0, discarded |-> 0, opened |-> 0]
    /\ dumpBufs \in DumpModes
    /\ net = {p \in [tick : Ticks, offset : Offsets] : p.offset \in OffsetsOf(p.tick)}
    /\ copied = 0
    /\ upset = {}

-----------------------------------------------------------------------------
(* Calls of the supply.  Only one thread releases, so that a release is a  *)
(* single step here.                                                       *)

ReleaseItem(seq) ==
    /\ S!ReleaseInAnyOrder(seq)
    /\ done' = done \cup {seq}
    /\ filling' = filling \ {seq}
    /\ users' = [users EXCEPT ![seq] = 0]
    /\ UNCHANGED <<items, claimed, cursor, nextConsumerSequence,
                   availableConsumerSequence, alerted, loads, freeing>>

\* The cursor goes where it is told, forward or backward.
PublishItem(seq) ==
    /\ cursor' = seq
    /\ filling' = filling \ {seq}
    /\ UNCHANGED <<items, claimed, sequence, lastSequenceReleased, maxSequence,
                   between, nextConsumerSequence, availableConsumerSequence,
                   alerted, users, loads, freeing, done>>

HandBack(ref) == IF dumpBufs THEN ReleaseItem(ProducerSequence(ref))
                             ELSE PublishItem(ProducerSequence(ref))

\* A buffer is published before one that was claimed earlier, or again.
OutOfOrder(ref) ==
    LET seq == ProducerSequence(ref)
    IN  ~dumpBufs /\ (seq \notin filling \/ \E r \in filling : r < seq)

Remember(what, happens) ==
    upset' = IF happens THEN upset \cup {what} ELSE upset

\* What handing back an unfinished buffer does to it.
Invalidated(slot) == IF dumpBufs THEN body
                     ELSE [body EXCEPT ![slot].isValidData = FALSE]

-----------------------------------------------------------------------------
(* threadAssemble: a packet arrives and its buffer is looked up.           *)

Recv(p, again) ==
    /\ pc = "recv"
    /\ again => copied < IF dumpBufs THEN MaxCopies ELSE MaxCopiesRead
    /\ net' = IF again THEN net ELSE net \ {p}
    /\ copied' = IF again THEN copied + 1 ELSE copied
    /\ pkt' = p
    /\ UNCHANGED <<supply, storage, previous, maps, stats, dumpBufs>>

\* Very old ticks are looked for in the slow map only, others in the fast one.
InSlow(tick) == tick <= largestSlowTick /\ tick \in DOMAIN slow
InFast(tick) == tick > largestSlowTick /\ tick \in DOMAIN fast

Known(tick) == tick <= largestTick /\ (InSlow(tick) \/ InFast(tick))

Restarted(tick) == largestTick - tick > RestartGap

\* The packet belongs to the same event as the one before.
ReceiveSameTick(p, again) ==
    /\ Recv(p, again)
    /\ p.tick = prevTick
    /\ fromSlowMap' = FALSE
    /\ pc' = "store"
    /\ Remember("duplicate", again)
    /\ UNCHANGED bufItem

ReceiveKnownTick(p, again) ==
    /\ Recv(p, again)
    /\ p.tick # prevTick
    /\ Known(p.tick)
    /\ fromSlowMap' = InSlow(p.tick)
    /\ bufItem' = IF InSlow(p.tick) THEN slow[p.tick].ref
                                    ELSE InRing(fast[p.tick].slot)
    /\ pc' = "limit"
    /\ upset' = upset \cup (IF again THEN {"duplicate"} ELSE {})
                      \cup (IF fromSlowMap' /\ ~bufItem'.copy THEN {"alias"} ELSE {})

\* The buffer to go on with after a packet that came too late.
AfterLatePacket == prevBufItem

ReceiveLateTick(p, again) ==
    /\ Recv(p, again)
    /\ p.tick # prevTick
    /\ p.tick <= largestTick /\ ~Known(p.tick)
    /\ ~Restarted(p.tick)
    /\ fromSlowMap' = FALSE
    /\ bufItem' = AfterLatePacket
    /\ pc' = "recv"
    /\ Remember("duplicate", again)

\* The source was restarted: the thread starts over, or the process ends.
ReceiveRestart(p, again) ==
    /\ Recv(p, again)
    /\ p.tick # prevTick
    /\ p.tick <= largestTick /\ ~Known(p.tick)
    /\ Restarted(p.tick)
    /\ fromSlowMap' = FALSE
    /\ bufItem' = NoItem
    /\ pc' \in {"restart"} \cup (IF CanExit THEN {"exit"} ELSE {})
    /\ upset' = upset \cup {"restart"} \cup (IF again THEN {"duplicate"} ELSE {})

ReceiveNewTick(p, again) ==
    /\ Recv(p, again)
    /\ p.tick # prevTick
    /\ p.tick > largestTick
    /\ fromSlowMap' = FALSE
    /\ bufItem' = NoItem
    /\ pc' = "get"
    /\ Remember("duplicate", again)

\* recv() fails, or gives less than a header.
RecvFails ==
    /\ CanExit
    /\ pc = "recv"
    /\ pc' = "exit"
    /\ UNCHANGED <<supply, storage, current, previous, maps, stats, dumpBufs,
                   network, upset>>

\* After a restart everything in the fast map is handed back ...
ClearOldest ==
    LET tick == Oldest(fast)
        slot == fast[tick].slot
    IN  /\ pc = "restart"
        /\ fast # << >>
        /\ HandBack(InRing(slot))
        /\ Remember("outOfOrder", OutOfOrder(InRing(slot)))
        /\ body' = Invalidated(slot)
        /\ fast' = Without(fast, {tick})
        /\ UNCHANGED <<copies, pc, current, previous, slow, largestTick,
                       largestSlowTick, microSec, stats, dumpBufs, network>>

\* ... and the slow map is emptied; largestSlowTick is not reset.
ClearSlow ==
    /\ pc = "restart"
    /\ fast = << >>
    /\ slow' = << >>
    /\ stats' = [built |-> 0, discarded |-> 0, opened |-> 0]
    /\ pc' = "get"
    /\ UNCHANGED <<supply, storage, current, previous, fast, largestTick,
                   largestSlowTick, microSec, dumpBufs, network, upset>>

\* The new tick gets a buffer of the supply, for which the thread may have waited;
\* then the clock is read.
GetBuffer ==
    LET slot == S!Slot(claimed + 1)
    IN  /\ pc = "get"
        /\ S!Get(1)
        /\ body' = [body EXCEPT ![slot] = Reset(@, pkt.tick)]
        /\ bufItem' = InRing(slot)
        /\ microSec' \in {microSec} \cup ({microSec + 1} \cap 0 .. MaxTime)
        /\ fast' = With(fast, pkt.tick, [slot |-> slot, time |-> microSec'])
        /\ largestTick' = pkt.tick
        /\ stats' = [stats EXCEPT !.opened = @ + 1]
        /\ pc' = "limit"
        /\ UNCHANGED <<copies, pkt, fromSlowMap, previous, slow,
                       largestSlowTick, dumpBufs, network, upset>>

-----------------------------------------------------------------------------
(* An unfinished event leaves the fast map for the slow one.               *)

SlowMapFull == Cardinality(DOMAIN slow) >= SlowMapMax

\* Mutant of SlowTickAfter: the highest slow tick is not noted.
SlowTickAfterMissed(tick) == largestSlowTick

SlowTickAfter(tick) == tick

\* The buffer of a tick goes back to the supply and ref takes its place.
MoveToSlow(tick, ref) ==
    LET slot == fast[tick].slot
        kept == IF SlowMapFull THEN Without(slow, {Oldest(slow)}) ELSE slow
    IN  /\ HandBack(InRing(slot))
        /\ Remember("outOfOrder", OutOfOrder(InRing(slot)))
        /\ body' = Invalidated(slot)
        /\ slow' = With(kept, tick, [ref |-> ref, time |-> microSec])
        /\ stats' = IF SlowMapFull THEN [stats EXCEPT !.discarded = @ + 1] ELSE stats
        /\ largestSlowTick' = SlowTickAfter(tick)
        /\ fast' = Without(fast, {tick})
        /\ UNCHANGED <<current, previous, largestTick, microSec, dumpBufs, network>>

AboveLimit == Cardinality(DOMAIN fast) > FastMapMax

\* Too many events are being worked on: the oldest is copied.
MoveOldest ==
    LET tick == Oldest(fast)
        slot == fast[tick].slot
    IN  /\ pc = "limit"
        /\ AboveLimit
        /\ MoveToSlow(tick, InCopy(tick))
        /\ copies' = [copies EXCEPT ![tick] =
                         [body |-> body[slot],
                          producerSequence |-> items[slot].producerSequence]]
        /\ pc' = "store"

BelowLimit ==
    /\ pc = "limit"
    /\ ~AboveLimit
    /\ pc' = "store"
    /\ UNCHANGED <<supply, storage, current, previous, maps, stats, dumpBufs,
                   network, upset>>

\* Mutant of TooLong: off by one.
TooLongLate(time) == microSec - time > FastStore

\* More than FAST_STORE_MICROSEC have passed.
TooLong(time) == microSec - time >= FastStore

\* An event has waited too long: the slow map keeps the item itself, since
\* only the pointer is copied.
MoveExpired ==
    LET tick == Oldest(fast)
    IN  /\ pc = "expire"
        /\ fast # << >>
        /\ TooLong(fast[tick].time)
        /\ MoveToSlow(tick, InRing(fast[tick].slot))
        /\ UNCHANGED <<copies, pc>>

\* The oldest events of the slow map that have waited too long.
Expired == {t \in DOMAIN slow :
               \A u \in DOMAIN slow : u <= t => microSec - slow[u].time >= SlowStore}

\* Mutant of SlowAfterExpiry: discarded events stay in the map.
SlowAfterExpiryKept == slow

SlowAfterExpiry == Without(slow, Expired)

\* They are discarded, which ends the work on a packet.
DiscardExpired ==
    /\ pc = "expire"
    /\ fast # << >> => ~TooLong(fast[Oldest(fast)].time)
    /\ slow' = SlowAfterExpiry
    /\ stats' = [stats EXCEPT !.discarded = @ + Cardinality(Expired)]
    /\ pc' = "recv"
    /\ UNCHANGED <<supply, storage, current, previous, fast, largestTick,
                   largestSlowTick, microSec, dumpBufs, network, upset>>

-----------------------------------------------------------------------------
(* The packet is stored; a finished event is handed on.                    *)

\* A packet with this offset is there already.  prevTick keeps its value,
\* and bufItem the one it has for the duplicate.
IgnoreDuplicate ==
    /\ pc = "store"
    /\ pkt.offset \in Item(bufItem).offsets
    /\ pc' = "recv"
    /\ UNCHANGED <<supply, storage, current, previous, maps, stats, dumpBufs,
                   network, upset>>

\* Mutant of Complete: a packet too few is enough.
CompleteEarly(item) == Cardinality(item.offsets) + 1 >= Cardinality(OffsetsOf(pkt.tick))

\* As many bytes as the packet says the event has.
Complete(item) == Cardinality(item.offsets) >= Cardinality(OffsetsOf(pkt.tick))

StorePacket ==
    LET item == Item(bufItem)
        now  == [item EXCEPT !.offsets = @ \cup {pkt.offset},
                             !.memory[pkt.offset] = pkt.tick]
    IN  /\ pc = "store"
        /\ pkt.offset \notin item.offsets
        /\ IF bufItem.copy
           THEN /\ copies' = [copies EXCEPT ![bufItem.at].body = now]
                /\ UNCHANGED body
           ELSE /\ body' = [body EXCEPT ![bufItem.at] = now]
                /\ UNCHANGED copies
        /\ prevTick' = pkt.tick
        /\ prevBufItem' = bufItem
        /\ pc' = IF ~Complete(now) THEN "expire"
                 ELSE IF fromSlowMap THEN "resurrect" ELSE "finish"
        /\ stats' = IF Complete(now) THEN [stats EXCEPT !.built = @ + 1] ELSE stats
        /\ UNCHANGED <<supply, current, maps, dumpBufs, network, upset>>

\* Mutant of FastAfterFinish: the finished event stays in the map.
FastAfterFinishKept == fast

FastAfterFinish == Without(fast, {pkt.tick})

\* The finished buffer is taken to be one of the fast map.
Finish ==
    /\ pc = "finish"
    /\ HandBack(bufItem)
    /\ upset' = upset \cup (IF OutOfOrder(bufItem) THEN {"outOfOrder"} ELSE {})
                      \cup (IF bufItem.copy THEN {"copyReturned"} ELSE {})
    /\ fast' = FastAfterFinish
    /\ pc' = "expire"
    /\ UNCHANGED <<storage, current, previous, slow, largestTick,
                   largestSlowTick, microSec, stats, dumpBufs, network>>

\* A buffer of the slow map is copied into a new one of the supply ...
Resurrect ==
    LET slot == S!Slot(claimed + 1)
    IN  /\ pc = "resurrect"
        /\ S!Get(1)
        /\ body' = [body EXCEPT ![slot] = Item(bufItem)]
        /\ pc' = "passOn"
        /\ UNCHANGED <<copies, current, previous, maps, stats, dumpBufs,
                       network, upset>>

\* ... which is handed on.
PassOn ==
    LET new == InRing(S!Slot(claimed))
    IN  /\ pc = "passOn"
        /\ HandBack(new)
        /\ Remember("outOfOrder", OutOfOrder(new))
        /\ slow' = Without(slow, {pkt.tick})
        /\ pc' = "expire"
        /\ UNCHANGED <<storage, current, previous, fast, largestTick,
                       largestSlowTick, microSec, stats, dumpBufs, network>>

-----------------------------------------------------------------------------
(* threadReadBuffers.                                                      *)

ReadBuffer ==
    /\ ~dumpBufs
    /\ \A s \in S!Seqs : users[s] = 0
    /\ S!ConsumerGet
    /\ UNCHANGED <<storage, pc, current, previous, maps, stats, dumpBufs,
                   network, upset>>

ReleaseRead ==
    /\ ~dumpBufs
    /\ \E s \in S!Seqs : users[s] > 0 /\ ReleaseItem(s)
    /\ UNCHANGED <<storage, pc, current, previous, maps, stats, dumpBufs,
                   network, upset>>

-----------------------------------------------------------------------------
Receive(p, again) ==
    \/ ReceiveSameTick(p, again) \/ ReceiveKnownTick(p, again)
    \/ ReceiveLateTick(p, again) \/ ReceiveRestart(p, again)
    \/ ReceiveNewTick(p, again)

Work ==
    \/ ClearOldest \/ ClearSlow \/ GetBuffer \/ MoveOldest \/ BelowLimit
    \/ IgnoreDuplicate \/ StorePacket \/ Finish \/ Resurrect \/ PassOn
    \/ MoveExpired \/ DiscardExpired

\* The end of a bounded history.  The thread may also wait for good for a
\* buffer that cannot come back.
Finished ==
    /\ \/ pc = "exit"
       \/ pc = "recv"
       \/ pc \in {"get", "resurrect"} /\ ~S!RoomFor(1)
    /\ UNCHANGED vars

Next ==
    \/ \E p \in net, again \in BOOLEAN : Receive(p, again)
    \/ RecvFails
    \/ Work
    \/ ReadBuffer \/ ReleaseRead
    \/ Finished

Spec == Init /\ [][Next]_vars

-----------------------------------------------------------------------------
Things == {"duplicate", "alias", "outOfOrder", "restart", "copyReturned"}

\* Types of the variables.
TypeOK ==
    /\ S!TypeOK
    /\ \A i \in S!Slots : body[i].offsets \subseteq Offsets
    /\ pc \in {"recv", "restart", "get", "limit", "store", "finish",
               "resurrect", "passOn", "expire", "exit"}
    /\ pc \in {"limit", "store", "finish", "resurrect"} => bufItem # NoItem
    /\ {prevTick, largestTick, largestSlowTick} \subseteq Ticks \cup {NoTickYet}
    /\ DOMAIN fast \subseteq Ticks /\ DOMAIN slow \subseteq Ticks
    /\ Cardinality(DOMAIN fast) <= FastMapMax + 1
    /\ Cardinality(DOMAIN slow) <= SlowMapMax
    /\ upset \subseteq Things

\* A buffer that is counted as built holds the whole event of its tick and
\* nothing else (packetBlasteeFullNewMP.cc:1443), in whatever order packets
\* come, however many are lost, and whether the event waited in the fast map or
\* as a copy in the slow one, as long as no packet was duplicated, no late
\* packet came for an event that timed out (line 1504), buffers were published
\* in the order in which they had been claimed, and no copy was taken for a
\* buffer of the supply (lines 1200 and 1475).
BuiltIsWhole ==
    /\ upset \cap {"duplicate", "alias", "outOfOrder", "copyReturned"} = {}
    /\ pc \in {"finish", "resurrect"}
    => Whole(Item(bufItem), pkt.tick)

\* The lookup by comparison with largestSlowTick (lines 1213-1227) finds every
\* unfinished event, until the source restarts.
TiersOrdered ==
    "restart" \notin upset =>
        /\ \A t \in DOMAIN fast : largestSlowTick < t /\ t <= largestTick
        /\ \A t \in DOMAIN slow : t <= largestSlowTick

\* Between packets the thread has given back exactly the buffers that are not
\* in the fast map: none is lost and none is in the map that is not its own.
NoBufferLost ==
    /\ upset \cap {"duplicate", "alias", "outOfOrder", "copyReturned"} = {}
    /\ pc = "recv"
    => filling = {items[fast[t].slot].producerSequence : t \in DOMAIN fast}

\* With dumpBufs the thread that waits for a buffer (line 1323) waits for good,
\* for only it could give one back.  That happens in one case only: the buffers
\* that are not back are those of unfinished events in the fast map, there is
\* one, and none was FAST_STORE_MICROSEC old when the clock was last read, which
\* is after the get() of the new tick before (line 1328).  How old they are by
\* now is not known to the thread, so they may have been overdue for long.
WaitsForNoneOverdue ==
    /\ dumpBufs
    /\ upset \cap {"duplicate", "alias", "copyReturned"} = {}
    /\ pc \in {"get", "resurrect"}
    /\ claimed < MaxSeq
    /\ ~S!RoomFor(1)
    => LET missing == 0 .. claimed \ done
       IN  /\ missing # {}
           /\ \A s \in missing : \E t \in DOMAIN fast :
                 /\ items[fast[t].slot].producerSequence = s
                 /\ body[fast[t].slot].offsets # OffsetsOf(t)
                 /\ microSec - fast[t].time < FastStore

\* What rateThread prints adds up: an event that was begun is built, discarded
\* or still waiting.
StatsBalance ==
    /\ upset = {}
    /\ pc = "recv"
    => stats.opened = stats.built + stats.discarded
                      + Cardinality(DOMAIN fast) + Cardinality(DOMAIN slow)

\* packetBlasteeFullNewMP.cc:2094, "Grab a fully reassembled buffer from
\* Supplier": what threadReadBuffers gets is whole or marked as not valid.
ReadsWholeBuffers ==
    \A s \in S!Seqs :
        users[s] > 0 => LET item == body[S!Slot(s)]
                        IN  item.isValidData => Whole(item, item.eventNum)
=============================================================================
