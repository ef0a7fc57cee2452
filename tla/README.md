# TLA+ models of EJFAT's buffer supply, packet transport, simple API and programs

This directory holds TLA+ modules for the parts of the repository that carry its own logic, the TLC configurations
that check them, and TLAPS proofs about most of them. `PROJECT.json` lists every component, every run with its
properties, the source lines each definition stands for, the findings, the hazards and the theorems.

Run `tlc -config X.cfg M` for a run (module and configuration are in `PROJECT.json`) and `tlapm MProofs.tla` for the
proofs: `SupplierProofs`, `PacketStreamProofs`, `EjfatConsumerProofs`, `EjfatProducerProofs`, `BlasterProofs`,
`TieredProofs` are about the module they are named after, `ServerProofs` about `ServerRegistry` and `ServerSync`, and
`SumLemmas` is a library of theirs.

## 1. Inventory of the system

EJFAT moves *events* (byte buffers with a number, the *tick*) from data *sources* through a load balancer (LB) to
*consumers* (back ends). The control plane (CP) tells the LB how to distribute events; it hears from senders (sync
messages: last tick and rate) and from consumers (fill level of their queues).

| Component | State | Operations | Talks to |
|---|---|---|---|
| `util/Supplier.h`, `SupplyItem` | Disruptor ring, gate `sequence`, release bookkeeping (`lastSequenceReleased`, `maxSequence`, `between`), user counter per item | `get`, `getAsIs`, `publish`, `consumerGet`, `release`, `errorAlert`, `setUsers`, `addUsers` | any threads, through the items |
| `util/SupplierN.h`, `BufferSupply` | the same with several consumers, or for ByteBuffers | the same | the same |
| `simulation/ejfat_packetize.hpp` | locals of one call | cut an event into UDP packets, shrink the payload if the path refuses it | socket |
| `simulation/ejfat_assemble_ersap.hpp` | locals of one call, statistics | read packets of one source until an event is whole; dump unfinished ones | socket, caller's buffer |
| `simpleAPI/EjfatConsumer` | vectors of items, lock-free queue and its hand-kept size, running fill average | receive threads (one per source), `getEvent`, grpc thread, statistics thread | reassembly library, CP |
| `simpleAPI/EjfatProducer` | `tick`, array of items, lock-free queue | `sendEvent`, `addToSendQueue`, sending thread with callbacks, sync messages | packetizer, CP |
| `simpleAPI/EjfatServer` | map of CP clients; `ids`, `ticks`, `bufsSent` per source | thread for consumers' messages, forwarding thread, sync thread | serverConsumer, sources, LB, CP |
| `simpleAPI/serverConsumer`, `serverProducer` | as EjfatConsumer and EjfatProducer | the same through an EjfatServer | EjfatServer |
| `simulation/packetBlasteeFullNewMP.cc` | per source: a Supplier of BufferItems, a fast and a slow map of unfinished events | receive and reassemble (`threadAssemble`), read (`threadReadBuffers`) | Supplier, socket |
| `packetBlaster`, `clasBlaster`, `clasBlasterNTP`, `packetBlasterOld`, `packetBlasterSmall`, the Java sender | destination, sockets, pacing (`countDown`, `lastExcessTime`), totals shared with a printing thread | choose a destination, open sockets, send at a rate, sync messages, print rates | packetizer, CP |
| option parsing of 25 programs | settings | take options one by one, test them against each other, test the result | their `main` |
| other `simulation/`, `staticLB/`, `emulation/` programs | - | command-line receivers, LB emulation | libraries above |
| `util/ByteBuffer`, `ByteOrder`, `ejfatUtil.h`, `ejfat.hpp`, `simpleEjfat.h` | a buffer's position and limit | encoding, parsing of URIs and headers | all |

What is hard to get right here, and hard to test:

- releases by several threads in any order, with the count reached outside the mutex and recorded inside it;
- reuse of fixed items (ring, vector, array) while somebody still has a pointer to one;
- UDP: lost, reordered, duplicated packets; an event that stops in the middle; sources that share a socket;
- state shared by two threads without a lock (`tick`, `bufsSent`, `ids`, `queueSize`);
- lock-free queues whose size is counted beside them;
- the values at the edges: all-ones ticks, a full queue, an empty event, unsigned differences;
- messages that come before a registration or after its end;
- pacing by sleeps that are longer than asked, with the excess carried over;
- options that exclude or change each other, tested in the order in which they come.

What makes each component correct:

- *Supplier*: an item is not handed out while anybody uses it; what is released comes back, in whatever order.
- *packetizer and reassembly*: what is returned is one whole event, or an error; the statistics say what happened.
- *EjfatConsumer*: a queued event is intact; the reported level is that of the queue; restarts are recognised.
- *tiered reassembly*: built buffers are whole, unfinished events are found again, no buffer of the supply is lost.
- *EjfatProducer*: every accepted event is sent once and in order, and its callback follows.
- *sending programs*: the rate asked for is never exceeded by more than a batch (one option does, section 4); sync
  messages go to a known address and their rate is that of the last interval; a start-up that is accepted can be
  carried out.
- *EjfatServer*: a message acts on the consumer that sent it; sync messages tell the truth and are up to date.

The list `hazards` of `PROJECT.json` names each such place with its line and the properties that watch it.

## 2. Modules

### Supplier, ItemPool, SupplierPool (and SupplierProofs)

`util/Supplier.h` with `util/SupplyItem.cpp`. Variables are the members of the two classes (`items` holds the ring's
items), plus what the Disruptor library keeps (`claimed`, `cursor`) and what callers have in their hands: `filling`
(claimed, not yet published), `users` (references not yet given back), `freeing` (threads between the decrement and
the mutex), `done` (recorded releases).

- `Get`/`GetAsIs` claim one item or a batch; the single-item and the batch methods differ only in the number. In pool
  mode a claimed item has a user at once, in pipeline mode after `ConsumerGet`.
- `Publish`, `PublishBatch`, `ConsumerGet` (with its cached `availableConsumerSequence`), `ErrorAlert`.
- `SetUsers`, `AddUsers` as callers use them: `setUsers` before the item is shared, `addUsers` by somebody who has it.
- `release()` is two steps: `Release` (atomic decrement) and `RecordRelease` (under `supplyMutex`). With
  `orderedRelease` the counter is a `volatile int`, so its decrement is `ReleaseLoad` and `ReleaseStore` per thread.

External: `RoomFor` (Disruptor `next` waits for the gate) and `Published` (`waitFor`).

`ItemPool` is what the class comment of `Supplier.h` promises (lines 32-55), with no sequence, gate or counter: each
item has a state (`free`, `filling`, `offered`, `used`, `returned`), and `line` holds the items between the producer's
`get()` and the consumer's, in order. `SupplierPool` has the refinement mapping: the state of an item is read off the
sequences of its slot (`Filling`, `Offered`, `Used`, `Returned`), `line` off `nextConsumerSequence` and `claimed`, the
number of items taken (`taken`) off `claimed`. The number is there because a slot that is claimed while somebody has
its item is "used" before and after in pool mode: without it such a step would look like one that leaves the pool
alone, with it the step has to be a `Take`, of as many items, all of them free. An item is used until its release is
recorded, so one whose last decrement is lost stays used. `ImplementsPool` is the pool's specification under that
mapping: an item is taken only when it is free, that is when nobody has a reference left from its previous trips;
`consumerGet()` hands on the first item in line, and only when it is offered; one release returns one item, and only
items that were returned become free again, at once or later.

### PacketChannel, Packetize, Assemble, PacketStream (MCPacketStream, PacketStreamProofs)

`Packetize` has the seven send functions and `sendBuffer`; the variable `sender` says which one a source uses
(`SendFunctions`). They share a loop with one action per outcome of a turn (sent, refused as too big, failed,
finished) and differ in what is named for it: the new or the old header (which carries a packet number and first and
last marks instead of an offset), headers written in place over data already sent (the fast ones, `HeaderOver`), the
payload `sendBuffer` computes with the size of the other header (`HeaderGrowth`).

`Assemble` has the readers; `reader` says which one is in use (`Readers`). `Verdict` lists the tests of the loop of
`getCompletePacketizedBufferTime` in their order, with one action per verdict; `getCompleteAllocatedBuffer` is the
same with a buffer that is doubled; `getPacketizedBuffer` reads in stages and has its own three outcomes; `getBuffer`
opens a socket and calls one of the first two. `broken` is how a call may end the process: a division by zero or a
write past the buffer.

`PacketStream` joins sources and one receiver by the channel of `PacketChannel`, which may lose packets, duplicate up
to `MaxCopies` of them and deliver in order or in any order. The buffer holds, for each byte, the event whose data is
there, so a hole or a mixture shows. Data left out: statistics other than accepted bytes and packets, discarded and
dropped buffers; delays. A caller whose `getCompleteAllocatedBuffer` failed does not call it again, for its pointer
may have been freed.

### EjfatConsumer (MCConsumer, EjfatConsumerProofs)

Both consumer classes, from their constructors on; `setup` is one of the `Setups` of MCConsumer and says which class it
is, what its sources send and what may fail. `recvThreadFunc` is split where other threads can see it: begin a buffer,
parts arriving, push, count; a full queue dumps the event. `getEvent` is pop, then count. `Sample` is one turn of
`grpcThreadFunc` (`serverThreadFunc`) up to its report: the window of levels with its index and the running total. The
PID signal, with the times and errors it is computed from, is left out. `fill.age` and `fill.wasNegative` are
histories: how many samples ago a level was read, and whether one was negative. The statistics thread (`printer`)
zeroes the counters when data first arrive, copies them, tests for a restart and for a roll-over, and prints
differences; its copies are uninitialized at first, as in the code. The assembled event is what
`getCompleteAllocatedBuffer` leaves in the item. Ticks are unsigned with modulus `TickModulus`.

### EjfatProducer (EjfatProducerProofs)

Both producer classes (`class`), from their constructors on: `addToSendQueue` (fill the item, push or not), the sending
thread (pop, read the item, `sendEvent`, callback) and the user's blocking `sendEvent`, with the member `tick` written
and read by both at the steps where the code does so. A sync message only reads `tick` and tells the CP; nothing here
depends on it, so its content is left out. The user may add events at any time, as the header allows (a full queue
makes the call return false). With a full queue and the spare item in the thread's hands the next call fills that item,
which the thread may be reading: `ItemAsRead` is then the item or a mix of the two events. `crowded` is a history of
the places of the events that were in the thread's hands when `ArraySize` accepted events were under way and a call
came; the properties are about all others.

### Blaster (BlasterProofs)

The `main` of six sending programs as one thread (choose the destination, open the sockets, work out the batch, then
pause, send, count, announce, go on) with the printing thread beside it. The steps are shared and each program has its
own action for each of them, because the programs differ: which of `-direct`, `-uri`, `-file` and the default file
wins, whether a minimum of one buffer is kept, what the tick is, what ends the loop. Time is in units of which `Second`
make a second; `askedRate` and `inBuffers` say what rate was asked for and by which option, `microSecItShouldTake` what
the program makes of it. A send takes 1 to `MaxSend`, a sleep up to `MaxOversleep` too long. The totals are read and
written in two steps because neither thread holds a lock. `pauses`, `tStart`, `sent` and `sinceSync` are histories.

### CommandLine

Option parsing of 25 programs. A program is a table: its options, each with the kind of its argument and its limits,
and the checks between options, made when an option comes or after the loop. `Take` is one turn of the `getopt` loop
and `Finished` what follows it. Values tried are those at and beyond each limit, and junk. Printing of help ends the
program.

### ServerRegistry (ServerProofs)

The life of `serverConsumer`s as seen by the server and `EjfatServer::consumerThreadFunc`. The constructor of
`serverConsumer` starts its reporting thread before it registers, and the destructor deregisters while that thread may
still send one report; both are in the model. `key` stands for the locals `port` and `ipAddr`, which live across the
turns of the loop. CP sessions are numbered; the histories `reports` and `ended` say on which session the server acted
and for whom.

### ServerSync (ServerProofs)

`EjfatServer::sendThreadFunc` and `sendSyncFunc`. `bufsSent[srcId]++` is a load and a store. While a new id is being
inserted into the set that the sync thread walks (a data race), the iterator may skip ids; a crash in that race is
possible and not modelled. Packets of another version or protocol change nothing and are left out. `ServerProofs`
extends both modules of the server, so the standard names of this one are `SyncInit`, `SyncNext`, `SyncSpec`, ....

### TieredAssembly (TieredProofs)

`threadAssemble` and `threadReadBuffers` of `simulation/packetBlasteeFullNewMP.cc` for one source, joined by a supply:
`S == INSTANCE Supplier` in pipeline mode shares its variables with this module. `fast` and `slow` stand for the tick
map and the time map of a tier, which always have the same keys; `bufItem` is a reference to a slot of the ring or to
a copy, since which of the two it is decides what goes wrong. The work on a packet is split at the calls of the supply
(`pc`): look-up, `get` with `reset`, limit of the fast map, storing, handing on, then the two time-out loops.
`microSec` moves only where the code reads the clock, when an event begins. A release is one step, because either only
`threadAssemble` releases (`dumpBufs`) or only `threadReadBuffers` does. An event is one packet or `Offsets`, of one
unit each, so `userLong`, `userInt` and the number of offsets agree; the memory of a buffer says which event's data is
where. `upset` is a history of the things that the properties have to exclude (section 4).

## 3. Runs

Each run asks one question of one component; runs that would differ only in a switch are merged where the switches can
be on together.

| Run | What happens in it | Properties |
|---|---|---|
| SupplierPipeline | ring of 4, batches of 2, up to 2 users per item, release in any order, an alert at any time | SupplierInv, NoReuseWhileInUse, GateIsReleasedPrefix, AllReturnedFreesRing, ImplementsPool, GateMonotone, EventuallyFreed |
| SupplierOrdered | the pool without a consumer, with `orderedRelease`, two threads that may overwrite each other's decrement, and up to 3 users per item | ImplementsPool |
| StreamReorder | two sources, three readers; packets in any order, lost, one of them duplicated; send and receive failures; an event too big for the buffer and an empty one | DividesOnlyByData, ReturnsEntireBuffer, StatsMatchReturns, StartsWithFirstPacket |
| StreamInOrder | every send function with every reader; a path that refuses the first payload sizes; gaps in the ticks; a tick equal to the initial `prevTick` | SentPacketsTile, InOrderIsComplete, DroppedEstimateExact, EventuallyAll |
| Consumer | both classes in five set-ups: two sources that fill the queue; one source that goes round its vector twice, with two numbers, while events are taken, held and dumped; ticks in any order, sizes that make buffers grow, failures and the destructor; frequent printing with a restart; joint printing | IntactUntilLapped, NumberIsTheEvents, QueueSizeTracks, NoRestartWhileRising, ReportedFromWindow, PrintedOnce |
| ProducerQueue | both classes; queue of 2, 5 calls made at any time, so that the queue is full with the spare item in the thread's hands; an empty event, blocking sends, failures, destructor | SentAsAccepted, CallbackAfterSend, EventuallyCalled |
| ServerRegistry | two consumers that come and go within 5 messages, loss, any order, CP errors | NewestSessionServes, ReportsFromOwner |
| ServerSync | two sources, 3 packets with ticks in any order, send errors, destructor | AnnouncedWasForwarded, SyncCatchesUp |
| TieredStream | five events of one or two packets, in any order, lost or one duplicated; ring of 4, two events in the fast map, one in the slow map, time-outs of both maps, a restart of the source, `dumpBufs` on and off | BuiltIsWhole, TiersOrdered, NoBufferLost, WaitsForNoneOverdue, StatsBalance |
| Blaster | six programs, rates, sizes and sockets of two kinds each, sends and sleeps of any length up to the bounds, 5 buffers | NoDrift, NeverTooFast, SyncHasAddress, AnnouncedRateFair |
| CommandLine | 25 programs, what each of them needs and any two more options | OrderIrrelevant, SettingsFitMain |

Every other property says what the code promises with its condition: ReturnsEntireBuffer and StatsMatchReturns hold
while no packet was duplicated, StartsWithFirstPacket for ticks other than the all-ones value the receiver starts from;
DividesOnlyByData allows the division for an event without data, EventuallyAll asks for every event unless the old
headers are sent, which these readers do not read, or `getBuffer` is used, which hears the first event only (section
4); NoRestartWhileRising and PrintedOnce stop where a source restarts or the counters roll over; OrderIrrelevant
excludes the two options of section 4; IntactUntilLapped until the receiving thread has gone round its vector;
ReportedFromWindow says that the total is the sum of the samples if none was negative, and otherwise that it is no
less; SentAsAccepted and CallbackAfterSend are about every event but the crowded ones, EventuallyCalled about the
number of callbacks, while the producer lives; NeverTooFast compares with the rate of the option, unless `-bufrate` is
given with buffers that are longer than what is sent at once (section 4), and allows a tick of the clock for each
batch, whose time is rounded down. In TieredAssembly the conditions are on `upset`: BuiltIsWhole and NoBufferLost hold
while no packet was duplicated, no packet came for an event that had timed out, buffers were published in the order of
their claims and no copy was given to the supply; WaitsForNoneOverdue under the same, for `dumpBufs`, where nothing is
published (it is about what the thread knew when it began to wait: the wait does not end, and may begin when the event
is long overdue by a clock nobody has read, section 4); StatsBalance if the source did not restart either; TiersOrdered
until it restarts. That a copy given to the supply breaks the first two takes a larger ring than the run's: with eight
buffers and three events in the fast map the gate then passes a buffer that is still being filled.

One run checks a sentence of the repository that the code does not keep (the finding of `PROJECT.json`):

| Run | What TLC shows |
|---|---|
| TieredPublish | events that mix are published in the order in which they are finished, and the reader is given one that is not |

### Bounds and why they are enough

- *Supplier*: reuse needs a slot to be claimed a second time while a release of the first trip is pending, with a
  release of a later sequence recorded before an earlier one, and one in the middle; four slots and six sequences have
  all of these. With `orderedRelease` two threads are enough for one to overwrite what the other has written, and three
  users for two of them to be left when it happens; the counter is bounded by `MaxUsers` too, because a lost decrement
  would let `addUsers` raise it for ever. Of any size there is the proof.
- *PacketStream*: an event of one, two, three or five packets, two ticks and two sources are what the tests of the
  loop tell apart (same or new tick, same or other source, first or later packet, fits or not). Two packets on the way
  (`MaxInFlight`) are enough for one to be overtaken by any number of others. StreamReorder has one send function and
  three readers, because over such a path the packets of all functions with the new header are the same; all of them
  meet all readers in StreamInOrder. `UintMax` is set to a tick that is sent, which is what a sender may do.
- *EjfatConsumer, EjfatProducer*: the vector or array is one longer than the queue (as 1024 is to 1023), so a queue of
  two and four or five events go round it; six events of one source go round a vector of three twice, so that an item
  is written again with another number while the event it held was taken, is held or was overtaken; `RestartGap` 4 and
  modulus 16 keep the order of 0, 1000 and 2^64; `Fcount` 2, `LoopMax` 2 and `RollLimit` 3 let the window move, a
  report be due and a counter roll over; three printouts are the zeroing, a first one and one that takes differences.
- *Blaster*: a batch holds one buffer, two, or (without the minimum) none, a send is shorter or longer than its share
  of the batch, and five buffers make at least two pauses and two announcements; of the two rates one divides a second
  and the other does not, so that the time of a batch is exact or rounded down. `LoopModulus` 4 lets the repeats wrap.
- *CommandLine*: every check involves at most two options beside what a program needs.
- *ServerRegistry, ServerSync*: two consumers or sources are needed for one to be taken for the other; five messages
  are enough for one to register, leave and come back while another acts; three packets let a tick change twice.
- *TieredAssembly*: events 1 and 2 have two packets, 11, 12 and 13 one. With two events in the fast map and one in the
  slow map a third event pushes one into the slow map and the next deletes it; the ring of four is full when the fifth
  event comes behind an unfinished one; `RestartGap` 5 gives neighbours and a restart; one step of the clock is enough
  for either time-out. A packet is duplicated only with `dumpBufs`: without it most properties exclude duplicates
  anyway, and the reader's steps multiply the states. In TieredPublish two events suffice.

Named bounds (`MaxSeq`, `MaxBatch`, `MaxUsers`, `MaxInFlight`, `MaxCopies`, `MaxCopiesRead`, `MaxEvents`, `MaxMsgs`,
`MaxPackets`, `MaxTime`, `MaxSend`, `MaxOversleep`, `MaxBufs`, `MaxOptions`, and the `maxEvents` and `maxPrints` of a
set-up) stand in the guards; the modules have an action for the end of a bounded history so that deadlock is checked,
except in Blaster and CommandLine, whose programs end, and in SupplierOrdered, where a lost decrement stops the supply
for good (section 4).

### Fairness

Weak fairness of the steps of a thread that loops or waits for a mutex (the operating system schedules every runnable
thread), of the producer's claims in Supplier, and of users releasing what they hold, which is the contract of
`release()`; and that users are not added to one item for ever. Sending and receiving are fair in `PacketStream`;
loss, duplication and failures never are. In `ServerSync` nothing makes packets arrive and nothing stops them.

## 4. Disagreements seen while modelling, without a run

Each of these was seen as a counterexample of an earlier form of a module, or read off the code, and is kept here for
whoever maintains it. The properties above are stated so that they hold beside them.

- `addUsers()` on an item for which `setUsers()` was not called sets the counter and not the flag that makes
  `release()` look at it (`SupplyItem.cpp:232`, 235); the first release frees the item while others have it (against
  `Supplier.h:46`).
- `orderedRelease` (`Supplier.h:152`): the counter is then a `volatile int` (`SupplyItem.cpp:115`); two users of one
  item that release at the same time lose a decrement, and the item never comes back. It is never freed too early
  (OrderedInvariant).
- Reassembly: packets out of order within a tick lose the event unless offset 0 comes first
  (`ejfat_assemble_ersap.hpp:771`, 915); a duplicated packet is counted twice, so a buffer with a hole is returned as
  whole (981, against 769); an empty event, which the packetizer sends (`ejfat_packetize.hpp:850`), makes the receiver
  divide by zero (875).
- Other readers: `getCompleteAllocatedBuffer` doubles its buffer once (`ejfat_assemble_ersap.hpp:1329`), so a packet
  that overtakes others in a long event may be written past its end, although the buffer is "guaranteed to fit all
  reassembled data" (1079); after an error the caller's pointer may have been freed. `getBuffer` ignores a failed
  `bind` (1651) and never closes its socket, so a second call in one process hears nothing. Readers know the new
  header only.
- Packetizer: `sendBuffer` computes the payload with `HEADER_BYTES_OLD` (`ejfat_packetize.hpp:1494`) and sends the
  longer new header, so that a first packet of full size is refused and shrunk by a fifth.
- EjfatConsumer: with a full queue, the event a user was given is overwritten after `QSIZE` more events although the
  user did not call `getEvent()` again (`EjfatConsumer.cpp:1042`, 1137); the number returned is always 0 (1164, 1146),
  for `item->tick` is set in serverConsumer only, and the size returned is that of the buffer; an event slightly out of
  order is taken for a restart of its source, because the difference is unsigned (1069); the total time and the old PID
  value are of `fcount - 1` periods ago, because `earliestIndex` is one ahead of `currentIndex` (791, 839-845), while
  the comments say "last fcount periods" (836) and "error from 1 sec ago" (779) and the time is compared with
  `sampleTime * fcount` (801, 843); what is kept in `oldPidErrors` is the output of the PID and not an error (876); the
  running total falls below 0 only if a sample is negative, which happens when an event is taken and counted before its
  push is (1044, 1160), and not, as the comment at 860 says, when the fill level drops quickly; once it was set to 0
  then, it is no longer the sum of the last samples but may stay above it; with `fcount` 1 `earliestIndex` starts
  outside the vector; `restartTime` is one for all sources; a restart between the test and the copy of the counters
  prints negative values, and one that overtakes the old count before the next look is not seen. serverConsumer does
  not look at failed sends of its messages.
- EjfatProducer: `addToSendQueue` fills the current item before it knows whether the queue takes it
  (`EjfatProducer.cpp:815`); with `ArraySize` events under way, the queue full and one in the thread's hands, that item
  is the thread's, and a call, even one that is then accepted because the thread has taken the next event meanwhile,
  replaces the event or the callback the thread is about, or mixes the two: the event is lost or another sent twice,
  and a callback is lost or run twice, against the comment that the array is one longer so that the caller always has
  an unused item (`EjfatProducer.h:208`); a user who waits for callbacks before there are as many events as items never
  meets it; an event may go out under the number given for the next one, since the packets carry the member and not the
  argument (669, against 801); numbers given by the producer itself do not rise (630, 660, against 648); a too large
  mtu is corrected in the argument and not in the member; the constructor from a URI leaves `delayCounter` unset; a
  sync message may name an event that is still queued (729, 587).
- EjfatServer: what is counted between the sync thread's read and its reset is lost, or counted twice
  (`EjfatServer.cpp:859`, `EjfatServer.h:85`); DEREGISTER is not parsed, so it ends the session of
  whoever sent the message before it (597, against 601); the entry stays in the map, so a late report is still served.
- Tiered reassembly (`packetBlasteeFullNewMP.cc`): a duplicate of another event's packet leaves `bufItem` at that event
  and `prevTick` where it was, so that the next packet of `prevTick` is put into the wrong buffer (1401); on a time-out
  the slow map gets the pointer and not a copy (1504, against 1503 and 1144), so late packets are written into a buffer
  that was given back; an event of the slow map that is finished by the second of two packets in a row is handed on as
  one of the fast map (1200, 1475): its copy, with an old sequence, goes to the supply and the event stays in the slow
  map; after a restart `largestSlowTick` keeps its value (1282), so packets of events begun since then are ignored
  unless they come in a row; if more events than the ring holds are finished behind an unfinished one before that one
  is discarded, the thread waits for itself (1323) and for good; the comment at line 115 warns of it for the 2 ms of
  `FAST_STORE_MICROSEC`, but the age of an event is taken against a clock that is read after the wait (1328), and the
  maps are gone through only after the packet is dealt with (1489): after a pause in the data the thread waits on an
  event that is seconds old.
- Sending programs: a batch of `-bufrate` is timed as 500000 bytes whatever it holds (`packetBlaster.cc:974`,
  1011-1018, and the same in `packetBlasterOld.cc`, `clasBlaster.cc` and `clasBlasterNTP.cc`), so with longer buffers
  the rate asked for (`packetBlaster.cc:93`) is exceeded without bound, and with buffers that do not divide 500000 it
  is not reached; `clasBlaster` keeps no minimum of one buffer, divides by zero for a file of one event, lets
  `/tmp/ejfat_uri` override `-direct` and counts events, not cycles, for `-r` (`clasBlaster.cc:74`); `clasBlasterNTP`
  adds a difference in seconds as nanoseconds and its first event has tick 0; `packetBlasterSmall` never counts
  packets, so its thread never prints; a total that the printing thread sets to 0 may be written back by `main`. The
  Java sender calls `Instant.now()` without keeping it (`Clas12DataSender.java:552`), so the difference is always 0 and
  the message of 563 is never sent; `-direct` always ends it, and its delay is in milliseconds though said to be in
  microseconds.
- Options: `udp_rcv_order` stores a too small `-b` as the port (`udp_rcv_order.cc:95`); `packetBlaster` accepts a
  `-bufrate` of 0 or less; `simpleSender` and `simpleServerSender` accept the id 65536, which wraps to 0; tests of the
  form `strlen() < 0` never fire.

## 5. Proofs

Every theorem holds for every value of the constants that the named assumptions of its module allow: any ring or queue
size, any number of sources, users, threads, events and messages, any bound on a history. The assumptions are those
the code justifies: a ring size is a power of two and a batch fits into the ring (`Supplier`); a source has events to
send, of a length that is a natural number, and payload sizes are positive (`PacketChannel`, `Packetize`); a queue has
room for one event (`EjfatConsumer`); a second has a positive number of time units (`Blaster`); the store times and
the sizes of the maps are positive and the fast map is smaller than the ring (`TieredAssembly`). TLC evaluates them on
every run.

| Module | Theorem | Property | For all |
|---|---|---|---|
| SupplierProofs | TypeCorrect | TypeOK | modes (TypeOK is proved only, here and below: no run checks it) |
| | SupplierInvariant | SupplierInv | both modes, releases in any order |
| | OrderedInvariant | OrderedInv (proved only) | both modes, `orderedRelease`, threads that release at the same time |
| | NoReuse, GatePrefix, RingIsFreed | NoReuseWhileInUse, GateIsReleasedPrefix, AllReturnedFreesRing | both modes, both ways of releasing |
| | GateForward | GateMonotone | the same |
| | SupplierIsPool | ImplementsPool | the same |
| PacketStreamProofs | SentTile | SentPacketsTile | send functions, paths, failures of send() |
| | DivisionNeedsEmptyEvent | DividesOnlyByData | readers and send functions, losses, reordering, duplicates |
| | WholeEventReturned | ReturnsEntireBuffer | the same, while no packet is doubled |
| | BeginsWithFirst | StartsWithFirstPacket | the same, with duplicates |
| | StatsExact | StatsMatchReturns | the same, while no packet is doubled |
| | InOrderComplete | InOrderIsComplete | readers and send functions on a path in order (`InOrderPath`) |
| | EstimateExact | DroppedEstimateExact | the same, where the expected tick is known |
| EjfatConsumerProofs | EventsIntact | IntactUntilLapped | queue sizes, sources, users, both classes |
| | NumberRight | NumberIsTheEvents | the same |
| | CountTracks | QueueSizeTracks | the same |
| | NoRestart | NoRestartWhileRising | moduli and gaps of ticks |
| | WindowReported | ReportedFromWindow | lengths of the window, samples of a racing queue size, negative ones included |
| | PrintsOnce | PrintedOnce | sources, interleavings of receiving and printing, uninitialized first copies |
| EjfatProducerProofs | AcceptedAreSent, CallbacksFollow | SentAsAccepted, CallbackAfterSend | queue sizes, calls at any time, both classes, failures, blocking calls in between |
| BlasterProofs | Drift | NoDrift | programs, rates, sizes, lengths of sends and sleeps |
| | TooFastNever | NeverTooFast | the same; not `-bufrate` with long buffers |
| | SyncAddressed | SyncHasAddress | options and files |
| | RateFair | AnnouncedRateFair | intervals and lengths of sends |
| ServerProofs | TypeCorrect | TypeOK | consumers, losses, reordering, repeats |
| | NewestServes, ReportsOwn | NewestSessionServes, ReportsFromOwner | the same |
| | SyncTypeCorrect | SyncTypeOK | sources and packets |
| | AnnouncedForwarded | AnnouncedWasForwarded | the same |
| TieredProofs | TieredOrder | TiersOrdered | events, packets of an event, sizes of ring and maps, store times, `dumpBufs`, losses, reordering |
| | TieredWhole, TieredReturns | BuiltIsWhole, NoBufferLost | the same |
| | TieredWaits | WaitsForNoneOverdue | the same |
| | TieredBalance | StatsBalance | the same |

### Supplier

All but the type theorem are about users that do not call `addUsers()` on an item without `setUsers()`
(`AddToSingleUser = FALSE`); section 4 says why. Each of the two ways of releasing has an inductive invariant of its
own; `PoolFacts` is what both imply, and the properties follow from it (RingIsFreed from the invariants), so that they
hold for either.

*Releases in any order.* NoReuse is not inductive: that a slot is free follows from the gate being past its last
sequence, that from every sequence up to the gate having been released, and that from the arithmetic of `between`.
`SupplierInv` adds what is needed, in named parts: `GateInv` (order of gate, maximum and claims; the claims stay
within a ring of the gate; the gate is not left behind), `ReleasedInv` (what is released), `BetweenCounts` (`between`
is the number of released sequences strictly between gate and maximum), `ProgressInv` (producer and consumer),
`LifecycleInv` (handed out, in use, being freed, released: one at a time), `ItemInv` (the item of an unreleased
sequence names it and counts its users), `SpentInv` (an unused slot's counter is off or used up, so `getAsIs` starts
with one user) and `NoLoadsInv`.

The central lemma is `FullMiddle`: a set of sequences strictly between two bounds with as many members as there are
numbers between them is all of them; with `CountingStep`, which follows `between` through one release, it gives that
the gate moves exactly over released sequences. `SlotsDiffer` (two sequences less than a ring apart have different
slots) gives that an update of one slot leaves the other live items alone.

*orderedRelease.* `OrderedInv` holds for any number of threads, although two of them may read the same counter and the
later one overwrite what the earlier has written. What makes it inductive is `Owed`, the decrements the counter of an
item has still to see: the users that have not begun to release it and the threads that have read it and not yet
written. A counter that counts is never below what it is owed (`OrderedItem`), nor is the value a thread has read
(`OrderedLoads`) unless it is the last. So a thread that finds no user left is the last one; a lost decrement only
leaves the counter too high, and the item is kept for ever. Since callers release in order, only the sequence after
the gate is ever being released (`OrderedLifecycle`), and the gate is the last one released (`OrderedGate`).
`LoadsFinite`, that of any number of threads finitely many are decrementing, is proved apart: the cardinality in
`Owed` needs it.

*The pool.* SupplierIsPool is a step simulation. `OnlyLive` and `LiveApart` show that a slot holds at most one *live*
sequence (claimed and not behind the gate), so that the state of an item is the phase of its live sequence, or `free`
if there is none (`Located`). One lemma per action then shows which items move: `ClaimTakes` (with a ring's length
between gate and claims, the slots claimed have no live sequence, and there are as many as sequences), `PublishOffers`,
`ConsumerReceives` (the head of the line), `RecordReturns` (what the gate passes has been returned), and `NothingMoves`
for the others, which leave the pool as it is: `setUsers`, `addUsers`, an alert, and a release before its record. It
uses TypeCorrect and `PoolFacts` in the state before and after the step.

### PacketStream

The sending side is `SendInv`: for every source and every tick, the packets sent so far are a tiling of the first
bytes of the event (`Tiles`), all of it for a finished event unless send() may fail; for the event under way `Midway`
ties the tiling to the locals of the call (`localOffset`, `remainingBytes`, the first and last marks), and for the old
header `Numbered` says that the number of a packet is that of the packets before it. `Tiles` is about a set of
packets, so the lemma `TilesGrow` (a tiling and the packet that begins where it ends) does the work of a turn of the
loop; a payload that is shrunk in between changes nothing in it.

The receiving side joins the two. `NetFromSent` (what is on the way was sent) gives DivisionNeedsEmptyEvent at once.
WholeEventReturned counts bytes, and a count says nothing about a buffer by itself. `PathInv` has what makes it do so:
every byte of an event is in one packet (`SentOnce`, from the tiling), so two packets on the way have no byte in
common (`OnceOnTheWay`), and no packet on the way has a byte that is already in the buffer (`NotReadYet`). `CallInv`
then says that a call has counted at most as many bytes of its event as the buffer holds (`CountsBytes`), so that a
count equal to the length of the event fills it; for `getPacketizedBuffer`, which wants its packets in order, the
buffer is filled up to the next offset (`PartsFollow`). BeginsWithFirst needs only `Starts`: a tick that is not being
dumped has begun with offset 0.

StatsExact says that the bytes and packets a reader adds to its statistics are those of the events it returned. It
needs `ReturnInv`: an event that was returned is *spent* (every byte of it has been sent and no packet of it is on the
way), so no event is returned and counted twice, and the statistics are a sum over the set of returned events and the
one whose result the caller has not taken yet (`Pending`). The sum is a fold; `SumLemmas` gives what the proof needs
of it.

InOrderComplete and EstimateExact are about a path on which nothing goes wrong. `InOrderPath` says what that is: one
source, no loss, no reordering, no copies, no failed call, events that are not empty, a fixed buffer that holds the
event, and packets that fit the receiver's (`PathLimit <= JumboBytes`); the configuration of run StreamInOrder
satisfies it. `InOrderInv` describes the whole content of the path in terms of *places* (a tick and the bytes of its
event before the place): the packets on the way follow one another in their places (`NetInOrder`), the source goes on
where the last one ends (`SourceInOrder`), and the first one is where the reader has got to (`CallInOrder`, `Takes`).
So every verdict but "next part" and "whole" is excluded, ticks are returned in order without a gap (`Increasing`),
nothing is discarded (`Clean`) and the estimate of dropped events is the number of ticks skipped by the source
(`Estimated`).

### EjfatConsumer

An item of the vector is addressed by a remainder, and an entry of the queue keeps the number of the push it stands
for. `QueueInv` says where entries can be: an item's place is the remainder of its number (`Good`, `Current`), and at
most the pushes behind it on the queue came after an entry (`LastPushes`), so that fewer than a vector's length lie
between an entry and the thread; the lemmas `RemainderUnique` and `PlacesDiffer` (two numbers with one remainder
differ by a vector's length or not at all) then keep the thread's current item away from it. CountTracks uses the same
invariant and follows the sets of threads between the two steps (`Uncounted`, `Taking`) with the cardinality lemmas of
the library. NoRestart has its own, `RisingInv`: once an event was queued a thread knows the tick before it, which is
not above the new one.

WindowReported needs the age of every sample: `WindowInv` says that the sample at an index was taken as many turns ago
as the index is behind the current one in the circle (`Back`), so that the window holds each of the last `fcount`
samples once, and that the running total is at least the sum over it (`SumLemmas` again), and more only once it was
kept from going below zero, which takes a negative sample. PrintsOnce telescopes: `PrintInv` bounds the counters by
what the threads have done so far (`CountersBounded`), says that nothing of a source is printed before its first
interval is over and its counters start over (`Skipping`), and that from then on the sum of what was printed is the
copy it was read from (`Telescopes`).

### EjfatProducer

Nothing is assumed about the user. `ProducerInv` numbers the events by their place in `accepted`: those whose callbacks
were run come first (`CalledInOrder`), then the one the thread has in hand, whose place is `Turn` (`Taken`), then those
on the queue (`Queued`), and the n-th of them is in the item with the remainder of n (`Filled`), unless n is in
`crowded`. The item filled next is that of the number after the last. It can be the thread's only if `ArraySize` events
are under way, and then the event in hand is crowded; it is never one of a queued event, because the queue is shorter
than the array (`PlacesDiffer`, `NextIsFree`). A mix is read only from such an item (`InItem`). What was sent is told
by the turn at which it was sent (`SentInOrder`), and order and completeness follow. When the process has ended only
the histories are left, and they do not change (`Ending`).

### Blaster

NoDrift is nearly inductive; with it go `NothingSaved` (no time is ever kept for later, so the clock is past what the
pauses account for), `Budget` (what was sent, is being sent and is left of the batch fits the batches begun), and
`RateKept` (the time of a batch and a tick is enough for its bytes at the rate asked for, unless `-bufrate` was given
with long buffers). The three give NeverTooFast by the arithmetic lemma `AheadByABatch`. The products are nonlinear, so
each has a lemma over natural numbers. SyncHasAddress rests on `SyncReady`, which says for each way of choosing a
destination at which step the address is known; AnnouncedRateFair on `CountsAgree`.

### ServerRegistry and ServerSync

`Inv` of ServerRegistry adds to the two properties that sessions are numbered in the order they were opened
(`SessionsNumbered`) and that a client object in the map belongs to the key it is filed under (`ClientsOwnSessions`).
In ServerSync a tick is announced from a local variable, read from the map, written from the forwarded packet: one
invariant for each hand (`ReadForwarded`, `MapForwarded`, `SentForwarded`).

### TieredAssembly

TieredOrder needs only that the tick which gets a buffer is the highest of all (`TierInv`).

The other theorems are about states in which none of the things of section 4 has happened (`Clean`), and rest on
`Clean => Sound`. `Sound` joins the supply and the maps:

- `RingInv` is about the supply. `FillingInv` says whose buffers are out: with `dumpBufs` every sequence that is
  claimed and not released is being filled by the thread; otherwise what is behind the cursor is with the reader. It is
  kept by the three things that happen to the ring here, each of which is a lemma: `RingGet`, `RingHandBack` (a release,
  or a publication that is in order because of `Clean`) and `RingRead`.
- `OneEach`: the buffers being filled are those of the fast map, one for each event, and the one that a copy of the slow
  map was just read into. This is NoBufferLost between any two steps.
- `Highest` and `Begun`: ticks and starting times rise together, so that the oldest entry of the fast map is the one
  to move, and between packets none is overdue. `Recent` then gives WaitsForNoneOverdue, with the counting lemma
  `SomeMissing` for the buffer that must be out.
- `Linked`: `bufItem` is the buffer of the packet's event, and between packets `prevBufItem` that of `prevTick` unless
  all packets of that event have come. Each of the ways to a buffer (same tick as before, fast map, slow map, new) has
  to give it.
- `Contents` and `Arrived`: the memory and the offsets of a buffer are those of the packets of its tick that came, and
  no packet on the way has one of them, so a buffer with all offsets is whole.

One lemma per action shows that it keeps `Sound` if the state after it is `Clean`; moving an event to the slow map,
and the ends of the two time-outs, share lemmas on an entry that leaves a map (`TakeOut`, `MoveOut`). TieredBalance
adds `Counted`, which counts an event from the step that built it until it has left its map (`Leaving`).
`BuiltIsWhole` is far from inductive; the invariant was found by checking it with TLC on several sizes of ring and
maps, which showed that the condition about copies given to the supply is needed.

### Only model-checked

- Liveness (EventuallyFreed, EventuallyAll, EventuallyCalled, SyncCatchesUp): outside the prover's reach.
- OrderIrrelevant and SettingsFitMain of CommandLine: the programs are 25 tables, and what a run of the `getopt` loop
  leaves is a fold over the sequence of options, so each needs an induction over sequences and a walk through every
  table. TLC tries the finitely many orders.
- ReadsWholeBuffers of TieredAssembly: it does not hold (run TieredPublish).

## 6. Plan

The order is by importance. Done: Supplier with its proofs and the pool it implements, the packet stream with every
send function and reader, both consumer and both producer classes, EjfatServer, the tiered reassembly on top of
Supplier, the sending programs, the option parsing of all programs; proofs about all of these but the options.

1. SupplierN and BufferSupply, on the operators of Supplier.
2. An abstract event queue which the consumers and producers implement while their users keep the rules.
3. ByteBuffer; encoding and parsing of headers, of consumer messages and of URIs against a reference definition.
4. The loops of the other receiving programs (`threadAssembleGood`, `packetBlasteeFastMP`, the ET fifo programs).

## 7. Not modelled

- The PID signal and the times and errors it is computed from, core affinity, formatting of printouts, the NTP query.
- The Disruptor, boost lock-free queues, gRPC, HIPO and ET libraries: external, modelled by what the code relies on.
- The remote calls of `lbreserve`, `lbfree`, ... and the loops of the example programs (one call each), the receivers in
  `staticLB/`, the programs in `emulation/`, the options of the Java sender.

Seen while reading and outside the modules: Supplier's constructor does not set the member `ringSize`, so
`getRingSize()` is 0; the programs that receive from several sources do not test that base port plus source is a port;
EjfatConsumer's constructor sets `Kd` from `Kp` (line 155); `~EjfatConsumer` calls `LbClient->Deregister()` in direct
mode too, where there is no client; the threads of the simple API are neither joined nor detached, so destroying one
of its objects ends the process. In `packetBlasteeFullNewMP.cc` a source's port is the base port plus its index plus
its id (2426, 1002), not base plus id (29).
