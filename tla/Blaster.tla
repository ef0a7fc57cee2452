------------------------------ MODULE Blaster ------------------------------
(***************************************************************************)
(* The sending programs: packetBlaster, clasBlaster, clasBlasterNTP,       *)
(* packetBlasterOld, packetBlasterSmall and the Java Clas12DataSender.     *)
(* Each learns where to send, opens its sockets, works out how to hold the *)
(* rate it was asked for, and then sends buffer after buffer, telling the  *)
(* control plane once a second how far it is.  A second thread prints      *)
(* rates from totals that both threads write.                              *)
(*                                                                         *)
(* The sending loop is one thread; its steps are: pause, send, count,      *)
(* announce, go on.  Time is a number of ticks of the clock; a send takes  *)
(* at least one.  A socket is opened or it is not: address families and    *)
(* connect or not make no other difference to what follows.                *)
(***************************************************************************)
EXTENDS Integers

CONSTANTS
    Programs,      \* the programs to look at
    Second,        \* clock ticks of a second
    BytesAtOnce,   \* bytes of a batch, 500000 in the code
    SocketBytes,   \* bytes after which packetBlaster takes the next socket
    BufSizes,      \* sizes of the buffers
    Rates,         \* rates that may be asked for, per second
    SockCounts,    \* numbers of data sockets that may be asked for
    Repeats,       \* values of -r
    LoopModulus,   \* 2^32: the repeats are counted down in a uint32_t
    SmallCount,    \* buffers packetBlasterSmall sends, 40 in the code
    DelayPrescale, \* buffers between two delays
    MaxSend,       \* bound: ticks a send takes
    MaxOversleep,  \* bound: ticks a sleep may be longer than asked
    MaxBufs        \* bound: buffers sent

ASSUME SecondAssumption == Second \in Nat \ {0}
ASSUME BytesAssumption ==
    /\ BytesAtOnce \in Nat \ {0}
    /\ BufSizes \subseteq Nat \ {0}
    /\ Rates \subseteq Nat \ {0}
    /\ LoopModulus \in Nat \ {0} /\ DelayPrescale \in Nat \ {0}
    /\ SockCounts \subseteq Nat \ {0} /\ Repeats \subseteq 0..LoopModulus - 1
ASSUME BoundAssumption == MaxSend \in Nat \ {0} /\ MaxOversleep \in Nat

VARIABLES
    prog,        \* the program
    pc,          \* what its main thread does next
    asked,       \* -direct was given
    dest,        \* "none", "direct" or "lb": where the data go
    haveSync,    \* an address for synchronisation messages is known
    syncOpen,    \* the socket for them is open
    sockCount,   \* data sockets wanted
    sockets,     \* data sockets opened
    bufSize,     \* size of a buffer, an average where they are read from a file
    paced,       \* a rate was asked for
    inBuffers,   \* ... in buffers and not in bytes
    askedRate,   \* it, in bytes of a second
    microSecItShouldTake, buffersAtOnce, countDown, lastExcessTime,
    t1,          \* when the batch started
    now,         \* the clock
    tick,        \* event number
    bufsSent,    \* buffers since the last announcement
    startTime,   \* of the interval announced next
    announced,   \* the last message to the control plane, or the empty one
    portIndex, byteCounterPerSock,
    loops,       \* buffers left to send
    delay, delayCounter,     \* a delay was asked for, buffers until the next
    reg,         \* total as read by the main thread before it adds to it
    total,       \* totalPackets, of both threads
    spc, prev, skipFirst,    \* the printing thread
    counted,     \* what it printed last: packets of an interval
    tStart, pauses, sent, sinceSync   \* history: start and work of the loop

main   == <<pc, now>>
setup  == <<prog, asked, dest, haveSync, syncOpen, sockCount, sockets, bufSize>>
rate   == <<paced, inBuffers, askedRate, microSecItShouldTake, buffersAtOnce, tStart>>
pace   == <<countDown, lastExcessTime, t1, pauses>>
event  == <<tick, sent, bufsSent, sinceSync>>
sync   == <<startTime, announced>>
next   == <<portIndex, byteCounterPerSock, loops, delay, delayCounter>>
stats  == <<spc, prev, skipFirst, counted>>
vars   == <<main, setup, rate, pace, event, sync, next, reg, total, stats>>

Nothing == [tick |-> -1, rate |-> 0, time |-> 0, real |-> 0, took |-> Second]

\* The programs that read their events from a file, and those sending only LB
\* headers or knowing no control plane.
FromFile == {"clasBlaster", "clasBlasterNTP", "Clas12DataSender"}

Init ==
    /\ prog \in Programs /\ pc = "address"
    /\ asked = FALSE /\ dest = "none" /\ haveSync = FALSE /\ syncOpen = FALSE
    /\ sockCount = 1 /\ sockets = 0 /\ bufSize = 1
    /\ paced = FALSE /\ inBuffers = FALSE /\ askedRate = 0
    /\ microSecItShouldTake = 0 /\ buffersAtOnce = 0
    /\ countDown = 0 /\ lastExcessTime = 0 /\ t1 = 0 /\ pauses = 0 /\ tStart = 0
    /\ now = 0 /\ tick = 0 /\ bufsSent = 0 /\ startTime = 0 /\ announced = Nothing
    /\ portIndex = 0 /\ byteCounterPerSock = 0 /\ loops = 0
    /\ delay = FALSE /\ delayCounter = 0
    /\ reg = 0 /\ total = 0
    /\ spc = "none" /\ prev = 0 /\ skipFirst = TRUE /\ counted = 0
    /\ sent = 0 /\ sinceSync = 0

-----------------------------------------------------------------------------
\* What is given for an address.  A URI may be missing, unreadable, without
\* the addresses wanted, or good; an argument of -direct bad or good.
Uri    == {"none", "bad", "partial", "good"}
Direct == {"none", "bad", "good"}

Exit == pc' = "exit" /\ UNCHANGED <<now, dest, haveSync>>
Towards(d, s) == pc' = "sync" /\ dest' = d /\ haveSync' = s /\ UNCHANGED now

\* Whatever the address, the number of sockets and repeats is chosen with it.
Asked(direct) ==
    /\ asked' = (direct # "none")
    /\ sockCount' \in SockCounts
    /\ IF prog \in FromFile THEN loops' \in Repeats ELSE loops' = 0
    /\ UNCHANGED <<prog, syncOpen, sockets, bufSize, rate, pace, event, sync,
                   portIndex, byteCounterPerSock, delay, delayCounter, reg, total, stats>>

\* A URI that lacks an address is taken all the same.
PacketBlasterAnyUri ==
    /\ pc = "address" /\ prog = "packetBlaster"
    /\ \E uri \in Uri : Asked("none") /\ uri # "none" /\ Towards("lb", uri = "good")
\* An address given with -direct is taken alone; otherwise -uri, then the file.
PacketBlasterAddress ==
    /\ pc = "address" /\ prog = "packetBlaster"
    /\ \E direct \in Direct, uri, file \in Uri :
        /\ Asked(direct)
        /\ \/ direct = "good" /\ Towards("direct", FALSE)
           \/ direct = "none" /\ "good" \in {uri, file} /\ Towards("lb", TRUE)
           \/ direct = "bad" /\ Exit
           \/ direct = "none" /\ "good" \notin {uri, file} /\ Exit

\* -uri, then the file (the default one if none was named), and -direct only
\* if neither gave an address; a file without the addresses ends the program.
FileFirst(direct, uri, file) ==
    \/ uri = "good" /\ Towards("lb", TRUE)
    \/ uri # "good" /\ file = "good" /\ Towards("lb", TRUE)
    \/ uri # "good" /\ file = "partial" /\ Exit
    \/ uri # "good" /\ file \in {"none", "bad"} /\ direct = "good" /\ Towards("direct", FALSE)
    \/ uri # "good" /\ file \in {"none", "bad"} /\ direct # "good" /\ Exit

\* parseArgs refuses -direct with -uri or -file, but not with the default file.
ClasBlasterAddress ==
    /\ pc = "address" /\ prog = "clasBlaster"
    /\ \E direct \in Direct, uri, file \in Uri :
        /\ direct # "none" => uri = "none"
        /\ Asked(direct) /\ FileFirst(direct, uri, file)

ClasBlasterNTPAddress ==
    /\ pc = "address" /\ prog = "clasBlasterNTP"
    /\ \E direct \in Direct, uri, file \in Uri :
        /\ direct # "none" => uri = "none"
        /\ Asked(direct) /\ FileFirst(direct, uri, file)

\* There is always an address to send to; messages to the control plane are
\* sent if that was asked for and its address given.
PacketBlasterOldAddress ==
    /\ pc = "address" /\ prog = "packetBlasterOld"
    /\ \E direct \in {"none", "good"}, sendSync, cpHost \in BOOLEAN :
        /\ Asked(direct)
        /\ Towards(IF direct = "good" THEN "direct" ELSE "lb", sendSync /\ cpHost)

PacketBlasterSmallAddress ==
    pc = "address" /\ prog = "packetBlasterSmall" /\ Asked("none") /\ Towards("lb", FALSE)

\* decodeCommandLine ends the program if it meets -direct.
Clas12Address ==
    /\ pc = "address" /\ prog = "Clas12DataSender"
    /\ \E uri, file \in Uri :
        /\ Asked("none")
        /\ \/ "good" \in {uri, file} /\ Towards("lb", TRUE)
           \/ "good" \notin {uri, file} /\ Exit

Address == \/ PacketBlasterAddress \/ ClasBlasterAddress \/ ClasBlasterNTPAddress
           \/ PacketBlasterOldAddress \/ PacketBlasterSmallAddress \/ Clas12Address

-----------------------------------------------------------------------------
\* Sockets.  The socket of the control plane is wanted or not; it opens, or
\* the program ends.
OpenSync(wanted) ==
    /\ pc = "sync" /\ pc' \in {"data", "exit"}
    /\ ~wanted => pc' = "data"
    /\ syncOpen' = (wanted /\ pc' = "data")
    /\ UNCHANGED <<now, prog, asked, dest, haveSync, sockCount, sockets, bufSize,
                   rate, pace, event, sync, next, reg, total, stats>>

PacketBlasterSync    == prog = "packetBlaster" /\ OpenSync(dest # "direct")
ClasBlasterSync      == prog = "clasBlaster" /\ OpenSync(dest # "direct")
ClasBlasterNTPSync   == prog = "clasBlasterNTP" /\ OpenSync(dest # "direct")
PacketBlasterOldSync == prog = "packetBlasterOld" /\ OpenSync(haveSync)
Clas12Sync           == prog = "Clas12DataSender" /\ OpenSync(dest # "direct")
SmallSync            == prog = "packetBlasterSmall" /\ OpenSync(FALSE)

\* Data sockets are opened one after the other; the first failure ends the
\* program.  Then the printing thread starts.
OpenData(count) ==
    /\ pc = "data"
    /\ \/ sockets < count /\ sockets' = sockets + 1 /\ UNCHANGED <<pc, spc>>
       \/ sockets < count /\ pc' = "exit" /\ UNCHANGED <<sockets, spc>>
       \/ sockets = count /\ pc' = "rate" /\ spc' = "read" /\ UNCHANGED sockets
    /\ UNCHANGED <<now, prog, asked, dest, haveSync, syncOpen, sockCount, bufSize,
                   rate, pace, event, sync, next, reg, total, prev, skipFirst, counted>>

PacketBlasterData    == prog = "packetBlaster" /\ OpenData(sockCount)
ClasBlasterData      == prog = "clasBlaster" /\ OpenData(sockCount)
ClasBlasterNTPData   == prog = "clasBlasterNTP" /\ OpenData(sockCount)
PacketBlasterOldData == prog = "packetBlasterOld" /\ OpenData(sockCount)
PacketBlasterSmallData == prog = "packetBlasterSmall" /\ OpenData(1)
Clas12Data           == prog = "Clas12DataSender" /\ OpenData(sockCount)

Sockets == \/ PacketBlasterSync \/ ClasBlasterSync \/ ClasBlasterNTPSync
           \/ PacketBlasterOldSync \/ Clas12Sync \/ SmallSync
           \/ PacketBlasterData \/ ClasBlasterData \/ ClasBlasterNTPData
           \/ PacketBlasterOldData \/ PacketBlasterSmallData \/ Clas12Data

-----------------------------------------------------------------------------
\* The rate.  A batch of buffersAtOnce buffers should take a time that follows
\* from the bytes of a batch and the bytes of a second.
Batch(count, bytes, byteRate) ==
    /\ paced' = TRUE /\ delay' = FALSE /\ askedRate' = byteRate
    /\ buffersAtOnce' = count /\ countDown' = count
    /\ microSecItShouldTake' = (Second * bytes) \div byteRate

AtLeastOne(n) == IF n < 1 THEN 1 ELSE n

\* The batch of a byte rate holds whole buffers ...
ByteRate(size) ==
    /\ inBuffers' = FALSE
    /\ \E byteRate \in Rates :
          LET count == AtLeastOne(BytesAtOnce \div size)
          IN  Batch(count, count * size, byteRate)
\* ... that of a buffer rate is timed as BytesAtOnce bytes, whatever it holds.
BufRate(size) ==
    /\ inBuffers' = TRUE
    /\ \E bufRate \in Rates :
          Batch(AtLeastOne(BytesAtOnce \div size), BytesAtOnce, bufRate * size)
\* Without a rate there may be a delay; parseArgs drops it otherwise.
NoRate == /\ paced' = FALSE /\ delay' \in BOOLEAN
          /\ UNCHANGED <<inBuffers, askedRate, microSecItShouldTake, buffersAtOnce, countDown>>

StartLoop(firstDelay) ==
    /\ pc' = "pause" /\ delayCounter' = firstDelay
    /\ t1' = now /\ tStart' = now /\ startTime' = now
    /\ UNCHANGED <<now, prog, asked, dest, haveSync, syncOpen, sockCount, sockets,
                   lastExcessTime, pauses, event, announced, portIndex,
                   byteCounterPerSock, reg, total, stats>>

PacketBlasterRate ==
    /\ pc = "rate" /\ prog = "packetBlaster" /\ StartLoop(DelayPrescale) /\ UNCHANGED loops
    /\ bufSize' \in BufSizes
    /\ ByteRate(bufSize') \/ BufRate(bufSize') \/ NoRate

PacketBlasterOldRate ==
    /\ pc = "rate" /\ prog = "packetBlasterOld" /\ StartLoop(DelayPrescale) /\ UNCHANGED loops
    /\ bufSize' \in BufSizes
    /\ ByteRate(bufSize') \/ BufRate(bufSize') \/ NoRate

\* The file is read once for the average size of its events, the first left
\* out: with one event, the program divides by zero.  No minimum of a buffer.
OnlyEvent ==
    /\ pc' = "exit"
    /\ UNCHANGED <<now, setup, rate, pace, event, sync, next, reg, total, stats>>
AverageRate(size) ==
    /\ inBuffers' = TRUE
    /\ \E bufRate \in Rates : Batch(BytesAtOnce \div size, BytesAtOnce, bufRate * size)

ClasBlasterRate ==
    /\ pc = "rate" /\ prog = "clasBlaster"
    /\ \/ OnlyEvent
       \/ /\ StartLoop(DelayPrescale) /\ UNCHANGED loops
          /\ bufSize' \in BufSizes
          /\ AverageRate(bufSize') \/ NoRate

ClasBlasterNTPRate ==
    /\ pc = "rate" /\ prog = "clasBlasterNTP"
    /\ \/ OnlyEvent
       \/ /\ StartLoop(DelayPrescale) /\ UNCHANGED loops
          /\ bufSize' \in BufSizes
          /\ AverageRate(bufSize') \/ NoRate

PacketBlasterSmallRate ==
    /\ pc = "rate" /\ prog = "packetBlasterSmall" /\ StartLoop(0) /\ NoRate
    /\ loops' = SmallCount /\ UNCHANGED bufSize
Clas12Rate ==
    /\ pc = "rate" /\ prog = "Clas12DataSender" /\ StartLoop(0) /\ NoRate
    /\ loops' = AtLeastOne(loops) /\ UNCHANGED bufSize

Rate == \/ PacketBlasterRate \/ ClasBlasterRate \/ ClasBlasterNTPRate
        \/ PacketBlasterOldRate \/ PacketBlasterSmallRate \/ Clas12Rate

-----------------------------------------------------------------------------
\* The pause after a batch.  What a batch took too long, or a sleep, is taken
\* off the next pause.
excessTime == microSecItShouldTake - (now - t1) + lastExcessTime

\* What a sleep was too long: forgotten, and kept for the next pause.
ForgetOversleep(slept) == 0
KeptAfterSleep(slept) == excessTime - slept

\* Buffers of the next batch after the one about to be sent, and one too many.
WholeBatchLeft == buffersAtOnce
BatchLeft == buffersAtOnce - 1

Pause ==
    /\ pc = "pause" /\ pc' = "send" /\ sent < MaxBufs
    /\ \/ /\ ~paced \/ countDown > 0
          /\ countDown' = IF paced THEN countDown - 1 ELSE countDown
          /\ UNCHANGED <<now, lastExcessTime, t1, pauses>>
       \/ /\ paced /\ countDown <= 0 /\ excessTime > 0
          /\ \E over \in 0..MaxOversleep :
                /\ now' = now + excessTime + over
                /\ lastExcessTime' = KeptAfterSleep(excessTime + over)
          /\ t1' = now' /\ countDown' = BatchLeft /\ pauses' = pauses + 1
       \/ /\ paced /\ countDown <= 0 /\ excessTime <= 0
          /\ lastExcessTime' = excessTime
          /\ t1' = now /\ countDown' = BatchLeft /\ pauses' = pauses + 1
          /\ UNCHANGED now
    /\ UNCHANGED <<setup, rate, event, sync, next, reg, total, stats>>

PacketBlasterPause    == prog = "packetBlaster" /\ Pause
ClasBlasterPause      == prog = "clasBlaster" /\ Pause
ClasBlasterNTPPause   == prog = "clasBlasterNTP" /\ Pause
PacketBlasterOldPause == prog = "packetBlasterOld" /\ Pause
NeverPauses           == prog \in {"packetBlasterSmall", "Clas12DataSender"} /\ Pause
AnyPause == \/ PacketBlasterPause \/ ClasBlasterPause \/ ClasBlasterNTPPause
            \/ PacketBlasterOldPause \/ NeverPauses

-----------------------------------------------------------------------------
\* Sending a buffer fails or takes some time.  The totals are read, and
\* written back with the buffer added in a step of its own: neither thread
\* holds a lock.
SendBuffer ==
    /\ pc = "send"
    /\ \/ \E d \in 1..MaxSend : now' = now + d /\ pc' = "count" /\ reg' = total
       \/ pc' = "exit" /\ UNCHANGED <<now, reg>>
    /\ UNCHANGED <<setup, rate, pace, event, sync, next, total, stats>>

PacketBlasterSend      == prog = "packetBlaster" /\ SendBuffer
ClasBlasterSend        == prog = "clasBlaster" /\ SendBuffer
ClasBlasterNTPSend     == prog = "clasBlasterNTP" /\ SendBuffer
PacketBlasterOldSend   == prog = "packetBlasterOld" /\ SendBuffer
PacketBlasterSmallSend == prog = "packetBlasterSmall" /\ SendBuffer
Clas12Send             == prog = "Clas12DataSender" /\ SendBuffer
AnySend == \/ PacketBlasterSend \/ ClasBlasterSend \/ ClasBlasterNTPSend
           \/ PacketBlasterOldSend \/ PacketBlasterSmallSend \/ Clas12Send

\* packets: of one buffer, 0 in packetBlasterSmall which never counts them.
Count(packets, nextTick) ==
    /\ pc = "count" /\ pc' = "announce"
    /\ total' = reg + packets
    /\ tick' = nextTick
    /\ sent' = sent + 1 /\ bufsSent' = bufsSent + 1 /\ sinceSync' = sinceSync + 1
    /\ UNCHANGED <<now, setup, rate, pace, sync, next, reg, stats>>

PacketBlasterCount      == prog = "packetBlaster" /\ Count(1, tick + 1)
ClasBlasterCount        == prog = "clasBlaster" /\ Count(1, tick + 1)
\* The tick is the time.  The offset to the time server's seconds is added as
\* nanoseconds and is too small to tell.
ClasBlasterNTPCount     == prog = "clasBlasterNTP" /\ Count(1, now)
PacketBlasterOldCount   == prog = "packetBlasterOld" /\ Count(1, tick + 1)
PacketBlasterSmallCount == prog = "packetBlasterSmall" /\ Count(0, tick + 1)
\* The Java program adds to its tick after the announcement.
Clas12Count             == prog = "Clas12DataSender" /\ Count(1, tick)
AnyCount == \/ PacketBlasterCount \/ ClasBlasterCount \/ ClasBlasterNTPCount
            \/ PacketBlasterOldCount \/ PacketBlasterSmallCount \/ Clas12Count

-----------------------------------------------------------------------------
\* Once a second, on the program's clock, the control plane is told the tick
\* and the rate, over whole seconds.  carried: what the message says of time.
Message(clock, carried) ==
    [tick |-> tick, rate |-> bufsSent \div ((clock - startTime) \div Second),
     time |-> carried, real |-> sinceSync, took |-> clock - startTime]

\* Buffers counted on, and anew.
KeepCount(n) == n
CountAnew(n) == 0

Announce(wanted, clock, carried) ==
    /\ pc = "announce"
    /\ \/ /\ wanted /\ clock - startTime >= Second
          /\ announced' = Message(clock, carried)
          /\ \/ /\ pc' = "next" /\ startTime' = clock
                /\ bufsSent' = CountAnew(bufsSent) /\ sinceSync' = 0
             \/ pc' = "exit" /\ UNCHANGED <<startTime, bufsSent, sinceSync>>
       \/ /\ ~(wanted /\ clock - startTime >= Second)
          /\ pc' = "next" /\ UNCHANGED <<announced, startTime, bufsSent, sinceSync>>
    /\ UNCHANGED <<now, setup, rate, pace, tick, sent, next, reg, total, stats>>

PacketBlasterAnnounce ==
    prog = "packetBlaster" /\ Announce(dest # "direct", now, now)
ClasBlasterAnnounce ==
    prog = "clasBlaster" /\ Announce(dest # "direct", now, now - startTime)
ClasBlasterNTPAnnounce ==
    prog = "clasBlasterNTP" /\ Announce(dest # "direct", now, now - startTime)
PacketBlasterOldAnnounce ==
    prog = "packetBlasterOld" /\ Announce(haveSync, now, now)
SmallAnnounce ==
    prog = "packetBlasterSmall" /\ Announce(FALSE, now, now)
\* The result of Instant.now() is dropped: the time is that of the start.
Clas12Announce ==
    prog = "Clas12DataSender" /\ Announce(dest # "direct", tStart, tStart)
AnyAnnounce == \/ PacketBlasterAnnounce \/ ClasBlasterAnnounce \/ SmallAnnounce
               \/ ClasBlasterNTPAnnounce \/ PacketBlasterOldAnnounce \/ Clas12Announce

-----------------------------------------------------------------------------
\* The next socket after so many bytes, or after every buffer; a delay if one
\* was asked for; the count of repeats.
Delayed ==
    /\ UNCHANGED delay
    /\ \/ delay /\ delayCounter <= 1 /\ now' = now + 1 /\ delayCounter' = DelayPrescale
       \/ delay /\ delayCounter > 1 /\ delayCounter' = delayCounter - 1 /\ UNCHANGED now
       \/ ~delay /\ UNCHANGED <<now, delayCounter>>
GoOn(nextTick) ==
    /\ tick' = nextTick
    /\ UNCHANGED <<setup, rate, pace, sent, bufsSent, sinceSync, sync, reg, total, stats>>

AfterBytes ==
    LET bytes == byteCounterPerSock + bufSize
    IN  /\ pc = "next" /\ pc' = "pause" /\ Delayed /\ GoOn(tick) /\ UNCHANGED loops
        /\ IF bytes > SocketBytes
           THEN byteCounterPerSock' = 0 /\ portIndex' = (portIndex + 1) % sockCount
           ELSE byteCounterPerSock' = bytes /\ UNCHANGED portIndex
PacketBlasterNext    == prog = "packetBlaster" /\ AfterBytes
PacketBlasterOldNext == prog = "packetBlasterOld" /\ AfterBytes

AfterEach(left, nextTick) ==
    /\ pc = "next" /\ Delayed /\ GoOn(nextTick)
    /\ portIndex' = (portIndex + 1) % sockCount /\ UNCHANGED byteCounterPerSock
    /\ loops' = left /\ pc' = IF left < 1 THEN "exit" ELSE "pause"
ClasBlasterNext    == prog = "clasBlaster" /\ AfterEach((loops - 1) % LoopModulus, tick)
ClasBlasterNTPNext == prog = "clasBlasterNTP" /\ AfterEach((loops - 1) % LoopModulus, tick)
Clas12Next         == prog = "Clas12DataSender" /\ AfterEach(loops - 1, tick + 1)

PacketBlasterSmallNext ==
    /\ prog = "packetBlasterSmall" /\ pc = "next" /\ now' = now + 1 /\ GoOn(tick)
    /\ loops' = loops - 1 /\ pc' = IF loops = 1 THEN "exit" ELSE "pause"
    /\ UNCHANGED <<portIndex, byteCounterPerSock, delay, delayCounter>>

AnyNext == \/ PacketBlasterNext \/ PacketBlasterOldNext \/ ClasBlasterNext
           \/ ClasBlasterNTPNext \/ Clas12Next \/ PacketBlasterSmallNext

-----------------------------------------------------------------------------
\* The printing thread: the totals before and after a sleep.  The first
\* interval is thrown away, with the totals, until something was sent.
ReadPrev ==
    /\ spc = "read" /\ pc # "exit"
    /\ prev' = total /\ spc' = "sleep" /\ UNCHANGED <<total, skipFirst, counted>>

Wake ==
    /\ spc = "sleep" /\ pc # "exit" /\ spc' = "read" /\ UNCHANGED prev
    /\ IF skipFirst
       THEN skipFirst' = (total = 0) /\ total' = 0 /\ UNCHANGED counted
       ELSE counted' = total - prev /\ UNCHANGED <<total, skipFirst>>

PrintRates == (ReadPrev \/ Wake)
         /\ UNCHANGED <<main, setup, rate, pace, event, sync, next, reg>>
PacketBlasterStats      == prog = "packetBlaster" /\ PrintRates
ClasBlasterStats        == prog = "clasBlaster" /\ PrintRates
ClasBlasterNTPStats     == prog = "clasBlasterNTP" /\ PrintRates
PacketBlasterOldStats   == prog = "packetBlasterOld" /\ PrintRates
PacketBlasterSmallStats == prog = "packetBlasterSmall" /\ PrintRates
Clas12Stats             == prog = "Clas12DataSender" /\ PrintRates
AnyStats == \/ PacketBlasterStats \/ ClasBlasterStats \/ ClasBlasterNTPStats
            \/ PacketBlasterOldStats \/ PacketBlasterSmallStats \/ Clas12Stats

Next == \/ Address \/ Sockets \/ Rate \/ AnyPause \/ AnySend \/ AnyCount
        \/ AnyAnnounce \/ AnyNext \/ AnyStats

Spec == Init /\ [][Next]_vars

-----------------------------------------------------------------------------
(* Properties *)

\* The pauses make up for every batch and every sleep that took too long:
\* after k batches the time kept back is k times what a batch should take,
\* less the time that really went by (the excess in the loop of main).
NoDrift == lastExcessTime = pauses * microSecItShouldTake - (t1 - tStart)

\* However sends and sleeps take their time, what was sent is never ahead of the
\* rate asked for (-byterate, -bufrate) by more than one batch, and one tick of
\* the clock for every batch, since its time is rounded down.  This leaves out
\* -bufrate with buffers longer than BytesAtOnce: their batches of one buffer are
\* timed as if they were shorter (packetBlaster.cc:974 and 1011-1018), and the
\* rate is exceeded for good.
NeverTooFast ==
    LET batch == AtLeastOne(buffersAtOnce)
    IN  paced /\ (inBuffers => bufSize <= BytesAtOnce)
        => (sent - batch) * bufSize * Second <= askedRate * (now - tStart + pauses)

\* A message for the control plane goes out only when its address came with the
\* options and the socket for it is open, whichever way the data go.
SyncHasAddress == announced # Nothing => haveSync /\ syncOpen

\* The rate told to the control plane counts every buffer since the message
\* before and none twice: dividing by whole seconds makes it at most twice the
\* real one, and never more than one too low.
AnnouncedRateFair ==
    /\ announced.rate * announced.took <= 2 * announced.real * Second
    /\ announced.real * Second < (announced.rate + 1) * announced.took
=============================================================================
