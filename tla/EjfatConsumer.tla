---------------------------- MODULE EjfatConsumer ----------------------------
(***************************************************************************)
(* simpleAPI/EjfatConsumer and simpleAPI/serverConsumer: one receiving     *)
(* thread per data source assembles events into a fixed vector of items    *)
(* and pushes pointers to them onto one bounded lock-free queue; the user  *)
(* pops them with getEvent(); a thread samples the queue level and reports *)
(* its running average to the control plane, or to a server that speaks    *)
(* with it; another thread prints statistics.                              *)
(*                                                                         *)
(* An event is known by its number in the order its source's thread        *)
(* assembled it.  The bytes of an event that the thread is in the middle   *)
(* of writing are Partial.                                                 *)
(***************************************************************************)
EXTENDS Integers, Sequences, FiniteSets, FiniteSetsExt, Functions

CONSTANTS
    Setups,        \* objects the user may make, and what is sent to them
    Users,         \* threads that call getEvent()
    QSize,         \* QSIZE, capacity of the queue
    TickModulus,   \* 2^64: ticks are unsigned and wrap
    RestartGap,    \* 1000
    DefaultBufLen, \* 100000, first length of a buffer
    Fcount,        \* fcount, samples in the running average
    LoopMax,       \* samples per report to the control plane
    RollLimit      \* packets whose bytes no longer fit into an int64_t

ASSUME ConsumerAssumption ==
    /\ IsFiniteSet(Users)
    /\ {QSize, RestartGap, DefaultBufLen, LoopMax, TickModulus, RollLimit}
          \subseteq Nat \ {0}
    /\ Fcount \in Nat \ {0, 1}
    /\ \A u \in Setups :
          /\ u.class \in {"EjfatConsumer", "serverConsumer"}
          /\ {u.direct, u.jointStats, u.canFail} \subseteq BOOLEAN
          /\ u.ids \in Seq(Nat \ {0})
          /\ u.ticks \subseteq 0 .. TickModulus - 2
          /\ u.sizes \subseteq Nat
          /\ u.maxPrints \in Nat
          /\ u.maxEvents \in [Range(u.ids) -> Nat]
          /\ u.bad \subseteq {"uri", "grpc", "socket"}

VARIABLES
    setup,       \* the element of Setups
    stage,       \* how far the constructor has come
    recv,        \* per source: the locals of recvThreadFunc
    slots,       \* qItemVectors: per source the vector of items
    queue,       \* the shared queue of items
    queueSize,   \* the atomic count kept beside it
    stats,       \* allStats: packets accepted and buffers built per source
    user,        \* per user thread: where it is in getEvent, and its item
    fill,        \* locals of grpcThreadFunc
    printer,     \* locals of statisticsThreadFunc
    endThreads,  \* the destructor has begun
    running,     \* the process has not exited
    fell         \* history: sources that have sent a tick lower than before

shared == <<queue, queueSize, slots>>
vars == <<setup, stage, recv, shared, stats, user, fill, printer, endThreads,
          running, fell>>

Sources   == Range(setup.ids)
Direct    == setup.direct
MaxEvents(s) == setup.maxEvents[s]  \* bound: events assembled
MaxPrints == setup.maxPrints     \* bound: printouts of the statistics
CanFail   == setup.canFail       \* may something fail, and the user destroy?

VectorSize == QSize + 1
NoTick     == TickModulus - 1     \* 0xffffffffffffffff
Partial    == 0                   \* no complete event in the item

\* qItem(): nothing in it.
NewItem == [event |-> Partial, tick |-> 0, bufBytes |-> 0, dataBytes |-> 0]

\* An entry of the queue points to an item; the rest is history: the event the
\* item held when it was pushed, its tick, and the number of that push.
NoEntry == [src |-> 0, slot |-> 0, event |-> 0, tick |-> 0, order |-> 0]

\* clearStats().
NoStats == [accepted |-> 0, built |-> 0]

Init ==
    /\ setup \in Setups
    /\ stage = "new"
    /\ recv = [s \in Sources |->
                  [pc |-> "loop", currentQItem |-> 0, tick |-> NoTick,
                   prevTick |-> NoTick, largestTick |-> 0, firstLoop |-> TRUE,
                   assembled |-> 0, pushed |-> 0]]
    /\ slots = [s \in Sources |-> [i \in 0 .. VectorSize - 1 |-> NewItem]]
    /\ queue = << >>
    /\ queueSize = 0
    /\ stats = [s \in Sources |-> NoStats]
    /\ user = [u \in Users |-> [pc |-> "idle", item |-> NoEntry, eventNum |-> 0]]
    /\ fill = [values |-> [i \in 0 .. Fcount - 1 |-> 0], currentIndex |-> 0,
               age |-> [i \in 0 .. Fcount - 1 |-> Fcount - 1 - i],
               total |-> 0, wasNegative |-> FALSE, loopCount |-> LoopMax]
    /\ printer = [pc |-> "top", i |-> 1, rollOver |-> FALSE,
                  curr |-> [s \in Sources |-> NoStats],
                  prev |-> [s \in Sources |-> NoStats],
                  dataArrived |-> [s \in Sources |-> FALSE],
                  skippedFirst |-> [s \in Sources |-> 0],
                  shown |-> {}, total |-> [s \in Sources |-> NoStats],
                  prints |-> 0, rolled |-> FALSE]
    /\ endThreads = FALSE
    /\ running = TRUE
    /\ fell = {}

(***************************************************************************)
(* The constructors.  A step succeeds, or throws or calls exit(1); what it *)
(* has started so far runs meanwhile.                                      *)
(***************************************************************************)
Construct(class, at, next) ==
    /\ running /\ setup.class = class /\ stage = at
    /\ stage' = next
    /\ UNCHANGED <<setup, recv, shared, stats, user, fill, printer, endThreads,
                   running, fell>>

Fails(class, at, wrong) ==
    /\ running /\ setup.class = class /\ stage = at
    /\ wrong \in setup.bad
    /\ running' = FALSE
    /\ UNCHANGED <<setup, stage, recv, shared, stats, user, fill, printer, endThreads,
                   fell>>

DirectConstructor == Direct /\ Construct("EjfatConsumer", "new", "sockets")
\* A URI, or a file with one, that has the instance token; and the session.
SetFromURI ==
    /\ ~Direct
    /\ Construct("EjfatConsumer", "new", "register") \/ Fails("EjfatConsumer", "new", "uri")
Register ==
    \/ Construct("EjfatConsumer", "register", "sockets")
    \/ Fails("EjfatConsumer", "register", "grpc")
\* One socket per source, then the receiving and the printing threads.
CreateDataSockets ==
    \/ Construct("EjfatConsumer", "sockets", "receiving")
    \/ Fails("EjfatConsumer", "sockets", "socket")
StartupGrpcThread == Construct("EjfatConsumer", "receiving", "ready")

ServerDirectConstructor == Direct /\ Construct("serverConsumer", "new", "sockets")
ServerConstructor == ~Direct /\ Construct("serverConsumer", "new", "sockets")
ServerCreateDataSockets ==
    \/ Construct("serverConsumer", "sockets", "receiving")
    \/ Fails("serverConsumer", "sockets", "socket")
CreateServerSocket ==
    \/ Construct("serverConsumer", "receiving", "serving")
    \/ ~Direct /\ Fails("serverConsumer", "receiving", "socket")
\* A REGISTER message that cannot be sent goes unnoticed.
RegisterWithSimpleServer == Construct("serverConsumer", "serving", "ready")

Constructing ==
    \/ DirectConstructor \/ SetFromURI \/ Register \/ CreateDataSockets
    \/ StartupGrpcThread \/ ServerDirectConstructor \/ ServerConstructor
    \/ ServerCreateDataSockets \/ CreateServerSocket \/ RegisterWithSimpleServer

Receives == stage \in {"receiving", "serving", "ready"}
Serves   == stage \in {"serving", "ready"}

(***************************************************************************)
(* The receiving thread of source s.                                       *)
(***************************************************************************)
At(s, pc) == running /\ Receives /\ recv[s].pc = pc

others == <<setup, stage, user, fill, printer, endThreads, running>>

\* Top of the loop: take the current item, ask for a tick in no order.
BeginBuffer(s) ==
    /\ At(s, "loop")
    /\ recv' = [recv EXCEPT ![s].pc = IF endThreads THEN "ended" ELSE "recv",
                            ![s].prevTick = recv[s].tick, ![s].tick = NoTick]
    /\ UNCHANGED <<shared, stats, others, fell>>

\* getCompleteAllocatedBuffer() starts to write packets into the item.
ReceivePart(s) ==
    /\ At(s, "recv")
    /\ recv[s].assembled < MaxEvents(s)
    /\ recv' = [recv EXCEPT ![s].pc = "building"]
    /\ slots' = [slots EXCEPT ![s][recv[s].currentQItem].event = Partial]
    /\ UNCHANGED <<queue, queueSize, stats, others, fell>>

\* The length of a buffer of len bytes (0: none yet), doubled until the event
\* fits.
Grown(len, bytes) ==
    LET first == IF len = 0 THEN DefaultBufLen ELSE len
    IN  Min({first * 2^k : k \in {j \in 0 .. bytes : first * 2^j >= bytes}})

\* Mutant of ItemTick: an item keeps the number of the first event it held.
ItemTickOnce(old, t) == IF old = 0 THEN t ELSE old

\* EjfatConsumer does not put the tick into the item.
ItemTick(old, t) == IF setup.class = "serverConsumer" THEN t ELSE old

\* It returns a complete event of tick t, and the item's fields are set.
Assembled(s, t, bytes) ==
    LET i == recv[s].currentQItem
        n == recv[s].assembled + 1
    IN  /\ At(s, "building")
        /\ recv' = [recv EXCEPT ![s].pc = "push", ![s].tick = t,
                                ![s].assembled = n]
        /\ slots' = [slots EXCEPT
                        ![s][i] = [event |-> n, tick |-> ItemTick(@.tick, t),
                                   bufBytes |-> Grown(@.bufBytes, bytes),
                                   dataBytes |-> bytes]]
        /\ stats' = [stats EXCEPT ![s].accepted = @ + 1]
        /\ fell' = IF recv[s].prevTick # NoTick /\ t < recv[s].prevTick
                   THEN fell \cup {s} ELSE fell
        /\ UNCHANGED <<queue, queueSize, others>>

\* The receive fails, or the event comes from another source: the thread ends.
AssembleFails(s) ==
    /\ CanFail
    /\ At(s, "building")
    /\ recv' = [recv EXCEPT ![s].pc = "ended"]
    /\ \E packets \in {0, 1} : stats' = [stats EXCEPT ![s].accepted = @ + packets]
    /\ UNCHANGED <<shared, others, fell>>

\* Mutant of SlotAfter: the vector is no bigger than the queue.
SlotAfterInSmallVector(i) == (i + 1) % QSize

SlotAfter(i) == (i + 1) % VectorSize

\* queue->push() succeeds.
HasRoom == Len(queue) < QSize

Push(s) ==
    LET i == recv[s].currentQItem
        n == recv[s].pushed + 1
    IN  /\ At(s, "push")
        /\ HasRoom
        /\ queue' = Append(queue, [src |-> s, slot |-> i, order |-> n,
                                   event |-> slots[s][i].event,
                                   tick |-> recv[s].tick])
        /\ recv' = [recv EXCEPT ![s].pc = "count", ![s].pushed = n,
                                ![s].currentQItem = SlotAfter(i)]
        /\ UNCHANGED <<slots, queueSize, stats, others, fell>>

\* The queue is full: the event is dumped, its item is used again.
PushFull(s) ==
    /\ At(s, "push")
    /\ ~HasRoom
    /\ recv' = [recv EXCEPT ![s].pc = "loop"]
    /\ UNCHANGED <<shared, stats, others, fell>>

\* Mutant of PreviousTick: the first event is compared with no event.
PreviousTickAlways(r) == r.prevTick

\* The first event may have any tick.
PreviousTick(r) == IF r.firstLoop THEN r.tick ELSE r.prevTick

LargestTick(r) == IF r.tick >= PreviousTick(r) THEN r.tick ELSE r.largestTick

\* largestTick - tick > 1000, in unsigned 64-bit arithmetic.
Restarted(r) == (LargestTick(r) - r.tick) % TickModulus > RestartGap

\* Mutant of Counted: the count is not kept for the first event.
CountedAfterFirst(s) == IF recv[s].firstLoop THEN queueSize ELSE queueSize + 1

Counted(s) == queueSize + 1

\* After a push: count it, and look for a restart of the source.
Count(s) ==
    LET r == recv[s]
    IN  /\ At(s, "count")
        /\ queueSize' = Counted(s)
        /\ recv' = [recv EXCEPT ![s] =
                      [r EXCEPT !.pc = "loop", !.firstLoop = FALSE,
                                !.prevTick = PreviousTick(r),
                                !.largestTick = LargestTick(r)]]
        /\ stats' = IF Restarted(r) THEN [stats EXCEPT ![s] = NoStats]
                    ELSE [stats EXCEPT ![s].built = @ + 1]
        /\ UNCHANGED <<slots, queue, others, fell>>

Receiving(s) ==
    \/ BeginBuffer(s)
    \/ ReceivePart(s)
    \/ \E t \in setup.ticks, bytes \in setup.sizes : Assembled(s, t, bytes)
    \/ AssembleFails(s)
    \/ Push(s)
    \/ PushFull(s)
    \/ Count(s)

EjfatReceiving(s)  == setup.class = "EjfatConsumer" /\ Receiving(s)
ServerReceiving(s) == setup.class = "serverConsumer" /\ Receiving(s)

(***************************************************************************)
(* getEvent().  The user is done with an event when it calls again.        *)
(***************************************************************************)
notUsers == <<setup, stage, recv, slots, stats, fill, printer, endThreads,
              running, fell>>

Pop(u) ==
    /\ running /\ stage = "ready" /\ ~endThreads
    /\ user[u].pc \in {"idle", "holding"}
    /\ queue # << >>
    /\ user' = [user EXCEPT ![u] = [pc |-> "popped", item |-> Head(queue),
                                    eventNum |-> 0]]
    /\ queue' = Tail(queue)
    /\ UNCHANGED <<queueSize, notUsers>>

\* The queue is empty: getEvent() returns false.
PopEmpty(u) ==
    /\ running /\ ~endThreads
    /\ user[u].pc = "holding"
    /\ queue = << >>
    /\ user' = [user EXCEPT ![u] = [pc |-> "idle", item |-> NoEntry, eventNum |-> 0]]
    /\ UNCHANGED <<queue, queueSize, notUsers>>

\* The count is lowered, and a pointer into the item is returned with the
\* number the item has now.
GotEvent(u) ==
    LET e == user[u].item
    IN  /\ running
        /\ user[u].pc = "popped"
        /\ queueSize' = queueSize - 1
        /\ user' = [user EXCEPT ![u].pc = "holding",
                                ![u].eventNum = slots[e.src][e.slot].tick]
        /\ UNCHANGED <<queue, notUsers>>

Getting(u) == Pop(u) \/ PopEmpty(u) \/ GotEvent(u)

EjfatGetEvent(u)  == setup.class = "EjfatConsumer" /\ Getting(u)
ServerGetEvent(u) == setup.class = "serverConsumer" /\ Getting(u)

(***************************************************************************)
(* grpcThreadFunc() and serverThreadFunc(): one sample of the queue level, *)
(* and a report every LoopMax samples.  Of the PID signal, which is sent   *)
(* with the level, nothing is modelled.                                    *)
(* History: how many samples ago each value was taken, those before the    *)
(* first standing for the queue that was empty, and whether a sample was   *)
(* below zero.                                                             *)
(***************************************************************************)
\* The total is kept from going below zero.
RunningTotal(old, new) == Max({0, fill.total + new - old})

\* Mutant of IndexAfter: the index starts again one too early.
IndexAfterEarly(i) == IF i + 1 >= Fcount - 1 THEN 0 ELSE i + 1

IndexAfter(i) == IF i + 1 = Fcount THEN 0 ELSE i + 1

\* A sample of age Fcount does not belong to the average any more.
Older(age) == Min({Fcount, age + 1})

Reports == fill.loopCount <= 1

Sample ==
    LET i == fill.currentIndex
    IN  /\ running /\ Serves /\ ~Direct /\ ~endThreads
        /\ fill' = [values |-> [fill.values EXCEPT ![i] = queueSize],
                    currentIndex |-> IndexAfter(i),
                    age |-> [j \in 0 .. Fcount - 1 |->
                                IF j = i THEN 0 ELSE Older(fill.age[j])],
                    total |-> RunningTotal(fill.values[i], queueSize),
                    wasNegative |-> fill.wasNegative \/ queueSize < 0,
                    loopCount |-> IF Reports THEN LoopMax ELSE fill.loopCount - 1]
        /\ UNCHANGED <<setup, stage, recv, shared, stats, user, printer,
                       endThreads, running, fell>>

EjfatSample == setup.class = "EjfatConsumer" /\ Sample
\* A report that cannot be sent to the server goes unnoticed.
ServerSample == setup.class = "serverConsumer" /\ Sample

\* The report cannot be sent to the control plane: exit(1).
ReportFails ==
    /\ setup.class = "EjfatConsumer"
    /\ running /\ Serves /\ ~Direct /\ ~endThreads /\ CanFail /\ Reports
    /\ running' = FALSE
    /\ UNCHANGED <<setup, stage, recv, shared, stats, user, fill, printer,
                   endThreads, fell>>

(***************************************************************************)
(* statisticsThreadFunc(): what the counters have gained in an interval is *)
(* printed, from the second interval in which a source sends.              *)
(***************************************************************************)
notPrinter == <<setup, stage, recv, shared, user, fill, endThreads, running, fell>>

Printing(pc) == running /\ Receives /\ printer.pc = pc

\* What may become of the counters the printing thread sets to zero: an
\* addition the receiving thread is in the middle of may write the old ones
\* back.
Zeroed(s) ==
    [accepted : {0} \cup {stats[s].accepted : pc \in {recv[s].pc} \cap {"building"}},
     built    : {0} \cup {stats[s].built : pc \in {recv[s].pc} \cap {"count"}}]

ZeroStats(S) ==
    stats' \in {f \in [Sources -> UNION {Zeroed(s) \cup {stats[s]} : s \in Sources}] :
                   \A s \in Sources : IF s \in S THEN f[s] \in Zeroed(s)
                                                 ELSE f[s] = stats[s]}

\* From here on the sources in S are counted.
StartOver(p, S) ==
    [p EXCEPT !.curr = [s \in Sources |-> IF s \in S THEN NoStats ELSE @[s]],
              !.skippedFirst = [s \in Sources |-> IF s \in S THEN 2 ELSE @[s]]]

\* What prev takes from curr; before the first interval all of curr but the
\* number of buffers is uninitialized.
CopyOf(curr) ==
    IF printer.prints > 0 THEN {curr}
    ELSE {[s \in Sources |-> [accepted |-> n, built |-> 0]] : n \in {-1, 1}}

\* Top of the loop: start over with sources that have just begun to send.
BeginInterval ==
    LET S == {s \in Sources : printer.dataArrived[s] /\ printer.skippedFirst[s] = 1}
        p == StartOver(printer, S)
    IN  /\ Printing("top")
        /\ printer.prints < MaxPrints
        /\ ZeroStats(S)
        /\ \E prev \in CopyOf(p.curr) :
              printer' = [p EXCEPT !.prev = prev, !.i = 1,
                                   !.pc = IF endThreads THEN "ended" ELSE "test"]
        /\ UNCHANGED notPrinter

\* After four seconds, for each source: fewer buffers than before, so the
\* receiving thread has seen a restart ...
TestRestart ==
    LET s == setup.ids[printer.i]
    IN  /\ Printing("test")
        /\ printer' = [printer EXCEPT !.pc = "read",
                          !.prev[s] = IF printer.curr[s].built > stats[s].built
                                      THEN NoStats ELSE @]
        /\ UNCHANGED <<stats, notPrinter>>

\* ... and only then the counters are read.
ReadCounters ==
    LET s == setup.ids[printer.i]
    IN  /\ Printing("read")
        /\ printer' = [printer EXCEPT !.curr[s] = stats[s],
                          !.rollOver = @ \/ stats[s].accepted >= RollLimit,
                          !.i = @ + 1,
                          !.pc = IF printer.i = Len(setup.ids) THEN "print" ELSE "test"]
        /\ UNCHANGED <<stats, notPrinter>>

Arrived == [s \in Sources |-> printer.dataArrived[s] \/ printer.curr[s].accepted > 0]

\* A byte count has rolled over: everything starts over, nothing is printed.
RollOver ==
    /\ Printing("print") /\ printer.rollOver
    /\ ZeroStats(Sources)
    /\ printer' = [printer EXCEPT !.pc = "top", !.rollOver = FALSE,
                                  !.curr = [s \in Sources |-> NoStats],
                                  !.prev = [s \in Sources |-> NoStats],
                                  !.dataArrived = Arrived,
                                  !.prints = @ + 1, !.rolled = TRUE]
    /\ UNCHANGED notPrinter

\* Mutant of Due: the first interval is printed too.
DueAtOnce == {s \in Sources : Arrived[s]}

\* The sources whose interval is printed.
Due == {s \in Sources : Arrived[s] /\ printer.skippedFirst[s] >= 1}

Gain(s, f) == printer.curr[s][f] - printer.prev[s][f]

PrintGains(numbers) ==
    /\ Printing("print") /\ ~printer.rollOver
    /\ printer' = [printer EXCEPT
          !.pc = "top", !.dataArrived = Arrived, !.prints = @ + 1,
          !.skippedFirst = [s \in Sources |-> IF Arrived[s] /\ @[s] < 1 THEN 1 ELSE @[s]],
          !.shown = numbers,
          !.total = [s \in Sources |->
                       IF s \in Due
                       THEN [f \in {"accepted", "built"} |-> @[s][f] + Gain(s, f)]
                       ELSE @[s]]]
    /\ UNCHANGED <<stats, notPrinter>>

\* All sources together.
PrintJoint ==
    /\ setup.jointStats /\ Len(setup.ids) > 1
    /\ PrintGains({SumFunction([s \in Due |-> Gain(s, f)]) : f \in {"accepted", "built"}})

PrintEach ==
    /\ ~(setup.jointStats /\ Len(setup.ids) > 1)
    /\ PrintGains({Gain(s, f) : s \in Due, f \in {"accepted", "built"}})

ServerBegins  == setup.class = "serverConsumer" /\ BeginInterval
ServerReads   == setup.class = "serverConsumer" /\ (TestRestart \/ ReadCounters \/ RollOver)
ServerPrints  == setup.class = "serverConsumer" /\ (PrintJoint \/ PrintEach)

Statistics ==
    \/ ServerBegins \/ ServerReads \/ ServerPrints
    \/ /\ setup.class = "EjfatConsumer"
       /\ \/ BeginInterval \/ TestRestart \/ ReadCounters \/ RollOver
          \/ PrintJoint \/ PrintEach

(***************************************************************************)
(* The destructor: the threads are told to end, but not joined.            *)
(***************************************************************************)
Destroy ==
    /\ CanFail
    /\ running /\ stage = "ready" /\ ~endThreads
    /\ \A u \in Users : user[u].pc # "popped"
    /\ endThreads' = TRUE
    /\ UNCHANGED <<setup, stage, recv, shared, stats, user, fill, printer, running,
                   fell>>

\* Its members are destroyed while the threads are joinable: std::terminate.
Destroyed ==
    /\ running /\ endThreads
    /\ running' = FALSE
    /\ UNCHANGED <<setup, stage, recv, shared, stats, user, fill, printer,
                   endThreads, fell>>

\* Nothing more comes in.
Finished ==
    /\ \/ ~running
       \/ \A s \in Sources : \/ recv[s].pc = "ended"
                             \/ recv[s].assembled = MaxEvents(s)
    /\ UNCHANGED vars

Next ==
    \/ Constructing
    \/ \E s \in Sources : EjfatReceiving(s) \/ ServerReceiving(s)
    \/ \E u \in Users : EjfatGetEvent(u) \/ ServerGetEvent(u)
    \/ EjfatSample \/ ServerSample
    \/ ReportFails
    \/ Statistics
    \/ Destroy
    \/ Destroyed
    \/ Finished

Spec == Init /\ [][Next]_vars

-----------------------------------------------------------------------------
(***************************************************************************)
(* Properties.                                                             *)
(***************************************************************************)
\* The item an entry points to still holds the event that was pushed.
Intact(e) == slots[e.src][e.slot].event = e.event

\* The receiving thread has not come round the vector since the push of e.
NotLapped(e) == recv[e.src].pushed < e.order + QSize

Held == {user[u].item : u \in {v \in Users : user[v].pc # "idle"}}

\* Every item on the queue holds the complete event its thread pushed: the
\* item a receiving thread writes (EjfatConsumer.cpp:998) is never on the queue,
\* however full the queue is, because the vector has one item more than it; and
\* an event taken from the queue stays intact until its source's thread has
\* pushed QSIZE more (getEvent() returns a pointer into the item,
\* EjfatConsumer.cpp:1165).
IntactUntilLapped ==
    /\ \A i \in DOMAIN queue : Intact(queue[i])
    /\ \A e \in Held : NotLapped(e) => Intact(e)

\* The number getEvent() of serverConsumer returns is the tick of the event it
\* returns (serverConsumer.cpp:1216), although it is read from the item after
\* the pop, and items are used again when their event was dumped.
NumberIsTheEvents ==
    \A u \in Users :
        setup.class = "serverConsumer" /\ user[u].pc = "holding"
            /\ NotLapped(user[u].item)
        => user[u].eventNum = user[u].item.tick

\* The count that is kept by hand (EjfatConsumer.cpp:1044 and 1160) differs from
\* the length of the queue exactly by the pushes not yet counted and the pops
\* not yet counted, so it is right whenever no thread is in between.
QueueSizeTracks ==
    queueSize = Len(queue)
                - Cardinality({s \in Sources : recv[s].pc = "count"})
                + Cardinality({u \in Users : user[u].pc = "popped"})

\* While a source's ticks only rise, no restart is seen (EjfatConsumer.cpp:
\* 1064-1083) although events are dumped when the queue is full, and so
\* builtBuffers counts every event that was queued, until the printing thread
\* starts over.
NoRestartWhileRising ==
    \A s \in Sources \ fell :
        printer.skippedFirst[s] < 2 /\ ~printer.rolled =>
            stats[s].built = recv[s].pushed - (IF recv[s].pc = "count" THEN 1 ELSE 0)

\* The fill level that is reported to the control plane is that of the last
\* fcount samples (EjfatConsumer.cpp:788 and 846-858): the values kept are those,
\* each once, and the running total is their sum for as long as the queue size,
\* which is raised after the push and may be lowered before that, was never found
\* below zero.  If it was, the total may stay too high for good, since it is kept
\* from going below zero itself (866), but it never understates the samples, so
\* that a loaded consumer is not given more work.
ReportedFromWindow ==
    LET sum == SumFunction(fill.values)
    IN  /\ Range(fill.age) = 0 .. Fcount - 1
        /\ sum <= fill.total
        /\ fill.wasNegative \/ fill.total = sum

\* While no source restarts and nothing rolls over, what is printed is never
\* negative and no event is printed twice (EjfatConsumer.cpp:457-741; of the
\* last event only a packet may have come): neither
\* the uninitialized copies, nor a counter set to zero that the receiving thread
\* writes back, show in the output.
PrintedOnce ==
    fell = {} /\ ~printer.rolled =>
        /\ \A n \in printer.shown : n >= 0
        /\ \A s \in Sources :
              /\ printer.total[s].accepted
                    <= recv[s].assembled + (IF recv[s].pc = "ended" THEN 1 ELSE 0)
              /\ printer.total[s].built <= recv[s].pushed
=============================================================================
