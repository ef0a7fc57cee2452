------------------------ MODULE EjfatConsumerProofs ------------------------
(***************************************************************************)
(* Theorems about EjfatConsumer for every capacity of the queue, number of *)
(* sources and user threads, and whatever is sent.                         *)
(***************************************************************************)
EXTENDS EjfatConsumer, SumLemmas, FiniteSetTheorems, SequenceTheorems, TLAPS

-----------------------------------------------------------------------------
(* Places in the vector of items.                                          *)

LEMMA VectorSizeType == VectorSize \in Nat \ {0} /\ QSize \in Nat \ {0}
BY ConsumerAssumption DEF VectorSize

\* A remainder is what is left of a number.
LEMMA DivMod ==
  ASSUME NEW V \in Nat \ {0}, NEW a \in Nat
  PROVE  /\ a = V * (a \div V) + (a % V)
         /\ a \div V \in Nat
         /\ a % V \in 0 .. V - 1
BY SMT

\* A number has one remainder only.
LEMMA RemainderUnique ==
  ASSUME NEW V \in Nat \ {0}, NEW p \in Int, NEW q \in Int,
         NEW i \in 0 .. V - 1, NEW j \in 0 .. V - 1, V * p + i = V * q + j
  PROVE  i = j
<1>1. V * (p - q) = j - i
  BY SMT
<1>2. CASE p - q >= 1
  <2>1. V * (p - q) >= V
    BY <1>2, SMT
  <2> QED BY <2>1, <1>1
<1>3. CASE p - q <= -1
  <2>1. V * (q - p) >= V
    BY <1>3, SMT
  <2>2. V * (p - q) = 0 - V * (q - p)
    BY SMT
  <2> QED BY <2>1, <2>2, <1>1
<1>4. CASE p - q = 0
  <2>1. V * (p - q) = 0
    BY <1>4, SMT
  <2> QED BY <2>1, <1>1
<1> QED BY <1>2, <1>3, <1>4

\* Numbers less than V apart have different remainders.
LEMMA PlacesDiffer ==
  ASSUME NEW V \in Nat \ {0}, NEW a \in Nat, NEW b \in Nat, a < b, b - a < V
  PROVE  a % V # b % V
<1> DEFINE p == a \div V
           q == b \div V
<1> SUFFICES ASSUME a % V = b % V PROVE FALSE
  OBVIOUS
<1>1. /\ a = V * p + (a % V) /\ b = V * q + (b % V)
      /\ p \in Nat /\ q \in Nat /\ a % V \in 0 .. V - 1
  BY DivMod
<1> HIDE DEF p, q
<1>2. b - a = V * q - V * p /\ V * q - V * p = V * (q - p)
  BY <1>1, SMT
<1>3. p \in Int /\ q \in Int
  BY <1>1
<1>4. CASE q - p >= 1
  <2>1. V * (q - p) >= V
    BY <1>3, <1>4, SMT
  <2> QED BY <2>1, <1>2
<1>5. CASE q - p <= 0
  <2>1. V * (p - q) >= 0 /\ V * (q - p) = 0 - V * (p - q)
    BY <1>3, <1>5, SMT
  <2>2. V * (p - q) \in Int
    BY <1>3, SMT
  <2> QED BY <2>1, <2>2, <1>2
<1>6. q - p \in Int
  BY <1>3
<1> QED BY <1>4, <1>5, <1>6

\* Going on by one place is going on by one number.
LEMMA NextPlace ==
  ASSUME NEW n \in Nat
  PROVE  SlotAfter(n % VectorSize) = (n + 1) % VectorSize
<1> DEFINE V == VectorSize
<1> HIDE DEF V
<1> DEFINE i == n % V
           p == n \div V
<1>1. V \in Nat \ {0}
  BY VectorSizeType DEF V
<1>2. n = V * p + i /\ p \in Nat /\ i \in 0 .. V - 1
  BY <1>1, DivMod
<1>3. /\ n + 1 = V * ((n + 1) \div V) + ((n + 1) % V)
      /\ (n + 1) \div V \in Nat /\ (n + 1) % V \in 0 .. V - 1
  <2>1. n + 1 \in Nat
    OBVIOUS
  <2> QED BY ONLY <2>1, <1>1, DivMod
<1>4. /\ i + 1 = V * ((i + 1) \div V) + ((i + 1) % V)
      /\ (i + 1) \div V \in Nat /\ (i + 1) % V \in 0 .. V - 1
  <2>1. i + 1 \in Nat
    BY <1>1, <1>2
  <2> HIDE DEF i
  <2> QED BY ONLY <2>1, <1>1, DivMod
<1> DEFINE q == (n + 1) \div V
           r == (i + 1) \div V
           j == (n + 1) % V
           k == (i + 1) % V
<1> HIDE DEF i, p, q, r, j, k
<1>5. V * q + j = V * (p + r) + k
  <2>1. V * (p + r) = V * p + V * r
    BY <1>1, <1>2, <1>4, SMT DEF r
  <2>2. V * p \in Int /\ V * r \in Int /\ V * q \in Int /\ i \in Int
    BY <1>1, <1>2, <1>3, <1>4, SMT DEF r, q
  <2> QED BY <2>1, <2>2, <1>2, <1>3, <1>4 DEF q, r, j, k
<1>6. j = k
  <2>1. q \in Int /\ p + r \in Int /\ j \in 0 .. V - 1 /\ k \in 0 .. V - 1
    BY <1>2, <1>3, <1>4 DEF q, r, j, k
  <2> QED BY <2>1, <1>1, <1>5, RemainderUnique
<1> QED BY <1>6 DEF SlotAfter, j, k, i, V

-----------------------------------------------------------------------------
(* The variables of the way from the sources to the user.                  *)

TickNumbers == 0 .. TickModulus - 1
Places == 0 .. VectorSize - 1

Locals == [pc : {"loop", "recv", "building", "push", "count", "ended"},
           currentQItem : Places, tick : TickNumbers, prevTick : TickNumbers,
           largestTick : TickNumbers, firstLoop : BOOLEAN,
           assembled : Nat, pushed : Nat]

Entries == [src : Nat, slot : Nat, event : Nat, tick : Nat, order : Nat]
Getters == [pc : {"idle", "popped", "holding"}, item : Entries, eventNum : Nat]

\* The length of an item's buffer is left open: how far it grows does not matter.
Items ==
    /\ DOMAIN slots = Sources
    /\ \A s \in Sources : DOMAIN slots[s] = Places
    /\ \A s \in Sources : \A i \in Places :
          /\ DOMAIN slots[s][i] = {"event", "tick", "bufBytes", "dataBytes"}
          /\ slots[s][i].event \in Nat /\ slots[s][i].tick \in TickNumbers

Types ==
    /\ setup \in Setups
    /\ recv \in [Sources -> Locals]
    /\ Items
    /\ queue \in Seq(Entries) /\ queueSize \in Int
    /\ user \in [Users -> Getters]

core == <<setup, recv, slots, queue, queueSize, user>>

\* What the objects the user may make are like.
LEMMA SetupFacts ==
  ASSUME setup \in Setups
  PROVE  /\ Sources \subseteq Nat \ {0} /\ IsFiniteSet(Sources)
         /\ setup.ticks \subseteq 0 .. TickModulus - 2
         /\ setup.ids \in Seq(Nat \ {0})
<1>1. setup.ids \in Seq(Nat \ {0}) /\ setup.ticks \subseteq 0 .. TickModulus - 2
  BY ConsumerAssumption
<1>2. Sources = {setup.ids[i] : i \in 1 .. Len(setup.ids)}
  BY <1>1 DEF Sources, Range
<1>3. Sources \subseteq Nat \ {0}
  BY <1>1, <1>2
<1>4. IsFiniteSet(Sources)
  <2>1. Len(setup.ids) \in Nat
    BY <1>1
  <2>2. IsFiniteSet(1 .. Len(setup.ids))
    BY <2>1, FS_Interval
  <2>3. setup.ids \in Surjection(1 .. Len(setup.ids), Sources)
    BY <1>1, <1>2 DEF Surjection
  <2> QED BY <2>2, <2>3, FS_Surjection
<1> QED BY <1>1, <1>3, <1>4

LEMMA NoTickType == NoTick \in TickNumbers /\ TickModulus \in Nat \ {0}
BY ConsumerAssumption DEF NoTick, TickNumbers

LEMMA InitTypes == Init => Types
<1> SUFFICES ASSUME Init PROVE Types
  OBVIOUS
<1>1. /\ 0 \in Places /\ NoTick \in TickNumbers /\ 0 \in TickNumbers /\ TRUE \in BOOLEAN
  BY NoTickType, VectorSizeType DEF Places, TickNumbers
<1>2. recv \in [Sources -> Locals]
  BY <1>1 DEF Init, Locals
<1>3. Items
  BY <1>1 DEF Init, Items, NewItem, Partial, Places
<1>4. user \in [Users -> Getters]
  BY DEF Init, Getters, Entries, NoEntry
<1>5. queue \in Seq(Entries) /\ queueSize \in Int /\ setup \in Setups
  BY DEF Init
<1> QED BY <1>2, <1>3, <1>4, <1>5 DEF Types

-----------------------------------------------------------------------------
(* What the steps do to these variables.                                   *)

\* Writing an item of a source leaves all others as they are.
Writes(s, i) ==
    /\ DOMAIN slots' = DOMAIN slots
    /\ DOMAIN slots'[s] = DOMAIN slots[s]
    /\ \A x \in Sources : x # s => slots'[x] = slots[x]
    /\ \A j \in Places : j # i => slots'[s][j] = slots[s][j]

LEMMA ReceivePartShape ==
  ASSUME Types, NEW s \in Sources, ReceivePart(s)
  PROVE  LET i == recv[s].currentQItem
         IN  /\ recv[s].pc = "recv"
             /\ recv' = [recv EXCEPT ![s] = [recv[s] EXCEPT !.pc = "building"]]
             /\ i \in Places /\ Writes(s, i)
             /\ slots'[s][i] = [slots[s][i] EXCEPT !.event = 0]
             /\ UNCHANGED <<setup, queue, queueSize, user>>
<1> DEFINE i == recv[s].currentQItem
<1>1. recv[s] \in Locals
  BY DEF Types
<1>2. i \in Places
  BY <1>1 DEF Locals
<1>3. slots' = [slots EXCEPT ![s] = [slots[s] EXCEPT ![i] = [slots[s][i] EXCEPT !.event = 0]]]
  BY DEF ReceivePart, Partial
<1> HIDE DEF i
<1>4. Writes(s, i) /\ slots'[s][i] = [slots[s][i] EXCEPT !.event = 0]
  BY <1>2, <1>3 DEF Types, Items, Writes
<1>5. /\ recv' = [recv EXCEPT ![s] = [recv[s] EXCEPT !.pc = "building"]]
      /\ recv[s].pc = "recv" /\ UNCHANGED <<setup, queue, queueSize, user>>
  BY DEF ReceivePart, At, others
<1> QED BY <1>2, <1>4, <1>5 DEF i

LEMMA AssembledShape ==
  ASSUME Types, NEW s \in Sources, NEW t \in setup.ticks, NEW bytes, Assembled(s, t, bytes)
  PROVE  LET i == recv[s].currentQItem
             n == recv[s].assembled + 1
             tick == ItemTick(slots[s][i].tick, t)
         IN  /\ recv[s].pc = "building"
             /\ recv' = [recv EXCEPT ![s] = [recv[s] EXCEPT !.pc = "push", !.tick = t,
                                                            !.assembled = n]]
             /\ i \in Places /\ Writes(s, i)
             /\ DOMAIN slots'[s][i] = {"event", "tick", "bufBytes", "dataBytes"}
             /\ slots'[s][i].event = n /\ slots'[s][i].tick = tick
             /\ UNCHANGED <<setup, queue, queueSize, user>>
<1> DEFINE i == recv[s].currentQItem
           n == recv[s].assembled + 1
           tick == ItemTick(slots[s][i].tick, t)
           b == Grown(slots[s][i].bufBytes, bytes)
<1>1. recv[s] \in Locals
  BY DEF Types
<1>2. i \in Places
  BY <1>1 DEF Locals
<1>3. slots' = [slots EXCEPT ![s] = [slots[s] EXCEPT ![i] =
                   [event |-> n, tick |-> tick, bufBytes |-> b, dataBytes |-> bytes]]]
  BY DEF Assembled
<1>4. /\ recv' = [recv EXCEPT ![s] = [recv[s] EXCEPT !.pc = "push", !.tick = t,
                                                     !.assembled = n]]
      /\ recv[s].pc = "building" /\ UNCHANGED <<setup, queue, queueSize, user>>
  BY DEF Assembled, At, others
<1> HIDE DEF i, n, tick, b
<1>5. /\ Writes(s, i)
      /\ slots'[s][i] = [event |-> n, tick |-> tick, bufBytes |-> b, dataBytes |-> bytes]
  BY <1>2, <1>3 DEF Types, Items, Writes
<1>6. /\ DOMAIN slots'[s][i] = {"event", "tick", "bufBytes", "dataBytes"}
      /\ slots'[s][i].event = n /\ slots'[s][i].tick = tick
  BY <1>5
<1> QED BY <1>2, <1>4, <1>5, <1>6 DEF i, n, tick

\* What a step of the receiving thread of s does to its locals r.
Begun(r, end) == [r EXCEPT !.pc = IF end THEN "ended" ELSE "recv",
                           !.prevTick = r.tick, !.tick = NoTick]
Ended(r)   == [r EXCEPT !.pc = "ended"]
Dumped(r)  == [r EXCEPT !.pc = "loop"]
Pushed(r)  == [r EXCEPT !.pc = "count", !.pushed = r.pushed + 1,
                        !.currentQItem = SlotAfter(r.currentQItem)]
Looked(r)  == [r EXCEPT !.pc = "loop", !.firstLoop = FALSE,
                        !.prevTick = PreviousTick(r), !.largestTick = LargestTick(r)]

LEMMA BeginBufferShape ==
  ASSUME Types, NEW s \in Sources, BeginBuffer(s)
  PROVE  /\ recv[s].pc = "loop"
         /\ recv' = [recv EXCEPT ![s] = Begun(recv[s], endThreads)]
         /\ UNCHANGED <<setup, slots, queue, queueSize, user>>
<1>1. recv[s] \in Locals
  BY DEF Types
<1> QED BY <1>1 DEF BeginBuffer, At, shared, others, Types, Begun, Locals

LEMMA AssembleFailsShape ==
  ASSUME Types, NEW s \in Sources, AssembleFails(s)
  PROVE  /\ recv[s].pc = "building"
         /\ recv' = [recv EXCEPT ![s] = Ended(recv[s])]
         /\ UNCHANGED <<setup, slots, queue, queueSize, user>>
BY DEF AssembleFails, At, shared, others, Types, Ended, Locals

LEMMA PushShape ==
  ASSUME Types, NEW s \in Sources, Push(s)
  PROVE  LET i == recv[s].currentQItem
         IN  /\ recv[s].pc = "push" /\ Len(queue) < QSize
             /\ recv' = [recv EXCEPT ![s] = Pushed(recv[s])]
             /\ queue' = Append(queue, [src |-> s, slot |-> i,
                                        order |-> recv[s].pushed + 1,
                                        event |-> slots[s][i].event,
                                        tick |-> recv[s].tick])
             /\ UNCHANGED <<setup, slots, queueSize, user>>
BY DEF Push, At, HasRoom, others, Types, Pushed, Locals

LEMMA PushFullShape ==
  ASSUME Types, NEW s \in Sources, PushFull(s)
  PROVE  /\ recv[s].pc = "push"
         /\ recv' = [recv EXCEPT ![s] = Dumped(recv[s])]
         /\ UNCHANGED <<setup, slots, queue, queueSize, user>>
BY DEF PushFull, At, shared, others, Types, Dumped, Locals

LEMMA CountShape ==
  ASSUME Types, NEW s \in Sources, Count(s)
  PROVE  /\ recv[s].pc = "count"
         /\ recv' = [recv EXCEPT ![s] = Looked(recv[s])]
         /\ queueSize' = queueSize + 1
         /\ UNCHANGED <<setup, slots, queue, user>>
BY DEF Count, Counted, At, others, Types, Looked

\* The printing thread changes its locals and the counters only.
LEMMA StatisticsFrame == Statistics => UNCHANGED notPrinter
<1>1. BeginInterval => UNCHANGED notPrinter
  BY Zenon DEF BeginInterval
<1>2. TestRestart \/ ReadCounters \/ RollOver => UNCHANGED notPrinter
  <2>1. TestRestart => UNCHANGED notPrinter
    BY SMT DEF TestRestart
  <2>2. ReadCounters => UNCHANGED notPrinter
    BY SMT DEF ReadCounters
  <2>3. RollOver => UNCHANGED notPrinter
    BY Zenon DEF RollOver
  <2> QED BY <2>1, <2>2, <2>3
<1>3. PrintJoint \/ PrintEach => UNCHANGED notPrinter
  <2>1. ASSUME NEW n, PrintGains(n) PROVE UNCHANGED notPrinter
    <3>1. UNCHANGED <<stats, notPrinter>>
      BY <2>1, Zenon DEF PrintGains
    <3> QED BY <3>1
  <2>2. PrintJoint => UNCHANGED notPrinter
    <3> DEFINE n == {SumFunction([s \in Due |-> Gain(s, f)]) : f \in {"accepted", "built"}}
    <3>1. PrintJoint => PrintGains(n)
      BY Zenon DEF PrintJoint
    <3> HIDE DEF n
    <3> QED BY <3>1, <2>1
  <2>3. PrintEach => UNCHANGED notPrinter
    <3> DEFINE n == {Gain(s, f) : s \in Due, f \in {"accepted", "built"}}
    <3>1. PrintEach => PrintGains(n)
      BY SMT DEF PrintEach
    <3> HIDE DEF n
    <3> QED BY <3>1, <2>1
  <2> QED BY <2>2, <2>3
<1> QED BY <1>1, <1>2, <1>3, Zenon DEF Statistics, ServerBegins, ServerReads, ServerPrints

\* All other steps leave these variables alone.
LEMMA OtherSteps ==
  ASSUME [Next]_vars,
         ~\E s \in Sources : Receiving(s),
         ~\E u \in Users : Getting(u)
  PROVE  core' = core
<1>1. CASE Constructing
  BY <1>1 DEF Constructing, DirectConstructor, SetFromURI, Register, CreateDataSockets,
     StartupGrpcThread, ServerDirectConstructor, ServerConstructor, ServerCreateDataSockets,
     CreateServerSocket, RegisterWithSimpleServer, Construct, Fails, shared, core
<1>2. CASE EjfatSample \/ ServerSample
  <2>1. Sample
    BY <1>2 DEF EjfatSample, ServerSample
  <2> QED BY <2>1 DEF Sample, shared, core
<1>3. CASE ReportFails \/ Destroy \/ Destroyed
  BY <1>3 DEF ReportFails, Destroy, Destroyed, shared, core
<1>4. CASE Statistics
  BY <1>4, StatisticsFrame DEF notPrinter, shared, core
<1>5. CASE Finished \/ vars' = vars
  BY <1>5 DEF Finished, vars, shared, core
<1> QED
  BY <1>1, <1>2, <1>3, <1>4, <1>5 DEF Next, EjfatReceiving, ServerReceiving,
     EjfatGetEvent, ServerGetEvent

\* The objects of the program do not change.
LEMMA SetupStays == Types /\ [Next]_vars => setup' = setup /\ Sources' = Sources
<1> SUFFICES ASSUME Types, [Next]_vars PROVE setup' = setup
  BY DEF Sources
<1>1. ASSUME NEW s \in Sources, Receiving(s) PROVE setup' = setup
  BY <1>1, ReceivePartShape, AssembledShape, BeginBufferShape, AssembleFailsShape,
     PushShape, PushFullShape, CountShape DEF Receiving
<1>2. ASSUME NEW u \in Users, Getting(u) PROVE setup' = setup
  BY <1>2 DEF Getting, Pop, PopEmpty, GotEvent, notUsers
<1>3. CASE ~(\E s \in Sources : Receiving(s)) /\ ~(\E u \in Users : Getting(u))
  BY <1>3, OtherSteps DEF core
<1> QED BY <1>1, <1>2, <1>3

\* What a step of its receiving thread may make of the locals of a source.
LEMMA LocalsTypes ==
  ASSUME NEW r \in Locals
  PROVE  /\ \A end \in {TRUE, FALSE} : Begun(r, end) \in Locals
         /\ Ended(r) \in Locals /\ Dumped(r) \in Locals
         /\ Pushed(r) \in Locals /\ Looked(r) \in Locals
         /\ [r EXCEPT !.pc = "building"] \in Locals
         /\ \A t \in 0 .. TickModulus - 2 :
               [r EXCEPT !.pc = "push", !.tick = t, !.assembled = r.assembled + 1] \in Locals
<1>1. NoTick \in TickNumbers /\ 0 .. TickModulus - 2 \subseteq TickNumbers
  BY NoTickType DEF TickNumbers
<1>2. SlotAfter(r.currentQItem) \in Places
  <2>1. r.currentQItem + 1 \in Nat
    BY VectorSizeType DEF Locals, Places
  <2>2. (r.currentQItem + 1) % VectorSize \in 0 .. VectorSize - 1
    BY ONLY <2>1, VectorSizeType, DivMod
  <2> QED BY <2>2 DEF SlotAfter, Places
<1>3. PreviousTick(r) \in TickNumbers /\ LargestTick(r) \in TickNumbers
  BY DEF PreviousTick, LargestTick, Locals
<1>4. Looked(r) \in Locals
  BY <1>3 DEF Looked, Locals
<1>5. Pushed(r) \in Locals
  <2>1. r.pushed + 1 \in Nat
    BY DEF Locals
  <2> QED BY <1>2, <2>1, Zenon DEF Pushed, Locals
<1>6. \A end \in {TRUE, FALSE} : Begun(r, end) \in Locals
  BY <1>1 DEF Begun, Locals
<1>7. Ended(r) \in Locals /\ Dumped(r) \in Locals /\ [r EXCEPT !.pc = "building"] \in Locals
  BY DEF Ended, Dumped, Locals
<1>8. \A t \in 0 .. TickModulus - 2 :
         [r EXCEPT !.pc = "push", !.tick = t, !.assembled = r.assembled + 1] \in Locals
  <2>1. r.assembled + 1 \in Nat
    BY DEF Locals
  <2> DEFINE n == r.assembled + 1
  <2> HIDE DEF n
  <2>2. n \in Nat
    BY <2>1 DEF n
  <2>3. \A t \in TickNumbers : [r EXCEPT !.pc = "push", !.tick = t, !.assembled = n] \in Locals
    BY <2>2 DEF Locals
  <2> QED BY <1>1, <2>3, Zenon DEF n
<1> QED BY <1>4, <1>5, <1>6, <1>7, <1>8

-----------------------------------------------------------------------------
(* The inductive invariant.                                                *)

\* A thread's current item is the one its next push is for.
Current(s) == recv[s].currentQItem = recv[s].pushed % VectorSize

\* An entry of the queue, or one that a user has taken from it.
InUse(e) ==
    \/ \E i \in 1 .. Len(queue) : queue[i] = e
    \/ \E u \in Users : user[u].pc # "idle" /\ user[u].item = e

ItemTickOf(e) ==
    setup.class = "serverConsumer" => slots[e.src][e.slot].tick = e.tick

\* Its place is known from the number of its push.
Good(e) ==
    /\ e.src \in Sources
    /\ 1 <= e.order /\ e.order <= recv[e.src].pushed
    /\ e.slot = (e.order - 1) % VectorSize
    /\ NotLapped(e) => Intact(e) /\ ItemTickOf(e)

EntriesGood == \A e \in Entries : InUse(e) => Good(e)

\* At most the pushes that lie before an entry on the queue came after it.
LastPushes ==
    /\ Len(queue) <= QSize
    /\ \A i \in 1 .. Len(queue) :
          recv[queue[i].src].pushed - queue[i].order <= Len(queue) - i

\* A complete event's item has its tick when it is pushed.
Ticked(s) ==
    setup.class = "serverConsumer" /\ recv[s].pc = "push"
    => slots[s][recv[s].currentQItem].tick = recv[s].tick

QueueInv ==
    /\ Types
    /\ \A s \in Sources : Current(s) /\ Ticked(s)
    /\ LastPushes
    /\ EntriesGood
    /\ NumberIsTheEvents

LEMMA InitQueue == Init => QueueInv
<1> SUFFICES ASSUME Init PROVE QueueInv
  OBVIOUS
<1>1. Types
  BY InitTypes
<1>2. queue = << >> /\ Len(queue) = 0
  BY DEF Init
<1>3. \A u \in Users : user[u].pc = "idle"
  BY DEF Init
<1>4. \A s \in Sources : recv[s].currentQItem = 0 /\ recv[s].pushed = 0 /\ recv[s].pc = "loop"
  BY DEF Init
<1>5. 0 % VectorSize = 0
  BY VectorSizeType
<1>6. \A s \in Sources : Current(s) /\ Ticked(s)
  BY <1>4, <1>5 DEF Current, Ticked
<1>7. LastPushes
  BY <1>2, VectorSizeType DEF LastPushes
<1>8. EntriesGood
  BY <1>2, <1>3 DEF EntriesGood, InUse
<1>9. NumberIsTheEvents
  BY <1>3 DEF NumberIsTheEvents
<1> QED BY <1>1, <1>6, <1>7, <1>8, <1>9 DEF QueueInv

\* An entry stays good when its source's thread goes on: the item written is
\* the one of a push to come.
LEMMA GoodStays ==
  ASSUME Types, UNCHANGED setup, NEW s \in Sources, Current(s), NEW r \in Locals,
         recv' = [recv EXCEPT ![s] = r], recv[s].pushed <= r.pushed,
         UNCHANGED slots \/ Writes(s, recv[s].currentQItem),
         NEW e \in Entries, Good(e)
  PROVE  Good(e)'
<1> DEFINE p == recv[s].pushed
<1>1. /\ e.src \in Sources /\ 1 <= e.order /\ e.order <= recv[e.src].pushed
      /\ e.slot = (e.order - 1) % VectorSize /\ e.order \in Nat
  BY DEF Good, Entries
<1>2. /\ recv[s] \in Locals /\ recv[e.src] \in Locals /\ p \in Nat /\ r.pushed \in Nat
      /\ recv[e.src].pushed \in Nat /\ QSize \in Nat
  BY <1>1, VectorSizeType DEF Types, Locals
<1>3. recv'[e.src] = IF e.src = s THEN r ELSE recv[e.src]
  BY <1>1 DEF Types
<1>4. recv[e.src].pushed <= recv'[e.src].pushed /\ recv'[e.src].pushed \in Nat
  BY <1>2, <1>3
<1>5. Sources' = Sources
  BY DEF Sources
<1>6. e.slot \in Places
  <2>1. e.order - 1 \in Nat
    BY <1>1
  <2> QED BY ONLY <2>1, <1>1, DivMod, VectorSizeType DEF Places
<1>7. ASSUME NotLapped(e)' PROVE Intact(e)' /\ ItemTickOf(e)'
  <2>1. NotLapped(e)
    BY <1>2, <1>4, <1>7, <1>1 DEF NotLapped
  <2>2. Intact(e) /\ ItemTickOf(e)
    BY <2>1 DEF Good
  <2>3. slots'[e.src][e.slot] = slots[e.src][e.slot]
    <3>1. CASE UNCHANGED slots
      BY <3>1
    <3>2. CASE Writes(s, recv[s].currentQItem) /\ e.src # s
      BY <3>2, <1>1 DEF Writes
    <3>3. CASE Writes(s, recv[s].currentQItem) /\ e.src = s
      <4>1. e.order - 1 \in Nat /\ e.order - 1 < p /\ p - (e.order - 1) < VectorSize
        BY <1>1, <1>2, <2>1, <3>3 DEF NotLapped, VectorSize
      <4> HIDE DEF p
      <4>2. (e.order - 1) % VectorSize # p % VectorSize
        BY ONLY <4>1, <1>2, PlacesDiffer, VectorSizeType
      <4>3. e.slot # recv[s].currentQItem
        BY <4>2, <1>1 DEF Current, p
      <4> QED BY <4>3, <3>3, <1>6 DEF Writes
    <3> QED BY <3>1, <3>2, <3>3
  <2> QED BY <2>2, <2>3 DEF Intact, ItemTickOf
<1> QED BY <1>1, <1>2, <1>4, <1>5, <1>7 DEF Good

-----------------------------------------------------------------------------
(* Every step preserves it.                                                *)

LEMMA ItemsStay ==
  ASSUME Items, UNCHANGED setup, NEW s \in Sources, NEW i \in Places, Writes(s, i),
         DOMAIN slots'[s][i] = {"event", "tick", "bufBytes", "dataBytes"},
         slots'[s][i].event \in Nat, slots'[s][i].tick \in TickNumbers
  PROVE  Items'
<1>1. Sources' = Sources /\ Places' = Places /\ TickNumbers' = TickNumbers
  BY DEF Sources, Places, TickNumbers, VectorSize
<1>2. /\ DOMAIN slots' = Sources
      /\ \A x \in Sources : DOMAIN slots'[x] = Places
  BY DEF Items, Writes
<1>3. ASSUME NEW x \in Sources, NEW j \in Places
      PROVE  /\ DOMAIN slots'[x][j] = {"event", "tick", "bufBytes", "dataBytes"}
             /\ slots'[x][j].event \in Nat /\ slots'[x][j].tick \in TickNumbers
  <2>1. CASE x = s /\ j = i
    BY <2>1
  <2>2. CASE ~(x = s /\ j = i)
    <3>1. slots'[x][j] = slots[x][j]
      BY <2>2 DEF Writes
    <3> QED BY <3>1 DEF Items
  <2> QED BY <2>1, <2>2
<1> QED BY <1>1, <1>2, <1>3 DEF Items

\* A step of the receiving thread of s that leaves queue and place as they are.
LEMMA QuietStep ==
  ASSUME QueueInv, UNCHANGED <<setup, queue, user>>, queueSize' \in Int,
         NEW s \in Sources, NEW r \in Locals,
         recv' = [recv EXCEPT ![s] = r], recv[s].pushed = r.pushed,
         recv[s].currentQItem = r.currentQItem,
         UNCHANGED slots \/ Writes(s, recv[s].currentQItem),
         Items', Ticked(s)'
  PROVE  QueueInv'
<1>1. /\ Types /\ EntriesGood /\ LastPushes /\ NumberIsTheEvents /\ Sources' = Sources
      /\ \A x \in Sources : Current(x) /\ Ticked(x)
  BY DEF QueueInv, Sources
<1>2. \A x \in Sources : recv'[x] = IF x = s THEN r ELSE recv[x]
  BY <1>1 DEF Types
<1>3. \A x \in Sources : recv'[x].pushed = recv[x].pushed
                       /\ recv'[x].currentQItem = recv[x].currentQItem
  BY <1>2
<1>4. Types'
  <2>1. recv' \in [Sources -> Locals]
    BY <1>1 DEF Types
  <2>2. /\ setup' \in Setups /\ queue' \in Seq(Entries) /\ user' \in [Users -> Getters]
    BY <1>1 DEF Types
  <2> QED BY <2>1, <2>2, <1>1 DEF Types
<1>5. \A x \in Sources : Current(x)'
  BY <1>1, <1>3 DEF Current
<1>6. \A x \in Sources : Ticked(x)'
  <2> SUFFICES ASSUME NEW x \in Sources, x # s PROVE Ticked(x)'
    OBVIOUS
  <2>1. recv'[x] = recv[x] /\ slots'[x] = slots[x]
    BY <1>2 DEF Writes
  <2> QED BY <2>1, <1>1 DEF Ticked
<1>7. EntriesGood'
  <2> SUFFICES ASSUME NEW e \in Entries, InUse(e)' PROVE Good(e)'
    BY DEF EntriesGood
  <2>1. Good(e)
    BY <1>1 DEF EntriesGood, InUse
  <2>2. recv[s].pushed <= r.pushed
    BY DEF Locals
  <2> QED BY <2>1, <2>2, <1>1, GoodStays
<1>8. LastPushes'
  <2> SUFFICES ASSUME NEW i \in 1 .. Len(queue)
               PROVE  recv'[queue[i].src].pushed - queue[i].order <= Len(queue) - i
    BY <1>1 DEF LastPushes
  <2>1. queue[i] \in Entries /\ InUse(queue[i])
    BY <1>1 DEF Types, InUse
  <2>2. queue[i].src \in Sources
    BY <2>1, <1>1 DEF EntriesGood, Good
  <2> QED BY <2>2, <1>1, <1>3 DEF LastPushes
<1>9. NumberIsTheEvents'
  <2> SUFFICES ASSUME NEW u \in Users, setup.class = "serverConsumer",
                      user[u].pc = "holding", NotLapped(user[u].item)'
               PROVE  user[u].eventNum = user[u].item.tick
    BY DEF NumberIsTheEvents
  <2>1. user[u].item \in Entries /\ InUse(user[u].item)
    BY <1>1 DEF Types, InUse, Getters
  <2>2. user[u].item.src \in Sources
    BY <2>1, <1>1 DEF EntriesGood, Good
  <2>3. NotLapped(user[u].item)
    BY <2>2, <1>3 DEF NotLapped
  <2> QED BY <2>3, <1>1 DEF NumberIsTheEvents
<1> QED BY <1>1, <1>4, <1>5, <1>6, <1>7, <1>8, <1>9 DEF QueueInv

LEMMA BeginBufferPreserves ==
  ASSUME QueueInv, NEW s \in Sources, BeginBuffer(s)
  PROVE  QueueInv'
<1>1. Types
  BY DEF QueueInv
<1> DEFINE r == Begun(recv[s], IF endThreads = TRUE THEN TRUE ELSE FALSE)
<1>2. /\ recv' = [recv EXCEPT ![s] = r]
      /\ UNCHANGED <<setup, slots, queue, queueSize, user>>
  BY <1>1, BeginBufferShape DEF Begun
<1>3. recv[s] \in Locals /\ r \in Locals
  BY <1>1, LocalsTypes DEF Types
<1>4. /\ recv[s].pushed = r.pushed /\ recv[s].currentQItem = r.currentQItem
      /\ r.pc \in {"ended", "recv"}
  BY <1>3 DEF Begun, Locals
<1> HIDE DEF r
<1>5. Items' /\ queueSize' \in Int
  BY <1>1, <1>2 DEF Types, Items, Sources, Places, TickNumbers, VectorSize
<1>6. Ticked(s)'
  BY <1>1, <1>2, <1>4 DEF Ticked, Types
<1> QED BY <1>2, <1>3, <1>4, <1>5, <1>6, QuietStep

LEMMA ReceivePartPreserves ==
  ASSUME QueueInv, NEW s \in Sources, ReceivePart(s)
  PROVE  QueueInv'
<1>1. Types
  BY DEF QueueInv
<1> DEFINE r == [recv[s] EXCEPT !.pc = "building"]
           i == recv[s].currentQItem
<1>2. /\ recv' = [recv EXCEPT ![s] = r] /\ i \in Places /\ Writes(s, i)
      /\ slots'[s][i] = [slots[s][i] EXCEPT !.event = 0]
      /\ UNCHANGED <<setup, queue, queueSize, user>>
  BY <1>1, ReceivePartShape
<1>3. recv[s] \in Locals /\ r \in Locals
  BY <1>1, LocalsTypes DEF Types
<1>4. /\ recv[s].pushed = r.pushed /\ recv[s].currentQItem = r.currentQItem
      /\ r.pc = "building"
  BY <1>3 DEF Locals
<1> HIDE DEF r, i
<1>5. Items' /\ queueSize' \in Int
  <2>1. /\ DOMAIN slots'[s][i] = {"event", "tick", "bufBytes", "dataBytes"}
        /\ slots'[s][i].event \in Nat /\ slots'[s][i].tick \in TickNumbers
    BY <1>1, <1>2 DEF Types, Items
  <2> QED BY <2>1, <1>1, <1>2, ItemsStay DEF Types
<1>6. Ticked(s)'
  BY <1>1, <1>2, <1>4 DEF Ticked, Types
<1> QED BY <1>2, <1>3, <1>4, <1>5, <1>6, QuietStep DEF i

LEMMA AssembledPreserves ==
  ASSUME QueueInv, NEW s \in Sources, NEW t \in setup.ticks, NEW bytes, Assembled(s, t, bytes)
  PROVE  QueueInv'
<1>1. Types
  BY DEF QueueInv
<1> DEFINE i == recv[s].currentQItem
           n == recv[s].assembled + 1
           r == [recv[s] EXCEPT !.pc = "push", !.tick = t, !.assembled = n]
           tick == ItemTick(slots[s][i].tick, t)
<1>2. /\ recv' = [recv EXCEPT ![s] = r] /\ i \in Places /\ Writes(s, i)
      /\ DOMAIN slots'[s][i] = {"event", "tick", "bufBytes", "dataBytes"}
      /\ slots'[s][i].event = n /\ slots'[s][i].tick = tick
      /\ UNCHANGED <<setup, queue, queueSize, user>>
  BY <1>1, AssembledShape
<1>3. t \in 0 .. TickModulus - 2 /\ t \in TickNumbers
  BY <1>1, SetupFacts, NoTickType DEF Types, TickNumbers
<1>4. recv[s] \in Locals /\ r \in Locals
  BY <1>1, <1>3, LocalsTypes DEF Types
<1>5. /\ recv[s].pushed = r.pushed /\ recv[s].currentQItem = r.currentQItem
      /\ r.tick = t /\ n \in Nat
  BY <1>4 DEF Locals
<1>6. tick \in TickNumbers /\ (setup.class = "serverConsumer" => tick = t)
  BY <1>1, <1>2, <1>3 DEF ItemTick, Types, Items
<1> HIDE DEF r, i, n, tick
<1>7. Items' /\ queueSize' \in Int
  BY <1>1, <1>2, <1>5, <1>6, ItemsStay DEF Types
<1>8. Ticked(s)'
  <2>1. recv'[s] = r
    BY <1>1, <1>2 DEF Types
  <2>2. recv'[s].currentQItem = i /\ recv'[s].tick = t
    BY <2>1, <1>5 DEF i
  <2> QED BY <2>2, <1>2, <1>6 DEF Ticked
<1> QED BY <1>2, <1>4, <1>5, <1>7, <1>8, QuietStep DEF i

\* The steps after which the thread is at neither of its two inner places.
LEMMA TurnPreserves ==
  ASSUME QueueInv, NEW s \in Sources, AssembleFails(s) \/ PushFull(s) \/ Count(s)
  PROVE  QueueInv'
<1>1. Types
  BY DEF QueueInv
<1>2. recv[s] \in Locals
  BY <1>1 DEF Types
<1>3. PICK r \in {Ended(recv[s]), Dumped(recv[s]), Looked(recv[s])} :
         /\ recv' = [recv EXCEPT ![s] = r]
         /\ queueSize' \in {queueSize, queueSize + 1}
         /\ UNCHANGED <<setup, slots, queue, user>>
  BY <1>1, AssembleFailsShape, PushFullShape, CountShape
<1>4. r \in Locals
  BY <1>2, <1>3, LocalsTypes
<1>5. /\ recv[s].pushed = r.pushed /\ recv[s].currentQItem = r.currentQItem
      /\ r.pc \in {"ended", "loop"}
  BY <1>2 DEF Ended, Dumped, Looked, Locals
<1>6. Items' /\ queueSize' \in Int
  BY <1>1, <1>3 DEF Types, Items, Sources, Places, TickNumbers, VectorSize
<1>7. Ticked(s)'
  BY <1>1, <1>3, <1>5 DEF Ticked, Types
<1> QED BY <1>3, <1>4, <1>5, <1>6, <1>7, QuietStep

LEMMA PushPreserves ==
  ASSUME QueueInv, NEW s \in Sources, Push(s)
  PROVE  QueueInv'
<1>1. /\ Types /\ EntriesGood /\ LastPushes /\ NumberIsTheEvents /\ Sources' = Sources
      /\ \A x \in Sources : Current(x) /\ Ticked(x)
  BY PushShape DEF QueueInv, Sources
<1> DEFINE r == Pushed(recv[s])
           i == recv[s].currentQItem
           p == recv[s].pushed
           entry == [src |-> s, slot |-> i, order |-> p + 1,
                     event |-> slots[s][i].event, tick |-> recv[s].tick]
<1>2. /\ recv' = [recv EXCEPT ![s] = r] /\ Len(queue) < QSize /\ recv[s].pc = "push"
      /\ queue' = Append(queue, entry)
      /\ UNCHANGED <<setup, slots, queueSize, user>>
  BY <1>1, PushShape
<1>3. recv[s] \in Locals /\ r \in Locals
  BY <1>1, LocalsTypes DEF Types
<1>4. /\ r.pushed = p + 1 /\ r.currentQItem = SlotAfter(i) /\ r.pc = "count"
      /\ i \in Places /\ p \in Nat /\ i = p % VectorSize /\ recv[s].tick \in TickNumbers
  BY <1>1, <1>3 DEF Pushed, Locals, Current
<1>5. entry \in Entries
  <2>1. /\ slots[s][i].event \in Nat /\ recv[s].tick \in Nat /\ i \in Nat /\ s \in Nat
        /\ p + 1 \in Nat
    BY <1>1, <1>4, SetupFacts DEF Types, Items, TickNumbers, Places
  <2> HIDE DEF i, p
  <2> QED BY <2>1 DEF Entries
<1>a. PICK new \in Entries : new = entry
  BY <1>5
<1>6. /\ new.src = s /\ new.slot = i /\ new.order = p + 1
      /\ new.event = slots[s][i].event /\ new.tick = recv[s].tick
  BY <1>a
<1>b. queue' = Append(queue, new)
  BY <1>2, <1>a
<1>c. /\ Len(queue') = Len(queue) + 1 /\ Len(queue) \in Nat
      /\ \A j \in 1 .. Len(queue') : j # Len(queue') => queue'[j] = queue[j]
      /\ queue'[Len(queue')] = new
  BY <1>1, <1>b DEF Types
<1> HIDE DEF r, i, p, entry
<1>7. \A x \in Sources : recv'[x] = IF x = s THEN r ELSE recv[x]
  BY <1>1, <1>2 DEF Types
<1>8. Types'
  <2>1. recv' \in [Sources -> Locals]
    BY <1>1, <1>2, <1>3 DEF Types
  <2>2. queue' \in Seq(Entries)
    BY <1>1, <1>b DEF Types
  <2>3. Items'
    BY <1>1, <1>2 DEF Types, Items, Sources, Places, TickNumbers, VectorSize
  <2> QED BY <2>1, <2>2, <2>3, <1>1, <1>2 DEF Types
<1>9. \A x \in Sources : Current(x)' /\ Ticked(x)'
  <2> SUFFICES ASSUME NEW x \in Sources PROVE Current(x)' /\ Ticked(x)'
    OBVIOUS
  <2>1. CASE x # s
    BY <2>1, <1>1, <1>2, <1>7 DEF Current, Ticked
  <2>2. CASE x = s
    <3>1. SlotAfter(p % VectorSize) = (p + 1) % VectorSize
      BY <1>4, NextPlace
    <3>2. recv'[s].currentQItem = recv'[s].pushed % VectorSize /\ recv'[s].pc = "count"
      BY <3>1, <1>4, <1>7
    <3> QED BY <3>2, <2>2 DEF Current, Ticked
  <2> QED BY <2>1, <2>2
<1>10. Good(new)'
  <2>1. recv'[s].pushed = p + 1
    BY <1>4, <1>7
  <2>2. (p + 1) - 1 = p
    BY <1>4
  <2>3. new.slot = (new.order - 1) % VectorSize
    BY <2>2, <1>4, <1>6
  <2>4. 1 <= new.order /\ new.order <= recv'[new.src].pushed
    BY <2>1, <1>4, <1>6
  <2>5. Intact(new)' /\ ItemTickOf(new)'
    BY <1>1, <1>2, <1>6 DEF Intact, ItemTickOf, Ticked, i
  <2> QED BY <2>3, <2>4, <2>5, <1>1, <1>6 DEF Good
<1>11. EntriesGood'
  <2> SUFFICES ASSUME NEW e \in Entries, InUse(e)', e # new PROVE Good(e)'
    BY <1>10 DEF EntriesGood
  <2>1. InUse(e)
    <3>1. CASE \E u \in Users : user'[u].pc # "idle" /\ user'[u].item = e
      BY <3>1, <1>2 DEF InUse
    <3>2. ASSUME NEW j \in 1 .. Len(queue'), queue'[j] = e PROVE InUse(e)
      <4>1. j # Len(queue')
        BY <3>2, <1>c
      <4>2. j \in 1 .. Len(queue) /\ queue[j] = e
        BY <3>2, <4>1, <1>c
      <4> QED BY <4>2 DEF InUse
    <3> QED BY <3>1, <3>2 DEF InUse
  <2>2. Good(e)
    BY <2>1, <1>1 DEF EntriesGood
  <2>3. recv[s].pushed <= r.pushed
    BY <1>4 DEF p
  <2> QED BY <2>2, <2>3, <1>1, <1>2, <1>3, GoodStays
<1>12. LastPushes'
  <2>1. Len(queue') = Len(queue) + 1 /\ Len(queue) \in Nat
    BY <1>c
  <2>2. Len(queue') <= QSize
    BY <2>1, <1>2, VectorSizeType
  <2>3. ASSUME NEW j \in 1 .. Len(queue')
        PROVE  recv'[queue'[j].src].pushed - queue'[j].order <= Len(queue') - j
    <3>1. CASE j = Len(queue')
      <4>1. queue'[j] = new
        BY <3>1, <1>c
      <4> QED BY <4>1, <3>1, <2>1, <1>4, <1>6, <1>7
    <3>2. CASE j # Len(queue')
      <4>1. j \in 1 .. Len(queue) /\ queue'[j] = queue[j]
        BY <3>2, <2>1, <1>c
      <4>2. queue[j] \in Entries /\ InUse(queue[j])
        BY <4>1, <1>1 DEF Types, InUse
      <4>3. queue[j].src \in Sources /\ queue[j].order \in Nat
        BY <4>2, <1>1 DEF EntriesGood, Good, Entries
      <4>4. recv[queue[j].src].pushed - queue[j].order <= Len(queue) - j
        BY <4>1, <1>1 DEF LastPushes
      <4>5. recv'[queue[j].src].pushed <= recv[queue[j].src].pushed + 1
        BY <4>3, <1>1, <1>4, <1>7 DEF p, Types, Locals
      <4>6. recv[queue[j].src].pushed \in Nat /\ recv'[queue[j].src].pushed \in Nat
        BY <4>3, <1>1, <1>3, <1>7 DEF Types, Locals
      <4> DEFINE a == recv[queue[j].src].pushed
                 b == recv'[queue[j].src].pushed
                 o == queue[j].order
                 l == Len(queue)
      <4>7. /\ a - o <= l - j /\ b <= a + 1
            /\ a \in Nat /\ b \in Nat /\ o \in Nat /\ l \in Nat /\ j \in Nat
        BY <4>3, <4>4, <4>5, <4>6, <2>1
      <4> HIDE DEF a, b, o, l
      <4>8. b - o <= (l + 1) - j
        BY <4>7
      <4>9. Len(queue') - j = (l + 1) - j
        BY <2>1 DEF l
      <4> QED BY <4>1, <4>8, <4>9, Zenon DEF b, o
    <3> QED BY <3>1, <3>2
  <2> QED BY <2>2, <2>3 DEF LastPushes
<1>13. NumberIsTheEvents'
  <2> SUFFICES ASSUME NEW u \in Users, setup.class = "serverConsumer",
                      user[u].pc = "holding", NotLapped(user[u].item)'
               PROVE  user[u].eventNum = user[u].item.tick
    BY <1>2 DEF NumberIsTheEvents
  <2>1. user[u].item \in Entries /\ InUse(user[u].item)
    BY <1>1 DEF Types, InUse, Getters
  <2>2. user[u].item.src \in Sources /\ user[u].item.order \in Nat
    BY <2>1, <1>1 DEF EntriesGood, Good, Entries
  <2>4. recv[user[u].item.src].pushed \in Nat /\ recv'[user[u].item.src].pushed \in Nat
    BY <2>2, <1>1, <1>3, <1>7 DEF Types, Locals
  <2>3. recv[user[u].item.src].pushed <= recv'[user[u].item.src].pushed
    <3>1. CASE user[u].item.src = s
      BY <3>1, <1>4, <1>7 DEF p
    <3>2. CASE user[u].item.src # s
      BY <3>2, <2>2, <2>4, <1>7
    <3> QED BY <3>1, <3>2
  <2>a. recv'[user[u].item.src].pushed < user[u].item.order + QSize
    BY <1>2 DEF NotLapped
  <2>5. NotLapped(user[u].item)
    BY <2>2, <2>3, <2>4, <2>a, VectorSizeType DEF NotLapped
  <2> QED BY <2>5, <1>1 DEF NumberIsTheEvents
<1> QED BY <1>1, <1>8, <1>9, <1>11, <1>12, <1>13 DEF QueueInv

\* What getEvent() does to its thread, which has then the record g.
LEMMA GettingShape ==
  ASSUME Types, NEW u \in Users, Getting(u)
  PROVE  /\ UNCHANGED <<setup, recv, slots>>
         /\ \/ /\ queue # << >> /\ queue' = Tail(queue) /\ UNCHANGED queueSize
               /\ user[u].pc \in {"idle", "holding"} /\ user'[u].pc = "popped"
               /\ user' = [user EXCEPT ![u] = [pc |-> "popped", item |-> Head(queue),
                                              eventNum |-> 0]]
            \/ /\ UNCHANGED <<queue, queueSize>>
               /\ user[u].pc = "holding" /\ user'[u].pc = "idle"
               /\ user' = [user EXCEPT ![u] = [pc |-> "idle", item |-> NoEntry,
                                              eventNum |-> 0]]
            \/ /\ UNCHANGED queue /\ queueSize' = queueSize - 1
               /\ user[u].pc = "popped" /\ user'[u].pc = "holding"
               /\ user' = [user EXCEPT ![u] =
                             [user[u] EXCEPT !.pc = "holding", !.eventNum =
                                slots[user[u].item.src][user[u].item.slot].tick]]
<1>1. user[u] \in Getters
  BY DEF Types
<1>2. CASE Pop(u)
  BY <1>2 DEF Pop, notUsers, Types
<1>3. CASE PopEmpty(u)
  BY <1>3 DEF PopEmpty, notUsers, Types
<1>4. CASE GotEvent(u)
  <2>1. user' = [user EXCEPT ![u] = [user[u] EXCEPT !.pc = "holding",
                   !.eventNum = slots[user[u].item.src][user[u].item.slot].tick]]
    BY <1>4 DEF GotEvent
  <2>3. /\ UNCHANGED <<setup, recv, slots, queue>> /\ queueSize' = queueSize - 1
        /\ user[u].pc = "popped"
    BY <1>4 DEF GotEvent, notUsers
  <2>4. user'[u].pc = "holding"
    BY <1>1, <1>4 DEF GotEvent, Types, Getters
  <2> QED BY <2>1, <2>3, <2>4
<1> QED BY <1>2, <1>3, <1>4 DEF Getting

LEMMA GettingPreserves ==
  ASSUME QueueInv, NEW u \in Users, Getting(u)
  PROVE  QueueInv'
<1>1. /\ Types /\ EntriesGood /\ LastPushes /\ NumberIsTheEvents
      /\ \A x \in Sources : Current(x) /\ Ticked(x)
  BY DEF QueueInv
<1>2. UNCHANGED <<setup, recv, slots>> /\ Sources' = Sources
  BY <1>1, GettingShape DEF Sources
<1>3. PICK g : user' = [user EXCEPT ![u] = g]
  BY <1>1, GettingShape
<1>4. \A v \in Users : user'[v] = IF v = u THEN g ELSE user[v]
  BY <1>1, <1>3 DEF Types
<1>5. user'[u] = g
  BY <1>4
\* The record of the thread has a good entry, and the right number.
<1>6. /\ g \in Getters
      /\ g.pc # "idle" => InUse(g.item)
      /\ setup.class = "serverConsumer" /\ g.pc = "holding" /\ NotLapped(g.item)
            => g.eventNum = g.item.tick
  <2>1. CASE queue # << >> /\ g = [pc |-> "popped", item |-> Head(queue), eventNum |-> 0]
    <3>1. Len(queue) \in Nat /\ Len(queue) # 0 /\ Head(queue) = queue[1]
      BY <2>1, <1>1 DEF Types
    <3>2. 1 \in 1 .. Len(queue) /\ queue[1] \in Entries
      BY <3>1, <1>1 DEF Types
    <3>3. InUse(queue[1])
      BY <3>2 DEF InUse
    <3> QED BY <2>1, <3>1, <3>2, <3>3 DEF Getters
  <2>2. CASE g = [pc |-> "idle", item |-> NoEntry, eventNum |-> 0]
    BY <2>2 DEF Getters, Entries, NoEntry
  <2>3. CASE /\ user[u].pc = "popped"
             /\ g = [user[u] EXCEPT !.pc = "holding", !.eventNum =
                       slots[user[u].item.src][user[u].item.slot].tick]
    <3> DEFINE e == user[u].item
               h == user[u]
    <3>0. h \in Getters
      BY <1>1 DEF Types
    <3>1. e \in Entries
      BY <1>1 DEF Types, Getters
    <3>2. InUse(e)
      BY <2>3 DEF InUse
    <3>3. Good(e)
      BY <3>1, <3>2, <1>1 DEF EntriesGood
    <3>4. e.src \in Sources /\ e.slot \in Places
      <4>1. e.order - 1 \in Nat
        BY <3>1, <3>3 DEF Good, Entries
      <4>2. (e.order - 1) % VectorSize \in 0 .. VectorSize - 1
        BY ONLY <4>1, VectorSizeType, DivMod
      <4> QED BY <4>2, <3>3 DEF Good, Places
    <3>5. slots[e.src][e.slot].tick \in Nat
      BY <3>4, <1>1 DEF Types, Items, TickNumbers
    <3>6. setup.class = "serverConsumer" /\ NotLapped(e) => slots[e.src][e.slot].tick = e.tick
      BY <3>3 DEF Good, ItemTickOf
    <3> DEFINE n == slots[e.src][e.slot].tick
    <3> HIDE DEF h, n
    <3>7. g = [h EXCEPT !.pc = "holding", !.eventNum = n]
      BY <2>3 DEF h, n
    <3>8. n \in Nat
      BY <3>5 DEF n
    <3>9. g \in Getters /\ g.item = h.item /\ g.eventNum = n /\ g.pc = "holding"
      BY <3>0, <3>7, <3>8 DEF Getters
    <3> QED BY <3>1, <3>2, <3>6, <3>9 DEF h, n
  <2> QED
    <3>1. user'[u] = g
      BY <1>5
    <3> QED BY <1>1, <2>1, <2>2, <2>3, <3>1, GettingShape DEF Types
\* The queue is as it was, or without its first entry.
<1>7. /\ queue' \in Seq(Entries) /\ queueSize' \in Int
      /\ \/ queue' = queue
         \/ /\ Len(queue') = Len(queue) - 1
            /\ \A i \in 1 .. Len(queue') : queue'[i] = queue[i + 1]
  <2>1. queue' = queue \/ (queue # << >> /\ queue' = Tail(queue))
    BY <1>1, GettingShape
  <2>2. queueSize' \in {queueSize, queueSize - 1}
    BY <1>1, GettingShape
  <2>3. queueSize' \in Int
    BY <2>2, <1>1 DEF Types
  <2>4. CASE queue # << >> /\ queue' = Tail(queue)
    <3>1. queue \in Seq(Entries)
      BY <1>1 DEF Types
    <3>2. /\ Tail(queue) \in Seq(Entries) /\ Len(Tail(queue)) = Len(queue) - 1
          /\ \A i \in 1 .. Len(Tail(queue)) : Tail(queue)[i] = queue[i + 1]
      BY <3>1, <2>4, HeadTailProperties
    <3> QED BY <3>2, <2>3, <2>4, Zenon
  <2> QED BY <2>1, <2>3, <2>4, <1>1 DEF Types
<1>8. Types'
  <2>1. user' \in [Users -> Getters]
    BY <1>1, <1>3, <1>6 DEF Types
  <2>2. Items'
    BY <1>1, <1>2 DEF Types, Items, Sources, Places, TickNumbers, VectorSize
  <2> QED BY <2>1, <2>2, <1>1, <1>2, <1>7 DEF Types
<1>9. ASSUME NEW e \in Entries, InUse(e)' PROVE InUse(e)
  <2>1. ASSUME NEW v \in Users, user'[v].pc # "idle", user'[v].item = e PROVE InUse(e)
    BY <2>1, <1>4, <1>6 DEF InUse
  <2>2. ASSUME NEW i \in 1 .. Len(queue'), queue'[i] = e PROVE InUse(e)
    <3>1. CASE queue' = queue
      BY <3>1, <2>2 DEF InUse
    <3>2. CASE queue' # queue
      <4>1. i + 1 \in 1 .. Len(queue) /\ queue[i + 1] = e
        BY <3>2, <2>2, <1>1, <1>7 DEF Types
      <4> QED BY <4>1 DEF InUse
    <3> QED BY <3>1, <3>2
  <2> QED BY <1>9, <2>1, <2>2 DEF InUse
<1>10. EntriesGood'
  <2> SUFFICES ASSUME NEW e \in Entries, InUse(e)' PROVE Good(e)'
    BY DEF EntriesGood
  <2>1. Good(e)
    BY <1>1, <1>9 DEF EntriesGood
  <2> QED BY <2>1, <1>2 DEF Good, NotLapped, Intact, ItemTickOf
<1>11. LastPushes'
  <2>1. CASE queue' = queue
    BY <2>1, <1>1, <1>2 DEF LastPushes
  <2>2. CASE queue' # queue
    <3>1. Len(queue) \in Nat /\ Len(queue') = Len(queue) - 1 /\ Len(queue') <= QSize
      BY <2>2, <1>1, <1>7, VectorSizeType DEF Types, LastPushes
    <3>2. ASSUME NEW i \in 1 .. Len(queue')
          PROVE  recv[queue'[i].src].pushed - queue'[i].order <= Len(queue') - i
      <4>1. i + 1 \in 1 .. Len(queue) /\ queue'[i] = queue[i + 1]
        BY <2>2, <1>7, <3>1
      <4>2. recv[queue[i + 1].src].pushed - queue[i + 1].order <= Len(queue) - (i + 1)
        BY <4>1, <1>1 DEF LastPushes
      <4>3. Len(queue') - i = Len(queue) - (i + 1)
        BY <3>1
      <4> QED BY <4>1, <4>2, <4>3
    <3> QED BY <3>1, <3>2, <1>2 DEF LastPushes
  <2> QED BY <2>1, <2>2
<1>12. NumberIsTheEvents'
  <2> SUFFICES ASSUME NEW v \in Users, setup.class = "serverConsumer",
                      user'[v].pc = "holding", NotLapped(user'[v].item)
               PROVE  user'[v].eventNum = user'[v].item.tick
    BY <1>2 DEF NumberIsTheEvents, NotLapped
  <2>1. CASE v = u
    BY <2>1, <1>5, <1>6
  <2>2. CASE v # u
    BY <2>2, <1>1, <1>4 DEF NumberIsTheEvents
  <2> QED BY <2>1, <2>2
<1>13. \A x \in Sources : Current(x)' /\ Ticked(x)'
  BY <1>1, <1>2 DEF Current, Ticked
<1> QED BY <1>2, <1>8, <1>10, <1>11, <1>12, <1>13 DEF QueueInv

LEMMA QueueInvNext == QueueInv /\ [Next]_vars => QueueInv'
<1> SUFFICES ASSUME QueueInv, [Next]_vars PROVE QueueInv'
  OBVIOUS
<1>1. ASSUME NEW s \in Sources, Receiving(s) PROVE QueueInv'
  BY <1>1, BeginBufferPreserves, ReceivePartPreserves, AssembledPreserves,
     TurnPreserves, PushPreserves DEF Receiving
<1>2. ASSUME NEW u \in Users, Getting(u) PROVE QueueInv'
  BY <1>2, GettingPreserves
<1>3. CASE ~(\E s \in Sources : Receiving(s)) /\ ~(\E u \in Users : Getting(u))
  <2>1. core' = core
    BY <1>3, OtherSteps
  <2>2. Types'
    BY <2>1 DEF core, QueueInv, Types, Items, Sources, Places, TickNumbers, VectorSize
  <2>3. /\ LastPushes' /\ EntriesGood' /\ NumberIsTheEvents' /\ Sources' = Sources
        /\ \A x \in Sources : Current(x)' /\ Ticked(x)'
    BY <2>1 DEF core, QueueInv, LastPushes, EntriesGood, InUse, Good, NotLapped, Intact,
       ItemTickOf, NumberIsTheEvents, Sources, Current, Ticked
  <2> QED BY <2>2, <2>3 DEF QueueInv
<1> QED BY <1>1, <1>2, <1>3

-----------------------------------------------------------------------------
\* Every event on the queue is intact, and every event a user has is until its
\* source's thread has come round the vector (EjfatConsumer.cpp:998 and 1165):
\* for every capacity of the queue, one item more is enough.
THEOREM EventsIntact == Spec => []IntactUntilLapped
<1>1. QueueInv => IntactUntilLapped
  <2> SUFFICES ASSUME QueueInv PROVE IntactUntilLapped
    OBVIOUS
  <2>1. Types /\ LastPushes /\ EntriesGood
    BY DEF QueueInv
  <2>2. ASSUME NEW i \in DOMAIN queue PROVE Intact(queue[i])
    <3>1. i \in 1 .. Len(queue) /\ queue[i] \in Entries /\ Len(queue) \in Nat
      BY <2>1 DEF Types
    <3>2. Good(queue[i])
      BY <3>1, <2>1 DEF EntriesGood, InUse
    <3>3. recv[queue[i].src].pushed \in Nat /\ queue[i].order \in Nat
      BY <3>1, <3>2, <2>1 DEF Good, Types, Locals, Entries
    <3>4. recv[queue[i].src].pushed - queue[i].order <= Len(queue) - i /\ Len(queue) <= QSize
      BY <3>1, <2>1 DEF LastPushes
    <3>5. NotLapped(queue[i])
      BY <3>1, <3>3, <3>4, VectorSizeType DEF NotLapped
    <3> QED BY <3>2, <3>5 DEF Good
  <2>3. ASSUME NEW e \in Held, NotLapped(e) PROVE Intact(e)
    <3>1. e \in Entries /\ InUse(e)
      BY <2>1 DEF Held, InUse, Types, Getters
    <3> QED BY <3>1, <2>1, <2>3 DEF EntriesGood, Good
  <2> QED BY <2>2, <2>3 DEF IntactUntilLapped
<1> QED BY <1>1, InitQueue, QueueInvNext, PTL DEF Spec

\* getEvent() of serverConsumer returns the tick of the event it returns, as long
\* as its source's thread has not come round the vector (serverConsumer.cpp:1216).
THEOREM NumberRight == Spec => []NumberIsTheEvents
<1>1. QueueInv => NumberIsTheEvents
  BY DEF QueueInv
<1> QED BY <1>1, InitQueue, QueueInvNext, PTL DEF Spec

-----------------------------------------------------------------------------
(* The count kept beside the queue.                                        *)

Uncounted == {s \in Sources : recv[s].pc = "count"}
Taking    == {u \in Users : user[u].pc = "popped"}

LEMMA ThreadsFinite ==
  ASSUME Types
  PROVE  /\ IsFiniteSet(Uncounted) /\ IsFiniteSet(Taking)
         /\ Cardinality(Uncounted) \in Nat /\ Cardinality(Taking) \in Nat
         /\ Len(queue) \in Nat /\ queueSize \in Int
<1>1. IsFiniteSet(Sources) /\ IsFiniteSet(Users)
  BY SetupFacts, ConsumerAssumption DEF Types
<1>2. Uncounted \subseteq Sources /\ Taking \subseteq Users
  BY DEF Uncounted, Taking
<1>3. IsFiniteSet(Uncounted) /\ IsFiniteSet(Taking)
  BY <1>1, <1>2, FS_Subset
<1> QED BY <1>3, FS_CardinalityType DEF Types

LEMMA ReceivingTracks ==
  ASSUME Types, QueueSizeTracks, NEW s \in Sources, Receiving(s)
  PROVE  QueueSizeTracks'
<1>1. queueSize = Len(queue) - Cardinality(Uncounted) + Cardinality(Taking)
  BY DEF QueueSizeTracks, Uncounted, Taking
<1>2. recv[s] \in Locals
  BY DEF Types
<1>3. SUFFICES /\ Len(queue') \in Nat /\ Taking' = Taking
               /\ queueSize' = Len(queue') - Cardinality(Uncounted') + Cardinality(Taking)
  BY DEF QueueSizeTracks, Uncounted, Taking
<1>4. CASE Push(s)
  <2>1. /\ Uncounted' = Uncounted \cup {s} /\ s \notin Uncounted /\ Taking' = Taking
        /\ queueSize' = queueSize
    <3>1. /\ recv' = [recv EXCEPT ![s] = Pushed(recv[s])] /\ recv[s].pc = "push"
          /\ UNCHANGED <<setup, queueSize, user>>
      BY <1>4, PushShape
    <3>2. Pushed(recv[s]).pc = "count"
      BY <1>2 DEF Pushed, Locals
    <3> QED BY <3>1, <3>2 DEF Uncounted, Taking, Types, Sources
  <2>2. Len(queue') = Len(queue) + 1 /\ Len(queue') \in Nat
    <3>1. PICK e : queue' = Append(queue, e)
      BY <1>4, PushShape
    <3> QED BY <3>1 DEF Types
  <2>3. Cardinality(Uncounted') = Cardinality(Uncounted) + 1
    BY <2>1, ThreadsFinite, FS_AddElement
  <2> QED BY <1>1, <2>1, <2>2, <2>3, ThreadsFinite
<1>5. CASE Count(s)
  <2>1. /\ Uncounted' = Uncounted \ {s} /\ s \in Uncounted /\ Taking' = Taking
        /\ queueSize' = queueSize + 1 /\ queue' = queue
    <3>1. /\ recv' = [recv EXCEPT ![s] = Looked(recv[s])] /\ recv[s].pc = "count"
          /\ queueSize' = queueSize + 1 /\ UNCHANGED <<setup, queue, user>>
      BY <1>5, CountShape
    <3>2. Looked(recv[s]).pc = "loop"
      BY <1>2 DEF Looked, Locals
    <3> QED BY <3>1, <3>2 DEF Uncounted, Taking, Types, Sources
  <2>2. Cardinality(Uncounted') = Cardinality(Uncounted) - 1
    BY <2>1, ThreadsFinite, FS_RemoveElement
  <2> QED BY <1>1, <2>1, <2>2, ThreadsFinite
<1>6. CASE ~Push(s) /\ ~Count(s)
  <2>1. PICK r \in Locals :
           /\ recv' = [recv EXCEPT ![s] = r] /\ r.pc # "count" /\ recv[s].pc # "count"
           /\ UNCHANGED <<setup, queue, queueSize, user>>
    <3>1. CASE BeginBuffer(s)
      <4>1. /\ recv' = [recv EXCEPT ![s] = Begun(recv[s], IF endThreads = TRUE THEN TRUE
                                                                            ELSE FALSE)]
            /\ recv[s].pc = "loop" /\ UNCHANGED <<setup, queue, queueSize, user>>
        BY <3>1, BeginBufferShape DEF Begun
      <4> DEFINE r == Begun(recv[s], IF endThreads = TRUE THEN TRUE ELSE FALSE)
      <4>2. r \in Locals
        BY <1>2, LocalsTypes
      <4>3. r.pc # "count"
        BY <1>2 DEF Begun, Locals
      <4> QED BY <4>1, <4>2, <4>3
    <3>2. CASE ReceivePart(s)
      <4> DEFINE r == [recv[s] EXCEPT !.pc = "building"]
      <4>1. r \in Locals /\ r.pc = "building"
        BY <1>2, LocalsTypes DEF Locals
      <4> QED BY <4>1, <3>2, ReceivePartShape
    <3>3. ASSUME NEW t \in setup.ticks, NEW bytes, Assembled(s, t, bytes)
          PROVE  \E r \in Locals :
                    /\ recv' = [recv EXCEPT ![s] = r] /\ r.pc # "count" /\ recv[s].pc # "count"
                    /\ UNCHANGED <<setup, queue, queueSize, user>>
      <4> DEFINE r == [recv[s] EXCEPT !.pc = "push", !.tick = t,
                                      !.assembled = recv[s].assembled + 1]
      <4>1. t \in 0 .. TickModulus - 2
        BY SetupFacts DEF Types
      <4>2. r \in Locals
        BY <4>1, <1>2, LocalsTypes
      <4>3. r.pc = "push"
        BY <1>2 DEF Locals
      <4>4. /\ recv' = [recv EXCEPT ![s] = r] /\ recv[s].pc = "building"
            /\ UNCHANGED <<setup, queue, queueSize, user>>
        BY <3>3, AssembledShape
      <4> HIDE DEF r
      <4> QED BY <4>2, <4>3, <4>4
    <3>4. CASE AssembleFails(s)
      <4>1. Ended(recv[s]) \in Locals /\ Ended(recv[s]).pc = "ended"
        BY <1>2, LocalsTypes DEF Ended, Locals
      <4> QED BY <4>1, <3>4, AssembleFailsShape
    <3>5. CASE PushFull(s)
      <4>1. Dumped(recv[s]) \in Locals /\ Dumped(recv[s]).pc = "loop"
        BY <1>2, LocalsTypes DEF Dumped, Locals
      <4> QED BY <4>1, <3>5, PushFullShape
    <3> QED BY <1>6, <3>1, <3>2, <3>3, <3>4, <3>5 DEF Receiving
  <2>2. Uncounted' = Uncounted /\ Taking' = Taking
    BY <2>1 DEF Uncounted, Taking, Types, Sources
  <2> QED BY <1>1, <2>1, <2>2, ThreadsFinite
<1> QED BY <1>4, <1>5, <1>6

LEMMA GettingTracks ==
  ASSUME Types, QueueSizeTracks, NEW u \in Users, Getting(u)
  PROVE  QueueSizeTracks'
<1>1. queueSize = Len(queue) - Cardinality(Uncounted) + Cardinality(Taking)
  BY DEF QueueSizeTracks, Uncounted, Taking
<1>2. SUFFICES /\ Len(queue') \in Nat /\ Uncounted' = Uncounted
               /\ queueSize' = Len(queue') - Cardinality(Uncounted) + Cardinality(Taking')
  BY DEF QueueSizeTracks, Uncounted, Taking
<1>3. Uncounted' = Uncounted
  BY GettingShape DEF Uncounted, Sources
<1>4. PICK g : user' = [user EXCEPT ![u] = g]
  BY GettingShape
<1>5. g = user'[u]
  BY <1>4 DEF Types
<1>6. CASE queue # << >> /\ queue' = Tail(queue) /\ queueSize' = queueSize
           /\ user[u].pc # "popped" /\ g.pc = "popped"
  <2>1. Taking' = Taking \cup {u} /\ u \notin Taking
    BY <1>4, <1>6 DEF Taking, Types
  <2>2. Len(queue') = Len(queue) - 1 /\ Len(queue') \in Nat
    BY <1>6 DEF Types
  <2>3. Cardinality(Taking') = Cardinality(Taking) + 1
    BY <2>1, ThreadsFinite, FS_AddElement
  <2> QED BY <1>1, <1>3, <1>6, <2>2, <2>3, ThreadsFinite
<1>7. CASE queue' = queue /\ queueSize' = queueSize
           /\ user[u].pc # "popped" /\ g.pc # "popped"
  <2>1. Taking' = Taking
    BY <1>4, <1>7 DEF Taking, Types
  <2> QED BY <1>1, <1>3, <1>7, <2>1, ThreadsFinite
<1>8. CASE queue' = queue /\ queueSize' = queueSize - 1
           /\ user[u].pc = "popped" /\ g.pc # "popped"
  <2>1. Taking' = Taking \ {u} /\ u \in Taking
    BY <1>4, <1>8 DEF Taking, Types
  <2>2. Cardinality(Taking') = Cardinality(Taking) - 1
    BY <2>1, ThreadsFinite, FS_RemoveElement
  <2> QED BY <1>1, <1>3, <1>8, <2>2, ThreadsFinite
<1> QED
  <2>1. g.pc = user'[u].pc
    BY <1>5
  <2> HIDE DEF QueueSizeTracks, Uncounted, Taking
  <2> QED BY <1>6, <1>7, <1>8, <2>1, GettingShape

\* The count kept by hand differs from the length of the queue exactly by what
\* the threads have not yet counted, for every number of threads
\* (EjfatConsumer.cpp:1044 and 1160).
THEOREM CountTracks == Spec => []QueueSizeTracks
<1>1. Init => QueueSizeTracks
  <2> SUFFICES ASSUME Init PROVE QueueSizeTracks
    OBVIOUS
  <2>1. Uncounted = {} /\ Taking = {}
    BY DEF Init, Uncounted, Taking
  <2>2. queueSize = 0 /\ Len(queue) = 0
    BY DEF Init
  <2>3. Cardinality({}) = 0
    BY FS_EmptySet
  <2>4. queueSize = Len(queue) - Cardinality(Uncounted) + Cardinality(Taking)
    BY <2>1, <2>2, <2>3
  <2> QED BY <2>4 DEF QueueSizeTracks, Uncounted, Taking
<1>2. QueueInv /\ QueueSizeTracks /\ [Next]_vars => QueueSizeTracks'
  <2> SUFFICES ASSUME QueueInv, QueueSizeTracks, [Next]_vars PROVE QueueSizeTracks'
    OBVIOUS
  <2>1. Types
    BY DEF QueueInv
  <2>2. CASE ~(\E s \in Sources : Receiving(s)) /\ ~(\E u \in Users : Getting(u))
    <3>1. core' = core
      BY <2>2, OtherSteps
    <3> QED BY <3>1 DEF core, QueueSizeTracks, Sources
  <2> QED BY <2>1, <2>2, ReceivingTracks, GettingTracks
<1> QED BY <1>1, <1>2, InitQueue, QueueInvNext, PTL DEF Spec

-----------------------------------------------------------------------------
(* What the receiving threads count.                                       *)

PrinterFields == {"pc", "i", "rollOver", "curr", "prev", "dataArrived", "skippedFirst",
                  "shown", "total", "prints", "rolled"}
Counters == [accepted : Int, built : Int]

CountTypes ==
    /\ DOMAIN printer = PrinterFields
    /\ printer.skippedFirst \in [Sources -> 0 .. 2]
    /\ stats \in [Sources -> Counters]

\* From the first event that was queued on a thread knows the tick before, and
\* while ticks rise the new one is not below it.
TickOrder(s) ==
    /\ recv[s].pc = "loop" /\ ~recv[s].firstLoop => recv[s].tick # NoTick
    /\ recv[s].pc \in {"recv", "building"} /\ ~recv[s].firstLoop => recv[s].prevTick # NoTick
    /\ recv[s].pc \in {"push", "count"} =>
          /\ recv[s].tick # NoTick
          /\ recv[s].firstLoop \/ s \in fell \/ recv[s].tick >= recv[s].prevTick

StillCounting(s) == s \notin fell /\ printer.skippedFirst[s] < 2 /\ ~printer.rolled

BuiltRight(s) ==
    StillCounting(s) =>
        stats[s].built = recv[s].pushed - (IF recv[s].pc = "count" THEN 1 ELSE 0)

RisingInv ==
    /\ Types
    /\ CountTypes
    /\ \A s \in Sources : TickOrder(s) /\ BuiltRight(s)

LEMMA InitRising == Init => RisingInv
<1> SUFFICES ASSUME Init PROVE RisingInv
  OBVIOUS
<1>1. CountTypes
  BY DEF Init, CountTypes, PrinterFields, Counters, NoStats
<1>2. \A s \in Sources : /\ recv[s].pc = "loop" /\ recv[s].firstLoop /\ recv[s].pushed = 0
                        /\ stats[s].built = 0
  BY DEF Init, NoStats
<1>3. \A s \in Sources : TickOrder(s) /\ BuiltRight(s)
  BY <1>2 DEF TickOrder, BuiltRight
<1> QED BY <1>1, <1>3, InitTypes DEF RisingInv

\* A source that has not restarted is not taken for one that has.
LEMMA NotRestarted ==
  ASSUME NEW r \in Locals, r.firstLoop \/ r.tick >= r.prevTick
  PROVE  ~Restarted(r)
<1>1. LargestTick(r) = r.tick
  BY DEF LargestTick, PreviousTick, Locals, TickNumbers
<1>2. r.tick - r.tick = 0
  BY DEF Locals, TickNumbers
<1>3. 0 % TickModulus = 0
  BY NoTickType
<1>4. RestartGap \in Nat \ {0}
  BY ConsumerAssumption
<1> QED BY <1>1, <1>2, <1>3, <1>4 DEF Restarted

\* A step of the receiving thread of s disturbs nothing of the other sources.
LEMMA RisingStep ==
  ASSUME RisingInv, Types', UNCHANGED <<setup, printer>>, NEW s \in Sources, NEW r \in Locals,
         recv' = [recv EXCEPT ![s] = r], fell \subseteq fell',
         NEW c \in Counters, stats' = [stats EXCEPT ![s] = c],
         TickOrder(s)', BuiltRight(s)'
  PROVE  RisingInv'
<1>1. Types /\ CountTypes /\ Sources' = Sources /\ PrinterFields' = PrinterFields
  BY DEF RisingInv, Sources, PrinterFields
<1>2. CountTypes'
  BY <1>1 DEF CountTypes, Counters
<1>3. ASSUME NEW x \in Sources, x # s PROVE TickOrder(x)' /\ BuiltRight(x)'
  <2>1. recv'[x] = recv[x] /\ stats'[x] = stats[x]
    BY <1>1, <1>3 DEF Types, CountTypes
  <2>2. TickOrder(x) /\ BuiltRight(x)
    BY DEF RisingInv
  <2>3. TickOrder(x)'
    BY <2>1, <2>2 DEF TickOrder, NoTick
  <2>4. BuiltRight(x)'
    BY <2>1, <2>2 DEF BuiltRight, StillCounting
  <2> QED BY <2>3, <2>4
<1> QED BY <1>1, <1>2, <1>3 DEF RisingInv

\* What the steps do to the counters, and which sources they find to fall.
LEMMA BeginBufferRising ==
  ASSUME RisingInv, Types', NEW s \in Sources, BeginBuffer(s)
  PROVE  RisingInv'
<1>1. Types /\ CountTypes /\ TickOrder(s) /\ BuiltRight(s)
  BY DEF RisingInv
<1> DEFINE r == Begun(recv[s], IF endThreads = TRUE THEN TRUE ELSE FALSE)
<1>2. /\ recv' = [recv EXCEPT ![s] = r] /\ recv[s].pc = "loop"
      /\ UNCHANGED <<setup, printer, fell, stats>>
  BY <1>1, BeginBufferShape DEF Begun, BeginBuffer, others
<1>3. recv[s] \in Locals /\ r \in Locals
  BY <1>1, LocalsTypes DEF Types
<1>4. /\ r.prevTick = recv[s].tick /\ r.firstLoop = recv[s].firstLoop
      /\ r.pushed = recv[s].pushed /\ r.pc \in {"recv", "ended"}
  BY <1>3 DEF Begun, Locals
<1>5. stats[s] \in Counters /\ stats' = [stats EXCEPT ![s] = stats[s]]
  BY <1>1, <1>2 DEF CountTypes
<1>6. recv'[s] = r
  BY <1>1, <1>2 DEF Types
<1> HIDE DEF r
<1>7. TickOrder(s)'
  BY <1>1, <1>2, <1>4, <1>6 DEF TickOrder, NoTick
<1>8. BuiltRight(s)'
  BY <1>1, <1>2, <1>4, <1>6 DEF BuiltRight, StillCounting
<1> QED BY <1>2, <1>3, <1>5, <1>7, <1>8, RisingStep

LEMMA ReceivePartRising ==
  ASSUME RisingInv, Types', NEW s \in Sources, ReceivePart(s)
  PROVE  RisingInv'
<1>1. Types /\ CountTypes /\ TickOrder(s) /\ BuiltRight(s)
  BY DEF RisingInv
<1> DEFINE r == [recv[s] EXCEPT !.pc = "building"]
<1>2. /\ recv' = [recv EXCEPT ![s] = r] /\ recv[s].pc = "recv"
      /\ UNCHANGED <<setup, printer, fell, stats>>
  <2>1. UNCHANGED <<setup, printer, fell, stats>>
    BY DEF ReceivePart, others
  <2> QED BY <2>1, <1>1, ReceivePartShape
<1>3. recv[s] \in Locals /\ r \in Locals
  BY <1>1, LocalsTypes DEF Types
<1>4. /\ r.prevTick = recv[s].prevTick /\ r.firstLoop = recv[s].firstLoop
      /\ r.pushed = recv[s].pushed /\ r.pc = "building"
  BY <1>3 DEF Locals
<1>5. stats[s] \in Counters /\ stats' = [stats EXCEPT ![s] = stats[s]]
  BY <1>1, <1>2 DEF CountTypes
<1>6. recv'[s] = r
  BY <1>1, <1>2 DEF Types
<1> HIDE DEF r
<1>7. TickOrder(s)'
  BY <1>1, <1>2, <1>4, <1>6 DEF TickOrder, NoTick
<1>8. BuiltRight(s)'
  BY <1>1, <1>2, <1>4, <1>6 DEF BuiltRight, StillCounting
<1> QED BY <1>2, <1>3, <1>5, <1>7, <1>8, RisingStep

LEMMA AssembledRising ==
  ASSUME RisingInv, Types', NEW s \in Sources, NEW t \in setup.ticks, NEW bytes,
         Assembled(s, t, bytes)
  PROVE  RisingInv'
<1>1. Types /\ CountTypes /\ TickOrder(s) /\ BuiltRight(s)
  BY DEF RisingInv
<1> DEFINE r == [recv[s] EXCEPT !.pc = "push", !.tick = t,
                                !.assembled = recv[s].assembled + 1]
           c == [stats[s] EXCEPT !.accepted = stats[s].accepted + 1]
<1>2. recv' = [recv EXCEPT ![s] = r] /\ recv[s].pc = "building" /\ UNCHANGED setup
  BY <1>1, AssembledShape
<1>3. /\ UNCHANGED printer /\ stats' = [stats EXCEPT ![s] = c]
      /\ fell' = IF recv[s].prevTick # NoTick /\ t < recv[s].prevTick
                 THEN fell \cup {s} ELSE fell
  BY DEF Assembled, others
<1>4. t \in 0 .. TickModulus - 2 /\ t # NoTick
  BY <1>1, SetupFacts, NoTickType DEF Types, NoTick
<1>5. recv[s] \in Locals /\ r \in Locals
  BY <1>1, <1>4, LocalsTypes DEF Types
<1>6. /\ r.prevTick = recv[s].prevTick /\ r.firstLoop = recv[s].firstLoop
      /\ r.pushed = recv[s].pushed /\ r.pc = "push" /\ r.tick = t
  BY <1>5 DEF Locals
<1>7. c \in Counters /\ c.built = stats[s].built
  <2>1. stats[s] \in Counters /\ stats[s].accepted + 1 \in Int
    BY <1>1 DEF CountTypes, Counters
  <2> DEFINE n == stats[s].accepted + 1
  <2> HIDE DEF n
  <2>2. n \in Int /\ c = [stats[s] EXCEPT !.accepted = n]
    BY <2>1 DEF n
  <2> QED BY <2>1, <2>2 DEF Counters
<1>8. recv'[s] = r /\ stats'[s] = c
  BY <1>1, <1>2, <1>3 DEF Types, CountTypes
<1> HIDE DEF r, c
<1>9. TickOrder(s)'
  <2>1. r.firstLoop \/ s \in fell' \/ t >= r.prevTick
    <3>1. t \in Int /\ r.prevTick \in Int
      BY <1>4, <1>5 DEF Locals, TickNumbers
    <3>2. CASE t < r.prevTick
      BY <3>2, <1>1, <1>2, <1>3, <1>6 DEF TickOrder
    <3> QED BY <3>1, <3>2
  <2> QED BY <2>1, <1>4, <1>6, <1>8 DEF TickOrder, NoTick
<1>10. BuiltRight(s)'
  BY <1>1, <1>2, <1>3, <1>6, <1>7, <1>8 DEF BuiltRight, StillCounting
<1>11. fell \subseteq fell'
  BY <1>3
<1> QED BY <1>2, <1>3, <1>5, <1>7, <1>9, <1>10, <1>11, RisingStep

LEMMA AssembleFailsRising ==
  ASSUME RisingInv, Types', NEW s \in Sources, AssembleFails(s)
  PROVE  RisingInv'
<1>1. Types /\ CountTypes /\ TickOrder(s) /\ BuiltRight(s)
  BY DEF RisingInv
<1> DEFINE r == Ended(recv[s])
<1>2. /\ recv' = [recv EXCEPT ![s] = r] /\ recv[s].pc = "building"
      /\ UNCHANGED <<setup, printer, fell>>
  BY <1>1, AssembleFailsShape DEF AssembleFails, others
<1>3. PICK packets \in {0, 1} : stats' = [stats EXCEPT ![s].accepted = @ + packets]
  BY DEF AssembleFails
<1> DEFINE c == [stats[s] EXCEPT !.accepted = stats[s].accepted + packets]
<1>4. recv[s] \in Locals /\ r \in Locals
  BY <1>1, LocalsTypes DEF Types
<1>5. r.pushed = recv[s].pushed /\ r.pc = "ended"
  BY <1>4 DEF Ended, Locals
<1>6. c \in Counters /\ c.built = stats[s].built
  <2>1. stats[s] \in Counters /\ stats[s].accepted + packets \in Int
    BY <1>1 DEF CountTypes, Counters
  <2> DEFINE n == stats[s].accepted + packets
  <2> HIDE DEF n
  <2>2. n \in Int /\ c = [stats[s] EXCEPT !.accepted = n]
    BY <2>1 DEF n
  <2> QED BY <2>1, <2>2 DEF Counters
<1>7. stats' = [stats EXCEPT ![s] = c]
  BY <1>3
<1>8. recv'[s] = r /\ stats'[s] = c
  BY <1>1, <1>2, <1>7 DEF Types, CountTypes
<1> HIDE DEF r, c
<1>9. TickOrder(s)'
  BY <1>5, <1>8 DEF TickOrder
<1>10. BuiltRight(s)'
  BY <1>1, <1>2, <1>5, <1>6, <1>8 DEF BuiltRight, StillCounting
<1> QED BY <1>2, <1>4, <1>6, <1>7, <1>9, <1>10, RisingStep

LEMMA PushRising ==
  ASSUME RisingInv, Types', NEW s \in Sources, Push(s) \/ PushFull(s)
  PROVE  RisingInv'
<1>1. Types /\ CountTypes /\ TickOrder(s) /\ BuiltRight(s)
  BY DEF RisingInv
<1>2. recv[s] \in Locals
  BY <1>1 DEF Types
<1>3. PICK r \in {Pushed(recv[s]), Dumped(recv[s])} : recv' = [recv EXCEPT ![s] = r]
  BY <1>1, PushShape, PushFullShape
<1>4. recv[s].pc = "push" /\ UNCHANGED <<setup, printer, fell, stats>>
  BY DEF Push, PushFull, At, others
<1>5. r \in Locals
  BY <1>2, LocalsTypes
<1>6. /\ r.prevTick = recv[s].prevTick /\ r.firstLoop = recv[s].firstLoop
      /\ r.tick = recv[s].tick /\ recv[s].pushed \in Nat
      /\ \/ r.pc = "count" /\ r.pushed = recv[s].pushed + 1
         \/ r.pc = "loop" /\ r.pushed = recv[s].pushed
  BY <1>2, <1>3 DEF Pushed, Dumped, Locals
<1>7. stats[s] \in Counters /\ stats' = [stats EXCEPT ![s] = stats[s]]
  BY <1>1, <1>4 DEF CountTypes
<1>8. recv'[s] = r
  BY <1>1, <1>3 DEF Types
<1>9. TickOrder(s)'
  BY <1>1, <1>4, <1>6, <1>8 DEF TickOrder, NoTick
<1>10. BuiltRight(s)'
  <2>1. StillCounting(s)' => stats[s].built = recv[s].pushed
    BY <1>1, <1>4, <1>6 DEF BuiltRight, StillCounting
  <2>2. stats[s].built = recv[s].pushed =>
          stats[s].built = r.pushed - (IF r.pc = "count" THEN 1 ELSE 0)
    BY <1>6
  <2> QED BY <1>4, <1>8, <2>1, <2>2 DEF BuiltRight
<1> QED BY <1>3, <1>4, <1>5, <1>7, <1>9, <1>10, RisingStep

LEMMA CountRising ==
  ASSUME RisingInv, Types', NEW s \in Sources, Count(s)
  PROVE  RisingInv'
<1>1. Types /\ CountTypes /\ TickOrder(s) /\ BuiltRight(s)
  BY DEF RisingInv
<1> DEFINE r == Looked(recv[s])
           c == IF Restarted(recv[s]) THEN NoStats
                ELSE [stats[s] EXCEPT !.built = stats[s].built + 1]
<1>2. /\ recv' = [recv EXCEPT ![s] = r] /\ recv[s].pc = "count"
      /\ UNCHANGED <<setup, printer, fell>> /\ stats' = [stats EXCEPT ![s] = c]
  <2>1. UNCHANGED <<printer, fell>>
    BY DEF Count, others
  <2>2. stats' = [stats EXCEPT ![s] = c]
    BY Zenon DEF Count
  <2> QED BY <2>1, <2>2, <1>1, CountShape
<1>3. recv[s] \in Locals /\ r \in Locals
  BY <1>1, LocalsTypes DEF Types
<1>4. /\ r.firstLoop = FALSE /\ r.tick = recv[s].tick /\ r.pushed = recv[s].pushed
      /\ r.pc = "loop" /\ recv[s].pushed \in Nat
  BY <1>3 DEF Looked, Locals
<1>5. /\ c \in Counters
      /\ s \notin fell => c.built = stats[s].built + 1
  <2>1. stats[s] \in Counters /\ stats[s].built + 1 \in Int
    BY <1>1 DEF CountTypes, Counters
  <2> DEFINE n == stats[s].built + 1
             d == [stats[s] EXCEPT !.built = n]
  <2> HIDE DEF n
  <2>2. d \in Counters /\ d.built = n
    BY <2>1 DEF Counters, n
  <2>3. NoStats \in Counters
    BY DEF NoStats, Counters
  <2>4. s \notin fell => ~Restarted(recv[s])
    BY <1>1, <1>2, <1>3, NotRestarted DEF TickOrder
  <2>5. c = IF Restarted(recv[s]) THEN NoStats ELSE d
    BY DEF n
  <2> HIDE DEF c, d
  <2> QED BY <2>2, <2>3, <2>4, <2>5 DEF n
<1>6. recv'[s] = r /\ stats'[s] = c
  BY <1>1, <1>2 DEF Types, CountTypes
<1> HIDE DEF r, c
<1>7. TickOrder(s)'
  BY <1>1, <1>2, <1>4, <1>6 DEF TickOrder, NoTick
<1>8. BuiltRight(s)'
  <2>1. StillCounting(s)' => s \notin fell /\ stats[s].built = recv[s].pushed - 1
    BY <1>1, <1>2 DEF BuiltRight, StillCounting
  <2>2. StillCounting(s)' => c.built = r.pushed - 0
    BY <2>1, <1>4, <1>5
  <2> QED BY <1>4, <1>6, <2>2 DEF BuiltRight
<1> QED BY <1>2, <1>3, <1>5, <1>7, <1>8, RisingStep

\* The printing thread keeps the count of a source that it goes on with.
PrinterKeeps ==
    /\ CountTypes'
    /\ \A s \in Sources :
          printer'.skippedFirst[s] < 2 /\ ~printer'.rolled =>
             /\ printer.skippedFirst[s] < 2 /\ ~printer.rolled
             /\ stats'[s].built = stats[s].built

LEMMA ZeroedTypes ==
  ASSUME Types, CountTypes, UNCHANGED setup, NEW S, ZeroStats(S)
  PROVE  /\ stats' \in [Sources -> Counters]
         /\ \A s \in Sources \ S : stats'[s] = stats[s]
<1>1. \A s \in Sources : stats[s] \in Counters
  BY DEF CountTypes
<1>2. \A s \in Sources : Zeroed(s) \subseteq Counters
  <2> SUFFICES ASSUME NEW s \in Sources PROVE Zeroed(s) \subseteq Counters
    OBVIOUS
  <2>1. stats[s].accepted \in Int /\ stats[s].built \in Int
    BY <1>1 DEF Counters
  <2> QED BY <2>1 DEF Zeroed, Counters
<1>3. /\ stats' \in [Sources -> UNION {Zeroed(s) \cup {stats[s]} : s \in Sources}]
      /\ \A s \in Sources : IF s \in S THEN stats'[s] \in Zeroed(s) ELSE stats'[s] = stats[s]
  BY Zenon DEF ZeroStats
<1> DEFINE U == UNION {Zeroed(s) \cup {stats[s]} : s \in Sources}
<1> HIDE DEF U
<1>4. stats' \in [Sources -> U]
  BY <1>3 DEF U
<1>5. \A s \in Sources : stats'[s] \in Counters
  BY <1>1, <1>2, <1>3
<1> QED BY <1>3, <1>4, <1>5

LEMMA BeginIntervalKeeps ==
  ASSUME Types, CountTypes, BeginInterval
  PROVE  PrinterKeeps
<1> DEFINE S == {s \in Sources : printer.dataArrived[s] /\ printer.skippedFirst[s] = 1}
           p == StartOver(printer, S)
<1>1. /\ ZeroStats(S) /\ UNCHANGED setup /\ Sources' = Sources
      /\ \E prev, pc : printer' = [p EXCEPT !.prev = prev, !.i = 1, !.pc = pc]
  BY DEF BeginInterval, notPrinter, Sources
<1>2. /\ DOMAIN p = PrinterFields /\ p.rolled = printer.rolled
      /\ p.skippedFirst = [s \in Sources |-> IF s \in S THEN 2 ELSE printer.skippedFirst[s]]
  BY DEF StartOver, CountTypes, PrinterFields
<1> HIDE DEF p, S
<1>3. /\ DOMAIN printer' = PrinterFields /\ printer'.rolled = p.rolled
      /\ printer'.skippedFirst = p.skippedFirst
  <2>1. PICK prev, pc : printer' = [p EXCEPT !.prev = prev, !.i = 1, !.pc = pc]
    BY <1>1
  <2> QED BY <1>2, <2>1 DEF PrinterFields
<1>4. /\ stats' \in [Sources -> Counters]
      /\ \A s \in Sources \ S : stats'[s] = stats[s]
  BY <1>1, ZeroedTypes
<1>5. printer'.skippedFirst \in [Sources -> 0 .. 2]
  BY <1>2, <1>3 DEF CountTypes
<1>6. CountTypes'
  BY <1>1, <1>3, <1>4, <1>5 DEF CountTypes, PrinterFields, Counters
<1> QED BY <1>2, <1>3, <1>4, <1>6 DEF PrinterKeeps

LEMMA PrinterReadsKeeps ==
  ASSUME Types, CountTypes, TestRestart \/ ReadCounters
  PROVE  PrinterKeeps
<1>1. UNCHANGED <<setup, stats>>
  BY DEF TestRestart, ReadCounters, notPrinter
<1>2. /\ DOMAIN printer' = PrinterFields /\ printer'.rolled = printer.rolled
      /\ printer'.skippedFirst = printer.skippedFirst
  <2>1. CASE TestRestart
    BY <2>1 DEF TestRestart, CountTypes, PrinterFields
  <2>2. CASE ReadCounters
    BY <2>2 DEF ReadCounters, CountTypes, PrinterFields
  <2> QED BY <2>1, <2>2
<1>3. CountTypes'
  BY <1>1, <1>2 DEF CountTypes, PrinterFields, Counters, Sources
<1> QED BY <1>1, <1>2, <1>3 DEF PrinterKeeps

LEMMA RollOverKeeps ==
  ASSUME Types, CountTypes, RollOver
  PROVE  PrinterKeeps
<1>1. ZeroStats(Sources) /\ UNCHANGED setup /\ Sources' = Sources
  BY DEF RollOver, notPrinter, Sources
<1>2. /\ DOMAIN printer' = PrinterFields /\ printer'.rolled = TRUE
      /\ printer'.skippedFirst = printer.skippedFirst
  BY DEF RollOver, CountTypes, PrinterFields
<1>3. stats' \in [Sources -> Counters]
  BY <1>1, ZeroedTypes
<1>4. CountTypes'
  BY <1>1, <1>2, <1>3 DEF CountTypes, PrinterFields, Counters
<1> QED BY <1>2, <1>4 DEF PrinterKeeps

LEMMA PrintsKeeps ==
  ASSUME Types, CountTypes, NEW numbers, PrintGains(numbers)
  PROVE  PrinterKeeps
<1>1. UNCHANGED <<stats, notPrinter>>
  BY Zenon DEF PrintGains
<1>2. UNCHANGED <<setup, stats>> /\ Sources' = Sources
  BY <1>1 DEF notPrinter, Sources
<1> DEFINE skipped == [s \in Sources |-> IF Arrived[s] /\ printer.skippedFirst[s] < 1 THEN 1
                                       ELSE printer.skippedFirst[s]]
<1>3. \E arrived, prints, total :
         printer' = [printer EXCEPT !.pc = "top", !.dataArrived = arrived, !.prints = prints,
                                    !.skippedFirst = skipped, !.shown = numbers,
                                    !.total = total]
  BY Zenon DEF PrintGains
<1> HIDE DEF skipped
<1>4. /\ DOMAIN printer' = PrinterFields /\ printer'.rolled = printer.rolled
      /\ printer'.skippedFirst = skipped
  <2>1. PICK arrived, prints, total :
         printer' = [printer EXCEPT !.pc = "top", !.dataArrived = arrived, !.prints = prints,
                                    !.skippedFirst = skipped, !.shown = numbers,
                                    !.total = total]
    BY <1>3
  <2> QED BY <2>1 DEF CountTypes, PrinterFields
<1>5. /\ skipped \in [Sources -> 0 .. 2]
      /\ \A s \in Sources : skipped[s] < 2 => printer.skippedFirst[s] < 2
  BY DEF skipped, CountTypes
<1>6. CountTypes'
  BY <1>2, <1>4, <1>5 DEF CountTypes, PrinterFields, Counters
<1> QED BY <1>2, <1>4, <1>5, <1>6 DEF PrinterKeeps

LEMMA StatisticsKeep ==
  ASSUME Types, CountTypes, Statistics
  PROVE  PrinterKeeps
<1>1. PrintJoint => PrinterKeeps
  <2> DEFINE n == {SumFunction([s \in Due |-> Gain(s, f)]) : f \in {"accepted", "built"}}
  <2>1. PrintJoint => PrintGains(n)
    BY Zenon DEF PrintJoint
  <2> HIDE DEF n
  <2> QED BY <2>1, PrintsKeeps
<1>2. PrintEach => PrinterKeeps
  <2> DEFINE n == {Gain(s, f) : s \in Due, f \in {"accepted", "built"}}
  <2>1. PrintEach => PrintGains(n)
    BY SMT DEF PrintEach
  <2> HIDE DEF n
  <2> QED BY <2>1, PrintsKeeps
<1> QED
  BY <1>1, <1>2, BeginIntervalKeeps, PrinterReadsKeeps, RollOverKeeps, Zenon
  DEF Statistics, ServerBegins, ServerReads, ServerPrints

LEMMA RisingNext ==
  ASSUME RisingInv, Types', [Next]_vars
  PROVE  RisingInv'
<1>1. Types /\ CountTypes
  BY DEF RisingInv
<1>2. ASSUME NEW s \in Sources, Receiving(s) PROVE RisingInv'
  BY <1>2, BeginBufferRising, ReceivePartRising, AssembledRising, AssembleFailsRising,
     PushRising, CountRising DEF Receiving
<1>3. CASE ~\E s \in Sources : Receiving(s)
  <2>1. UNCHANGED <<setup, recv, fell>> /\ PrinterKeeps
    <3>1. ASSUME UNCHANGED <<setup, printer, stats>> PROVE PrinterKeeps
      BY <1>1, <3>1 DEF PrinterKeeps, CountTypes, PrinterFields, Counters, Sources
    <3>2. CASE Statistics
      <4>1. UNCHANGED notPrinter
        BY <3>2, StatisticsFrame
      <4> QED BY <4>1, <3>2, <1>1, StatisticsKeep DEF notPrinter
    <3>3. CASE ~Statistics
      <4>1. CASE \E u \in Users : Getting(u)
        BY <4>1, <3>1 DEF Getting, Pop, PopEmpty, GotEvent, notUsers
      <4>2. CASE Constructing
        BY <4>2, <3>1 DEF Constructing, DirectConstructor, SetFromURI, Register,
           CreateDataSockets, StartupGrpcThread, ServerDirectConstructor, ServerConstructor,
           ServerCreateDataSockets, CreateServerSocket, RegisterWithSimpleServer, Construct,
           Fails
      <4>3. CASE EjfatSample \/ ServerSample
        <5>1. UNCHANGED <<setup, recv, fell, printer, stats>>
          BY <4>3, Zenon DEF EjfatSample, ServerSample, Sample
        <5> QED BY <5>1, <3>1
      <4>4. CASE ReportFails \/ Destroy \/ Destroyed
        BY <4>4, <3>1 DEF ReportFails, Destroy, Destroyed
      <4>5. CASE Finished \/ vars' = vars
        BY <4>5, <3>1 DEF Finished, vars
      <4> QED BY <1>3, <3>3, <4>1, <4>2, <4>3, <4>4, <4>5
          DEF Next, EjfatReceiving, ServerReceiving, EjfatGetEvent, ServerGetEvent
    <3> QED BY <3>2, <3>3
  <2>2. ASSUME NEW s \in Sources PROVE TickOrder(s)' /\ BuiltRight(s)'
    <3>1. TickOrder(s) /\ BuiltRight(s)
      BY DEF RisingInv
    <3>2. TickOrder(s)'
      BY <2>1, <3>1 DEF TickOrder, NoTick
    <3>3. BuiltRight(s)'
      BY <2>1, <3>1 DEF BuiltRight, StillCounting, PrinterKeeps
    <3> QED BY <3>2, <3>3
  <2>3. Sources' = Sources /\ CountTypes'
    BY <2>1 DEF PrinterKeeps, Sources
  <2> QED BY <2>2, <2>3 DEF RisingInv
<1> QED BY <1>2, <1>3

\* While a source's ticks only rise, no restart is seen, whatever is dumped, and
\* the buffers counted are the events queued (EjfatConsumer.cpp:1064-1083), for
\* every modulus of the ticks and every gap.
THEOREM NoRestart == Spec => []NoRestartWhileRising
<1>1. RisingInv => NoRestartWhileRising
  BY DEF RisingInv, BuiltRight, StillCounting, NoRestartWhileRising
<1>2. QueueInv /\ RisingInv /\ [Next]_vars => QueueInv' /\ RisingInv'
  <2> SUFFICES ASSUME QueueInv, RisingInv, [Next]_vars PROVE QueueInv' /\ RisingInv'
    OBVIOUS
  <2>1. QueueInv' /\ Types'
    BY QueueInvNext DEF QueueInv
  <2> QED BY <2>1, RisingNext
<1> QED BY <1>1, <1>2, InitQueue, InitRising, PTL DEF Spec

-----------------------------------------------------------------------------
(* The running average of the queue level.                                 *)

Samples == 0 .. Fcount - 1

WindowTypes ==
    /\ fill.values \in [Samples -> Int]
    /\ fill.currentIndex \in Samples
    /\ fill.age \in [Samples -> Samples]
    /\ fill.total \in Nat

\* How many samples before the last one the one at index j was taken, if the next
\* is put at index i.
Back(i, j) == IF j < i THEN i - 1 - j ELSE i - 1 - j + Fcount

\* The age of a sample is that of its place; and the total is at least the sum of
\* the samples, and exactly that while none was below zero.
WindowInv ==
    /\ WindowTypes
    /\ \A j \in Samples : fill.age[j] = Back(fill.currentIndex, j)
    /\ SumOver(fill.values, Samples) <= fill.total
    /\ \/ fill.wasNegative
       \/ /\ fill.total = SumOver(fill.values, Samples)
          /\ \A j \in Samples : fill.values[j] >= 0

LEMMA InitWindow == Init => WindowInv
<1> SUFFICES ASSUME Init PROVE WindowInv
  OBVIOUS
<1>1. Fcount \in Nat /\ Fcount >= 2
  BY ConsumerAssumption
<1>2. /\ fill.values = [i \in Samples |-> 0]
      /\ fill.age = [i \in Samples |-> Fcount - 1 - i]
      /\ fill.currentIndex = 0 /\ fill.total = 0
  BY DEF Init, Samples
<1>3. SumOver(fill.values, Samples) = 0
  <2>1. IsFiniteSet(Samples)
    BY <1>1, FS_Interval DEF Samples
  <2> QED BY <1>2, <2>1, SumType
<1>4. \A j \in Samples : Fcount - 1 - j \in Samples /\ Back(0, j) = Fcount - 1 - j
  BY <1>1 DEF Samples, Back
<1>5. fill.age \in [Samples -> Samples]
  BY <1>2, <1>4
<1>6. WindowTypes
  BY <1>1, <1>2, <1>5 DEF WindowTypes, Samples
<1> QED BY <1>2, <1>3, <1>4, <1>6 DEF WindowInv

LEMMA SampleWindow ==
  ASSUME Types, WindowInv, Sample
  PROVE  WindowInv'
<1> DEFINE i == fill.currentIndex
           n == IF i + 1 = Fcount THEN 0 ELSE i + 1
           v == [fill.values EXCEPT ![i] = queueSize]
           a == [j \in Samples |-> IF j = i THEN 0 ELSE Older(fill.age[j])]
           t == RunningTotal(fill.values[i], queueSize)
<1>1. /\ Fcount \in Nat /\ Fcount >= 2
      /\ i \in Samples /\ queueSize \in Int
      /\ fill.values \in [Samples -> Int]
      /\ fill.age \in [Samples -> Samples] /\ fill.total \in Nat
  BY ConsumerAssumption DEF Types, WindowInv, WindowTypes
<1>2. /\ fill'.values = v /\ fill'.currentIndex = n
      /\ fill'.age = a /\ fill'.total = t
      /\ fill'.wasNegative <=> fill.wasNegative \/ queueSize < 0
  BY DEF Sample, Samples, IndexAfter
<1>3. i \in Int /\ 0 <= i /\ i <= Fcount - 1
  BY <1>1 DEF Samples
<1>4. n \in Samples
  BY <1>1, <1>3 DEF Samples
<1>5. \A j \in Samples : a[j] = Back(n, j) /\ Back(n, j) \in Samples
  <2> SUFFICES ASSUME NEW j \in Samples PROVE a[j] = Back(n, j) /\ Back(n, j) \in Samples
    OBVIOUS
  <2>1. j \in Int /\ 0 <= j /\ j < Fcount
    BY <1>1 DEF Samples
  <2>2. a[j] = IF j = i THEN 0 ELSE Older(fill.age[j])
    OBVIOUS
  <2>3. CASE j = i
    BY <1>1, <1>3, <2>1, <2>2, <2>3 DEF Back, Samples
  <2>4. CASE j # i
    <3>1. fill.age[j] = Back(i, j)
      BY DEF WindowInv
    <3>2. Back(i, j) + 1 = Back(n, j) /\ Back(n, j) \in Nat /\ Back(n, j) < Fcount
      BY <1>1, <1>3, <2>1, <2>4 DEF Back
    <3>3. a[j] = Older(Back(i, j))
      BY <2>2, <2>4, <3>1
    <3> HIDE DEF a, n
    <3>4. ASSUME NEW x \in Nat, x < Fcount PROVE Min({Fcount, x}) = x
      BY <1>1, <3>4 DEF Min
    <3>5. Older(Back(i, j)) = Back(n, j)
      BY <3>2, <3>4 DEF Older
    <3> QED BY <1>1, <3>2, <3>3, <3>5 DEF Samples
  <2> QED BY <2>3, <2>4
<1>6. v \in [Samples -> Int] /\ a \in [Samples -> Samples]
  BY <1>1, <1>5
<1>7. /\ t \in Nat /\ t >= fill.total + queueSize - fill.values[i]
      /\ fill.total + queueSize - fill.values[i] >= 0
         => t = fill.total + queueSize - fill.values[i]
  <2> DEFINE x == fill.total + queueSize - fill.values[i]
  <2>1. x \in Int
    BY <1>1
  <2> HIDE DEF x
  <2>2. t \in {0, x} /\ t >= 0 /\ t >= x
    <3>1. t = Max({0, x})
      BY DEF RunningTotal, x
    <3> HIDE DEF t
    <3> QED BY <2>1, <3>1 DEF Max
  <2> HIDE DEF t
  <2> QED BY <2>1, <2>2 DEF x
<1>8. /\ SumOver(v, Samples) \in Int
      /\ SumOver(v, Samples) = SumOver(fill.values, Samples) - fill.values[i] + queueSize
      /\ SumOver(fill.values, Samples) \in Int
      /\ (\A j \in Samples : v[j] >= 0) => SumOver(v, Samples) >= 0
  <2>1. IsFiniteSet(Samples)
    BY <1>1, FS_Interval DEF Samples
  <2>2. \A x \in Samples : fill.values[x] \in Int /\ v[x] \in Int
    BY <1>1, <1>6
  <2>3. v[i] = queueSize /\ \A x \in Samples \ {i} : v[x] = fill.values[x]
    BY <1>1
  <2> HIDE DEF v, t, i
  <2>4. SumOver(fill.values, Samples) \in Int /\ SumOver(v, Samples) \in Int
    BY <2>1, <2>2, SumType
  <2>5. SumOver(v, Samples) = SumOver(fill.values, Samples) - fill.values[i] + v[i]
    BY <1>1, <2>1, <2>2, <2>3, SumChange
  <2>6. (\A j \in Samples : v[j] >= 0) => SumOver(v, Samples) >= 0
    <3> SUFFICES ASSUME \A j \in Samples : v[j] >= 0 PROVE SumOver(v, Samples) >= 0
      OBVIOUS
    <3>1. \A j \in Samples : v[j] \in Nat
      BY <2>2
    <3>2. SumOver(v, Samples) \in Nat
      BY <2>1, <3>1, SumType
    <3> QED BY <3>2
  <2> QED BY <2>3, <2>4, <2>5, <2>6
<1>9. ASSUME ~fill.wasNegative, queueSize >= 0
      PROVE  \A j \in Samples : v[j] >= 0
  BY <1>1, <1>9 DEF WindowInv
<1>10. fill.values[i] \in Int
  BY <1>1
<1>11. SumOver(fill.values, Samples) <= fill.total
  BY DEF WindowInv
<1>12. ~fill.wasNegative => fill.total = SumOver(fill.values, Samples)
  BY DEF WindowInv
<1>13. SumOver(v, Samples) <= t
  <2> HIDE DEF v, t, i
  <2> QED BY <1>1, <1>7, <1>8, <1>10, <1>11
<1>14. ~fill.wasNegative /\ queueSize >= 0 => t = SumOver(v, Samples)
  <2> HIDE DEF v, t, i
  <2> QED BY <1>1, <1>7, <1>8, <1>9, <1>10, <1>12
<1>15. WindowTypes'
  <2> HIDE DEF v, a, t, n, i
  <2> QED BY <1>2, <1>4, <1>6, <1>7 DEF WindowTypes, Samples
<1>16. fill'.wasNegative \/ (fill'.total = SumOver(fill'.values, Samples)
                             /\ \A j \in Samples : fill'.values[j] >= 0)
  <2> HIDE DEF v, a, t, n, i
  <2> QED BY <1>1, <1>2, <1>9, <1>14
<1> HIDE DEF v, a, t, n, i
<1>17. \A j \in Samples : fill'.age[j] = Back(fill'.currentIndex, j)
  BY <1>2, <1>5
<1> QED BY <1>2, <1>13, <1>15, <1>16, <1>17 DEF WindowInv, Samples, Back

\* No other step samples the queue.
LEMMA WindowFrame == [Next]_vars => Sample \/ fill' = fill
<1> SUFFICES ASSUME [Next]_vars, ~Sample PROVE fill' = fill
  OBVIOUS
<1>1. CASE Constructing
  BY <1>1 DEF Constructing, DirectConstructor, SetFromURI, Register,
     CreateDataSockets, StartupGrpcThread, ServerDirectConstructor, ServerConstructor,
     ServerCreateDataSockets, CreateServerSocket, RegisterWithSimpleServer, Construct, Fails
<1>2. ASSUME NEW s \in Sources, Receiving(s) PROVE fill' = fill
  <2>1. CASE BeginBuffer(s) \/ ReceivePart(s)
    BY <2>1 DEF BeginBuffer, ReceivePart, others
  <2>2. CASE \E t \in setup.ticks, bytes \in setup.sizes : Assembled(s, t, bytes)
    BY <2>2, Zenon DEF Assembled, others
  <2>3. CASE AssembleFails(s) \/ PushFull(s)
    BY <2>3 DEF AssembleFails, PushFull, others
  <2>4. CASE Push(s) \/ Count(s)
    BY <2>4, Zenon DEF Push, Count, others
  <2> QED BY <1>2, <2>1, <2>2, <2>3, <2>4 DEF Receiving
<1>3. CASE \E u \in Users : Getting(u)
  BY <1>3 DEF Getting, Pop, PopEmpty, GotEvent, notUsers
<1>4. CASE ReportFails \/ Destroy \/ Destroyed
  BY <1>4 DEF ReportFails, Destroy, Destroyed
<1>5. CASE Statistics
  BY <1>5, StatisticsFrame DEF notPrinter
<1>6. CASE Finished \/ vars' = vars
  BY <1>6 DEF Finished, vars
<1> QED
  BY <1>1, <1>2, <1>3, <1>4, <1>5, <1>6 DEF Next, EjfatReceiving, ServerReceiving,
     EjfatGetEvent, ServerGetEvent, EjfatSample, ServerSample

\* The level reported is that of the last fcount samples, each counted once; the
\* running total never understates them, whatever the count kept beside the queue
\* is when they are taken, and is their sum unless that was negative
\* (EjfatConsumer.cpp:846-866), for every number of samples.
THEOREM WindowReported == Spec => []ReportedFromWindow
<1>1. WindowInv => ReportedFromWindow
  <2> SUFFICES ASSUME WindowInv PROVE ReportedFromWindow
    OBVIOUS
  <2>1. /\ Fcount \in Nat /\ fill.currentIndex \in Samples
        /\ fill.age \in [Samples -> Samples] /\ DOMAIN fill.values = Samples
    BY ConsumerAssumption DEF WindowInv, WindowTypes
  <2>2. ASSUME NEW x \in Samples PROVE \E j \in Samples : fill.age[j] = x
    <3> DEFINE c == fill.currentIndex
    <3>1. c \in Int /\ x \in Int /\ 0 <= x /\ x < Fcount /\ 0 <= c /\ c < Fcount
      BY <2>1 DEF Samples
    <3>2. \A j \in Samples : fill.age[j] = Back(c, j)
      BY DEF WindowInv
    <3> HIDE DEF c
    <3>3. CASE x < c
      <4>1. c - 1 - x \in Samples /\ Back(c, c - 1 - x) = x
        BY <2>1, <3>1, <3>3 DEF Back, Samples
      <4> QED BY <3>2, <4>1
    <3>4. CASE ~(x < c)
      <4>1. c - 1 - x + Fcount \in Samples /\ Back(c, c - 1 - x + Fcount) = x
        BY <2>1, <3>1, <3>4 DEF Back, Samples
      <4> QED BY <3>2, <4>1
    <3> QED BY <3>3, <3>4
  <2>3. Range(fill.age) = Samples
    BY <2>1, <2>2 DEF Range
  <2> QED BY <2>1, <2>3, SumOfFunction DEF WindowInv, ReportedFromWindow, Samples
<1>2. QueueInv /\ WindowInv /\ [Next]_vars => QueueInv' /\ WindowInv'
  <2> SUFFICES ASSUME QueueInv, WindowInv, [Next]_vars PROVE QueueInv' /\ WindowInv'
    OBVIOUS
  <2>1. CASE fill' = fill
    BY <2>1, QueueInvNext DEF WindowInv, WindowTypes, Samples, Back
  <2>2. Types
    BY DEF QueueInv
  <2> QED BY <2>1, <2>2, WindowFrame, SampleWindow, QueueInvNext
<1> QED BY <1>1, <1>2, InitQueue, InitWindow, PTL DEF Spec

-----------------------------------------------------------------------------
(* What the printing thread prints.                                        *)

Fields == {"accepted", "built"}

PrintTypes ==
    /\ {printer.curr, printer.prev, printer.total} \subseteq [Sources -> Counters]
    /\ printer.prints \in Nat

\* A source whose counters stand for what came of it: they are set to zero once
\* at most, by the printing thread.
Counts(s) == s \notin fell /\ ~printer.rolled

\* Of the last event only a packet may have come.
AcceptedMax(r) == r.assembled + (IF r.pc = "ended" THEN 1 ELSE 0)
BuiltMax(r)    == r.pushed - (IF r.pc = "count" THEN 1 ELSE 0)

CountersBounded(s) ==
    Counts(s) => /\ stats[s].accepted \in 0 .. AcceptedMax(recv[s])
                 /\ stats[s].built \in 0 .. BuiltMax(recv[s])

\* The first interval of a source ends with a printout in which it is skipped;
\* at the top of the next its counters start over.
Skipping(s) ==
    /\ printer.skippedFirst[s] < 2 => printer.total[s] = NoStats
    /\ printer.skippedFirst[s] > 0 => printer.dataArrived[s] = TRUE /\ printer.prints > 0
    /\ printer.skippedFirst[s] = 1 => printer.pc = "top"

\* From then on what was printed is what was read last, and while an interval
\* lasts what was read before.
Telescopes(s) ==
    printer.skippedFirst[s] = 2 /\ Counts(s) =>
        \A f \in Fields :
            /\ printer.prev[s][f] <= printer.curr[s][f]
            /\ printer.curr[s][f] <= stats[s][f]
            /\ printer.total[s][f] = IF printer.pc = "top" THEN printer.curr[s][f]
                                                           ELSE printer.prev[s][f]

ShownRight == fell = {} /\ ~printer.rolled => printer.shown \subseteq Nat

PrintInv ==
    /\ PrintTypes
    /\ \A s \in Sources : CountersBounded(s) /\ Skipping(s) /\ Telescopes(s)
    /\ ShownRight

LEMMA InitPrint == Init => PrintInv
<1> SUFFICES ASSUME Init PROVE PrintInv
  OBVIOUS
<1>1. /\ printer.curr = [s \in Sources |-> NoStats] /\ printer.prev = [s \in Sources |-> NoStats]
      /\ printer.total = [s \in Sources |-> NoStats] /\ printer.prints = 0
      /\ printer.skippedFirst = [s \in Sources |-> 0] /\ printer.shown = {}
      /\ stats = [s \in Sources |-> NoStats]
  BY DEF Init
<1>2. \A s \in Sources : recv[s].pc = "loop" /\ recv[s].assembled = 0 /\ recv[s].pushed = 0
  BY DEF Init
<1>3. NoStats \in Counters /\ NoStats.accepted = 0 /\ NoStats.built = 0
  BY DEF NoStats, Counters
<1>4. PrintTypes
  BY <1>1, <1>3 DEF PrintTypes
<1>5. \A s \in Sources : CountersBounded(s)
  BY <1>1, <1>2, <1>3 DEF CountersBounded, AcceptedMax, BuiltMax
<1>6. \A s \in Sources : Skipping(s) /\ Telescopes(s)
  BY <1>1 DEF Skipping, Telescopes
<1> QED BY <1>1, <1>4, <1>5, <1>6 DEF PrintInv, ShownRight

\* With a step of its receiving thread the counters of s grow by no more than what
\* they count, unless the source restarts.
Grows(s, r, c) ==
    s \notin fell' =>
        /\ c.accepted - stats[s].accepted \in 0 .. AcceptedMax(r) - AcceptedMax(recv[s])
        /\ c.built - stats[s].built \in 0 .. BuiltMax(r) - BuiltMax(recv[s])

CountedStep(s, r, c) ==
    /\ recv' = [recv EXCEPT ![s] = r]
    /\ stats' = [stats EXCEPT ![s] = c]
    /\ fell \subseteq fell'
    /\ UNCHANGED <<setup, printer>>
    /\ Grows(s, r, c)

LEMMA TurnGrows ==
  ASSUME RisingInv, NEW s \in Sources, BeginBuffer(s) \/ ReceivePart(s) \/ PushFull(s)
  PROVE  \E r \in Locals, c \in Counters : CountedStep(s, r, c)
<1>1. Types /\ CountTypes
  BY DEF RisingInv
<1>2. recv[s] \in Locals /\ stats[s] \in Counters
  BY <1>1 DEF Types, CountTypes
<1>3. UNCHANGED <<setup, printer, fell, stats>> /\ recv[s].pc \notin {"ended", "count"}
  BY DEF BeginBuffer, ReceivePart, PushFull, At, others
<1>4. PICK r \in {Begun(recv[s], TRUE), Begun(recv[s], FALSE), Dumped(recv[s]),
                  [recv[s] EXCEPT !.pc = "building"]} : recv' = [recv EXCEPT ![s] = r]
  <2>1. CASE BeginBuffer(s)
    <3>1. Begun(recv[s], endThreads) \in {Begun(recv[s], TRUE), Begun(recv[s], FALSE)}
      BY DEF Begun
    <3> QED BY <2>1, <3>1, <1>1, BeginBufferShape
  <2>2. CASE ReceivePart(s)
    BY <2>2, <1>1, ReceivePartShape
  <2>3. CASE PushFull(s)
    BY <2>3, <1>1, PushFullShape
  <2> QED BY <2>1, <2>2, <2>3
<1>5. r \in Locals
  BY <1>2, <1>4, LocalsTypes
<1>6. r.assembled = recv[s].assembled /\ r.pushed = recv[s].pushed /\ r.pc # "count"
  BY <1>2, <1>4 DEF Begun, Dumped, Locals
<1>7. stats' = [stats EXCEPT ![s] = stats[s]]
  BY <1>1, <1>3 DEF CountTypes
<1>8. Grows(s, r, stats[s])
  <2> DEFINE c == stats[s]
  <2>1. /\ c.accepted - c.accepted = 0 /\ c.built - c.built = 0
        /\ r.assembled \in Nat /\ r.pushed \in Nat
    BY <1>2, <1>5 DEF Counters, Locals
  <2> HIDE DEF c
  <2>2. AcceptedMax(r) - AcceptedMax(recv[s]) >= 0 /\ BuiltMax(r) - BuiltMax(recv[s]) = 0
    BY <1>3, <1>6, <2>1 DEF AcceptedMax, BuiltMax
  <2>3. AcceptedMax(r) - AcceptedMax(recv[s]) \in Int
    BY <1>3, <1>6, <2>1 DEF AcceptedMax
  <2> QED BY <2>1, <2>2, <2>3 DEF Grows, c
<1> QED BY <1>2, <1>3, <1>4, <1>5, <1>7, <1>8 DEF CountedStep

LEMMA AssembledGrows ==
  ASSUME RisingInv, NEW s \in Sources,
         \/ AssembleFails(s)
         \/ \E t \in setup.ticks, bytes \in setup.sizes : Assembled(s, t, bytes)
  PROVE  \E r \in Locals, c \in Counters : CountedStep(s, r, c)
<1>1. Types /\ CountTypes
  BY DEF RisingInv
<1>2. recv[s] \in Locals /\ stats[s] \in Counters
  BY <1>1 DEF Types, CountTypes
<1>3. PICK r \in Locals, packets \in {0, 1} :
        /\ recv[s].pc = "building" /\ recv' = [recv EXCEPT ![s] = r]
        /\ stats' = [stats EXCEPT ![s].accepted = @ + packets]
        /\ fell \subseteq fell' /\ UNCHANGED <<setup, printer>>
        /\ r.pushed = recv[s].pushed
        /\ \/ r.assembled = recv[s].assembled + 1 /\ r.pc = "push"
           \/ r.assembled = recv[s].assembled /\ r.pc = "ended"
  <2>1. CASE AssembleFails(s)
    <3>1. /\ recv[s].pc = "building" /\ recv' = [recv EXCEPT ![s] = Ended(recv[s])]
          /\ UNCHANGED <<setup, printer, fell>>
      BY <2>1, <1>1, AssembleFailsShape DEF AssembleFails, others
    <3>2. \E packets \in {0, 1} : stats' = [stats EXCEPT ![s].accepted = @ + packets]
      BY <2>1 DEF AssembleFails
    <3>3. /\ Ended(recv[s]) \in Locals /\ Ended(recv[s]).pushed = recv[s].pushed
          /\ Ended(recv[s]).assembled = recv[s].assembled /\ Ended(recv[s]).pc = "ended"
      BY <1>2, LocalsTypes DEF Ended, Locals
    <3> QED BY <3>1, <3>2, <3>3
  <2>2. ASSUME NEW t \in setup.ticks, NEW bytes \in setup.sizes, Assembled(s, t, bytes)
        PROVE  \E q \in Locals, packets \in {0, 1} :
                  /\ recv[s].pc = "building" /\ recv' = [recv EXCEPT ![s] = q]
                  /\ stats' = [stats EXCEPT ![s].accepted = @ + packets]
                  /\ fell \subseteq fell' /\ UNCHANGED <<setup, printer>>
                  /\ q.pushed = recv[s].pushed
                  /\ \/ q.assembled = recv[s].assembled + 1 /\ q.pc = "push"
                     \/ q.assembled = recv[s].assembled /\ q.pc = "ended"
    <3> DEFINE n == recv[s].assembled + 1
               q == [recv[s] EXCEPT !.pc = "push", !.tick = t, !.assembled = n]
    <3>1. recv[s].pc = "building" /\ recv' = [recv EXCEPT ![s] = q] /\ UNCHANGED setup
      BY <2>2, <1>1, AssembledShape
    <3>2. /\ stats' = [stats EXCEPT ![s].accepted = @ + 1]
          /\ fell \subseteq fell' /\ UNCHANGED printer
      BY <2>2 DEF Assembled, others
    <3>3. q \in Locals
      BY <1>1, <1>2, SetupFacts, LocalsTypes DEF Types
    <3> HIDE DEF n
    <3>4. q.pushed = recv[s].pushed /\ q.assembled = n /\ q.pc = "push"
      BY <1>2 DEF Locals
    <3> HIDE DEF q
    <3> QED BY <3>1, <3>2, <3>3, <3>4 DEF n
  <2> QED BY <2>1, <2>2
<1> DEFINE n == stats[s].accepted + packets
           c == [stats[s] EXCEPT !.accepted = n]
<1>4. stats' = [stats EXCEPT ![s] = c]
  BY <1>3
<1>5. n \in Int /\ stats[s].accepted \in Int /\ n - stats[s].accepted = packets
      /\ stats[s].built \in Int /\ stats[s].built - stats[s].built = 0
  BY <1>2 DEF Counters
<1> HIDE DEF n
<1>6. c \in Counters /\ c.accepted = n /\ c.built = stats[s].built
  BY <1>2, <1>5 DEF Counters
<1> HIDE DEF c
<1>7. /\ AcceptedMax(r) - AcceptedMax(recv[s]) = 1 /\ BuiltMax(r) - BuiltMax(recv[s]) = 0
  <2>1. recv[s].assembled \in Nat /\ recv[s].pushed \in Nat
    BY <1>2 DEF Locals
  <2> QED BY <1>3, <2>1 DEF AcceptedMax, BuiltMax
<1>8. Grows(s, r, c)
  BY <1>5, <1>6, <1>7 DEF Grows
<1> QED BY <1>3, <1>4, <1>6, <1>8 DEF CountedStep

LEMMA PushGrows ==
  ASSUME RisingInv, NEW s \in Sources, Push(s)
  PROVE  \E r \in Locals, c \in Counters : CountedStep(s, r, c)
<1>1. Types /\ CountTypes
  BY DEF RisingInv
<1>2. recv[s] \in Locals /\ stats[s] \in Counters
  BY <1>1 DEF Types, CountTypes
<1> DEFINE r == Pushed(recv[s])
           c == stats[s]
<1>3. /\ recv[s].pc = "push" /\ recv' = [recv EXCEPT ![s] = r]
      /\ UNCHANGED <<setup, printer, fell, stats>>
  BY <1>1, PushShape DEF Push, others
<1>4. stats' = [stats EXCEPT ![s] = c]
  BY <1>1, <1>3 DEF CountTypes
<1>5. /\ r \in Locals /\ r.pc = "count" /\ r.assembled = recv[s].assembled
      /\ r.pushed = recv[s].pushed + 1
  BY <1>2, LocalsTypes DEF Pushed, Locals
<1>6. /\ c.accepted - c.accepted = 0 /\ c.built - c.built = 0
      /\ recv[s].assembled \in Nat /\ recv[s].pushed \in Nat
  BY <1>2 DEF Counters, Locals
<1> HIDE DEF r, c
<1>7. AcceptedMax(r) - AcceptedMax(recv[s]) = 0 /\ BuiltMax(r) - BuiltMax(recv[s]) = 0
  BY <1>3, <1>5, <1>6 DEF AcceptedMax, BuiltMax
<1>8. Grows(s, r, c)
  BY <1>6, <1>7 DEF Grows, c
<1> QED BY <1>2, <1>3, <1>4, <1>5, <1>8 DEF CountedStep, c

LEMMA CountGrows ==
  ASSUME RisingInv, NEW s \in Sources, Count(s)
  PROVE  \E r \in Locals, c \in Counters : CountedStep(s, r, c)
<1>1. Types /\ CountTypes /\ TickOrder(s)
  BY DEF RisingInv
<1>2. recv[s] \in Locals /\ stats[s] \in Counters
  BY <1>1 DEF Types, CountTypes
<1> DEFINE r == Looked(recv[s])
           n == stats[s].built + 1
           c == IF Restarted(recv[s]) THEN NoStats ELSE [stats[s] EXCEPT !.built = n]
<1>3. /\ recv[s].pc = "count" /\ recv' = [recv EXCEPT ![s] = r]
      /\ UNCHANGED <<setup, printer, fell>> /\ stats' = [stats EXCEPT ![s] = c]
  <2>1. UNCHANGED <<printer, fell>>
    BY DEF Count, others
  <2>2. stats' = [stats EXCEPT ![s] = c]
    BY Zenon DEF Count
  <2> QED BY <2>1, <2>2, <1>1, CountShape
<1>4. s \notin fell => ~Restarted(recv[s])
  BY <1>1, <1>2, <1>3, NotRestarted DEF TickOrder
<1>5. /\ r \in Locals /\ r.pc = "loop" /\ r.assembled = recv[s].assembled
      /\ r.pushed = recv[s].pushed
  BY <1>2, LocalsTypes DEF Looked, Locals
<1>6. /\ n \in Int /\ n - stats[s].built = 1 /\ stats[s].accepted - stats[s].accepted = 0
      /\ recv[s].assembled \in Nat /\ recv[s].pushed \in Nat /\ NoStats \in Counters
  BY <1>2 DEF Counters, Locals, NoStats
<1> HIDE DEF r, n
<1>7. /\ c \in Counters
      /\ s \notin fell => c.accepted = stats[s].accepted /\ c.built = n
  BY <1>2, <1>4, <1>6 DEF Counters
<1> HIDE DEF c
<1>8. AcceptedMax(r) - AcceptedMax(recv[s]) = 0 /\ BuiltMax(r) - BuiltMax(recv[s]) = 1
  BY <1>3, <1>5, <1>6 DEF AcceptedMax, BuiltMax
<1>9. Grows(s, r, c)
  BY <1>3, <1>6, <1>7, <1>8 DEF Grows
<1> QED BY <1>3, <1>5, <1>7, <1>9 DEF CountedStep

LEMMA ReceivingPrint ==
  ASSUME RisingInv, PrintInv, NEW s \in Sources, Receiving(s)
  PROVE  PrintInv'
<1>1. PICK r \in Locals, c \in Counters : CountedStep(s, r, c)
  BY TurnGrows, AssembledGrows, PushGrows, CountGrows DEF Receiving
<1>2. /\ Types /\ CountTypes /\ PrintTypes /\ Sources' = Sources /\ UNCHANGED <<setup, printer>>
      /\ fell \subseteq fell'
      /\ recv' = [recv EXCEPT ![s] = r] /\ stats' = [stats EXCEPT ![s] = c]
  BY <1>1 DEF RisingInv, PrintInv, CountedStep, Sources
<1>3. ASSUME NEW x \in Sources, Counts(x)'
      PROVE  /\ CountersBounded(x)'
             /\ stats[x].accepted <= stats'[x].accepted /\ stats[x].built <= stats'[x].built
  <2>1. Counts(x) /\ x \notin fell'
    BY <1>2, <1>3 DEF Counts
  <2>2. stats[x].accepted \in 0 .. AcceptedMax(recv[x]) /\ stats[x].built \in 0 .. BuiltMax(recv[x])
    BY <2>1 DEF PrintInv, CountersBounded
  <2>3. CASE x = s
    <3>1. recv'[x] = r /\ stats'[x] = c
      BY <2>3, <1>2 DEF Types, CountTypes
    <3>2. /\ c.accepted - stats[x].accepted \in 0 .. AcceptedMax(r) - AcceptedMax(recv[x])
          /\ c.built - stats[x].built \in 0 .. BuiltMax(r) - BuiltMax(recv[x])
      BY <2>1, <2>3, <1>1 DEF CountedStep, Grows
    <3>3. /\ AcceptedMax(recv[x]) \in Int /\ AcceptedMax(r) \in Int
          /\ BuiltMax(recv[x]) \in Int /\ BuiltMax(r) \in Int
      <4>1. /\ recv[x].assembled \in Int /\ recv[x].pushed \in Int
            /\ r.assembled \in Int /\ r.pushed \in Int
        BY <1>2 DEF Types, Locals
      <4> QED BY <4>1 DEF AcceptedMax, BuiltMax
    <3>4. c.accepted \in Int /\ c.built \in Int
      BY DEF Counters
    <3>5. /\ c.accepted \in 0 .. AcceptedMax(r) /\ c.accepted >= stats[x].accepted
          /\ c.built \in 0 .. BuiltMax(r) /\ c.built >= stats[x].built
      BY <2>2, <3>2, <3>3, <3>4
    <3> QED BY <2>2, <3>1, <3>4, <3>5 DEF CountersBounded, AcceptedMax, BuiltMax
  <2>4. CASE x # s
    <3>1. recv'[x] = recv[x] /\ stats'[x] = stats[x]
      BY <2>4, <1>2 DEF Types, CountTypes
    <3>2. stats[x].accepted <= stats[x].accepted /\ stats[x].built <= stats[x].built
      BY <2>2
    <3> QED BY <2>2, <3>1, <3>2 DEF CountersBounded, AcceptedMax, BuiltMax
  <2> QED BY <2>3, <2>4
<1>4. ASSUME NEW x \in Sources PROVE CountersBounded(x)' /\ Skipping(x)' /\ Telescopes(x)'
  <2>1. CountersBounded(x)'
    BY <1>3 DEF CountersBounded
  <2>2. Skipping(x)'
    BY <1>2 DEF PrintInv, Skipping, NoStats
  <2>3. Telescopes(x)'
    <3> SUFFICES ASSUME printer.skippedFirst[x] = 2, Counts(x)', NEW f \in Fields
                 PROVE  printer.curr[x][f] <= stats'[x][f]
                        /\ printer.prev[x][f] <= printer.curr[x][f]
                        /\ printer.total[x][f] = IF printer.pc = "top" THEN printer.curr[x][f]
                                                 ELSE printer.prev[x][f]
      BY <1>2 DEF Telescopes, Fields
    <3>1. Counts(x)
      BY <1>2 DEF Counts
    <3>2. /\ printer.curr[x][f] <= stats[x][f]
          /\ printer.prev[x][f] <= printer.curr[x][f]
          /\ printer.total[x][f] = IF printer.pc = "top" THEN printer.curr[x][f]
                                   ELSE printer.prev[x][f]
      BY <3>1 DEF PrintInv, Telescopes
    <3>3. stats[x][f] <= stats'[x][f]
      BY <1>3 DEF Fields
    <3>4. printer.curr[x][f] \in Int /\ stats[x][f] \in Int /\ stats'[x][f] \in Int
      <4>1. printer.curr[x] \in Counters /\ stats[x] \in Counters /\ stats'[x] \in Counters
        BY <1>2 DEF PrintTypes, CountTypes
      <4> QED BY <4>1 DEF Counters, Fields
    <3> QED BY <3>2, <3>3, <3>4
  <2> QED BY <2>1, <2>2, <2>3
<1>5. PrintTypes' /\ ShownRight'
  BY <1>2 DEF PrintInv, PrintTypes, ShownRight, Counters
<1> QED BY <1>2, <1>4, <1>5 DEF PrintInv

\* What a printing step must show for one source.
PrintedStep(s) ==
    /\ CountersBounded(s)'
    /\ Skipping(s)'
    /\ Telescopes(s)'

\* The steps at the top and in the middle of an interval leave what has been
\* printed alone.
LEMMA BeginIntervalPrint ==
  ASSUME Types, CountTypes, CountTypes', PrintInv, BeginInterval
  PROVE  PrintInv'
<1> DEFINE S == {s \in Sources : printer.dataArrived[s] /\ printer.skippedFirst[s] = 1}
           p == StartOver(printer, S)
<1>1. /\ ZeroStats(S) /\ UNCHANGED <<setup, recv, fell>> /\ Sources' = Sources
      /\ printer.pc = "top"
  BY DEF BeginInterval, notPrinter, Sources, Printing
<1>2. PICK prev \in CopyOf(p.curr), pc \in {"ended", "test"} :
         printer' = [p EXCEPT !.prev = prev, !.i = 1, !.pc = pc]
  BY DEF BeginInterval
<1> DEFINE curr == [s \in Sources |-> IF s \in S THEN NoStats ELSE printer.curr[s]]
           skipped == [s \in Sources |-> IF s \in S THEN 2 ELSE printer.skippedFirst[s]]
<1>3. DOMAIN printer = PrinterFields
  BY DEF CountTypes
<1>4. /\ DOMAIN p = PrinterFields /\ p.curr = curr /\ p.skippedFirst = skipped
      /\ \A f \in PrinterFields \ {"curr", "skippedFirst"} : p[f] = printer[f]
  BY <1>3 DEF StartOver, PrinterFields
<1> HIDE DEF p, curr, skipped
<1>5. /\ printer'.prev = prev /\ printer'.pc # "top" /\ printer'.curr = curr
      /\ printer'.skippedFirst = skipped /\ printer'.rolled = printer.rolled
      /\ printer'.total = printer.total /\ printer'.shown = printer.shown
      /\ printer'.prints = printer.prints /\ printer'.dataArrived = printer.dataArrived
  BY <1>2, <1>3, <1>4 DEF PrinterFields
<1> HIDE DEF S
<1>6. NoStats \in Counters /\ NoStats.accepted = 0 /\ NoStats.built = 0
  BY DEF NoStats, Counters
<1>7. curr \in [Sources -> Counters] /\ prev \in [Sources -> Counters]
  <2>1. printer.curr \in [Sources -> Counters]
    BY DEF PrintInv, PrintTypes
  <2>2. curr \in [Sources -> Counters]
    BY <2>1, <1>6 DEF curr
  <2>3. \A n \in {-1, 1} :
           [s \in Sources |-> [accepted |-> n, built |-> 0]] \in [Sources -> Counters]
    BY DEF Counters
  <2>4. prev \in {curr} \cup {[s \in Sources |-> [accepted |-> n, built |-> 0]] : n \in {-1, 1}}
    BY <1>4 DEF CopyOf
  <2> QED BY <2>2, <2>3, <2>4
<1>8. PrintTypes'
  BY <1>1, <1>5, <1>7 DEF PrintInv, PrintTypes, Counters
<1>9. \A s \in Sources : /\ s \notin S => stats'[s] = stats[s]
                         /\ s \in S => stats'[s] \in Zeroed(s)
  BY <1>1, Zenon DEF ZeroStats
<1>10. ASSUME NEW s \in Sources PROVE PrintedStep(s)
  <2>1. CountersBounded(s) /\ Skipping(s) /\ Telescopes(s)
    BY DEF PrintInv
  <2>2. CountersBounded(s)'
    <3> SUFFICES ASSUME Counts(s) PROVE /\ stats'[s].accepted \in 0 .. AcceptedMax(recv[s])
                                        /\ stats'[s].built \in 0 .. BuiltMax(recv[s])
      BY <1>1, <1>5 DEF CountersBounded, Counts, AcceptedMax, BuiltMax
    <3>1. /\ stats[s].accepted \in 0 .. AcceptedMax(recv[s])
          /\ stats[s].built \in 0 .. BuiltMax(recv[s])
      BY <2>1 DEF CountersBounded
    <3>2. 0 \in 0 .. AcceptedMax(recv[s]) /\ 0 \in 0 .. BuiltMax(recv[s])
      <4>1. recv[s].assembled \in Int /\ recv[s].pushed \in Int
        BY DEF Types, Locals
      <4> QED BY <3>1, <4>1 DEF AcceptedMax, BuiltMax
    <3>3. CASE s \in S
      BY <1>9, <3>1, <3>2, <3>3 DEF Zeroed
    <3>4. CASE s \notin S
      BY <1>9, <3>1, <3>4
    <3> QED BY <3>3, <3>4
  <2>3. skipped[s] = IF s \in S THEN 2 ELSE printer.skippedFirst[s]
    BY DEF skipped
  <2>4. s \in S <=> printer.skippedFirst[s] = 1
    BY <2>1 DEF S, Skipping
  <2>5. printer.skippedFirst[s] \in 0 .. 2
    BY DEF CountTypes
  <2>6. Skipping(s)'
    BY <1>5, <2>1, <2>3, <2>4, <2>5 DEF Skipping, NoStats
  <2>7. Telescopes(s)'
    <3> SUFFICES ASSUME skipped[s] = 2, Counts(s), NEW f \in Fields
                 PROVE  /\ prev[s][f] <= curr[s][f]
                        /\ curr[s][f] <= stats'[s][f]
                        /\ printer.total[s][f] = prev[s][f]
      BY <1>1, <1>5 DEF Telescopes, Fields, Counts
    <3>1. prev = curr
      <4>1. printer.prints > 0
        BY <2>1, <2>3, <2>4, <2>5 DEF Skipping
      <4> QED BY <1>4, <4>1, <1>3 DEF CopyOf, PrinterFields
    <3>2. CASE s \in S
      <4>1. curr[s] = NoStats /\ printer.total[s] = NoStats
        BY <2>1, <2>4, <3>2 DEF curr, Skipping
      <4>2. NoStats[f] = 0 /\ 0 <= stats'[s][f] /\ 0 <= NoStats[f]
        BY <1>1, <1>5, <2>2, <1>6 DEF CountersBounded, Counts, Fields
      <4> QED BY <3>1, <4>1, <4>2
    <3>3. CASE s \notin S
      <4>1. curr[s] = printer.curr[s] /\ stats'[s] = stats[s] /\ printer.skippedFirst[s] = 2
        <5>1. curr[s] = printer.curr[s]
          BY <3>3 DEF curr
        <5>2. stats'[s] = stats[s]
          BY <1>9, <3>3
        <5>3. printer.skippedFirst[s] = 2
          BY <2>3, <3>3
        <5> QED BY <5>1, <5>2, <5>3
      <4>2. /\ printer.curr[s][f] <= stats[s][f]
            /\ printer.total[s][f] = printer.curr[s][f]
        BY <1>1, <2>1, <4>1 DEF Telescopes
      <4>3. printer.curr[s][f] \in Int
        <5>1. printer.curr[s] \in Counters
          BY DEF PrintInv, PrintTypes
        <5> QED BY <5>1 DEF Counters, Fields
      <4> QED BY <3>1, <4>1, <4>2, <4>3
    <3> QED BY <3>2, <3>3
  <2> QED BY <2>2, <2>6, <2>7 DEF PrintedStep
<1>11. ShownRight'
  BY <1>1, <1>5 DEF PrintInv, ShownRight
<1> QED BY <1>1, <1>8, <1>10, <1>11 DEF PrintInv, PrintedStep

LEMMA ReadsPrint ==
  ASSUME Types, CountTypes, PrintInv, TestRestart \/ ReadCounters
  PROVE  PrintInv'
<1> DEFINE s == setup.ids[printer.i]
<1>1. /\ UNCHANGED <<setup, recv, fell, stats>> /\ Sources' = Sources
      /\ printer.pc \notin {"top"}
  BY DEF TestRestart, ReadCounters, notPrinter, Sources, Printing
<1>2. DOMAIN printer = PrinterFields
  BY DEF CountTypes
<1>3. PICK b :
      /\ printer'.pc # "top"
      /\ printer'.prev = [printer.prev EXCEPT ![s] = IF b THEN NoStats ELSE printer.prev[s]]
      /\ b => printer.curr[s].built > stats[s].built /\ printer'.curr = printer.curr
      /\ printer'.curr \in {printer.curr, [printer.curr EXCEPT ![s] = stats[s]]}
      /\ \A f \in PrinterFields \ {"pc", "prev", "curr", "i", "rollOver"} : printer'[f] = printer[f]
  <2>1. CASE TestRestart
    <3>1. printer' = [printer EXCEPT !.pc = "read",
                          !.prev[s] = IF printer.curr[s].built > stats[s].built
                                      THEN NoStats ELSE @]
      BY <2>1 DEF TestRestart
    <3> DEFINE c == printer.curr[s].built > stats[s].built
               q == [printer.prev EXCEPT ![s] = IF c THEN NoStats ELSE printer.prev[s]]
    <3>2. printer' = [printer EXCEPT !.pc = "read", !.prev = q]
      BY <3>1
    <3> HIDE DEF q
    <3>3. /\ printer'.pc = "read" /\ printer'.prev = q
          /\ \A f \in PrinterFields \ {"pc", "prev"} : printer'[f] = printer[f]
      BY <1>2, <3>2 DEF PrinterFields
    <3>4. printer'.curr = printer.curr
      BY <3>3 DEF PrinterFields
    <3> QED BY <3>3, <3>4 DEF q
  <2>2. CASE ReadCounters
    <3> DEFINE q == [printer.curr EXCEPT ![s] = stats[s]]
    <3>1. \E ro, i : \E pc \in {"print", "test"} :
             printer' = [printer EXCEPT !.curr = q, !.rollOver = ro, !.i = i, !.pc = pc]
      BY <2>2 DEF ReadCounters
    <3> HIDE DEF q
    <3>2. /\ printer'.pc # "top" /\ printer'.curr = q
          /\ \A f \in PrinterFields \ {"pc", "curr", "i", "rollOver"} : printer'[f] = printer[f]
      BY <1>2, <3>1 DEF PrinterFields
    <3>3. printer'.prev = [printer.prev EXCEPT ![s] = IF FALSE THEN NoStats ELSE printer.prev[s]]
      <4>1. printer.prev \in [Sources -> Counters]
        BY DEF PrintInv, PrintTypes
      <4>2. printer'.prev = printer.prev
        BY <3>2 DEF PrinterFields
      <4> QED BY <4>1, <4>2
    <3> QED BY <3>2, <3>3 DEF q
  <2> QED BY <2>1, <2>2
<1> HIDE DEF s
<1>4. /\ printer'.total = printer.total /\ printer'.skippedFirst = printer.skippedFirst
      /\ printer'.rolled = printer.rolled /\ printer'.shown = printer.shown
      /\ printer'.prints = printer.prints /\ printer'.dataArrived = printer.dataArrived
  BY <1>3 DEF PrinterFields
<1>5. /\ printer.prev \in [Sources -> Counters] /\ printer.curr \in [Sources -> Counters]
      /\ stats \in [Sources -> Counters] /\ NoStats \in Counters
  BY DEF PrintInv, PrintTypes, CountTypes, NoStats, Counters
<1>6. /\ printer'.prev \in [Sources -> Counters] /\ printer'.curr \in [Sources -> Counters]
  BY <1>3, <1>5
<1>7. PrintTypes'
  BY <1>1, <1>4, <1>6 DEF PrintInv, PrintTypes, Counters
<1>8. ASSUME NEW x \in Sources PROVE PrintedStep(x)
  <2>1. CountersBounded(x) /\ Skipping(x) /\ Telescopes(x)
    BY DEF PrintInv
  <2>2. CountersBounded(x)'
    BY <1>1, <1>4, <2>1 DEF CountersBounded, Counts, AcceptedMax, BuiltMax
  <2>3. Skipping(x)'
    BY <1>1, <1>4, <2>1 DEF Skipping, NoStats
  <2>4. Telescopes(x)'
    <3> SUFFICES ASSUME printer.skippedFirst[x] = 2, Counts(x), NEW f \in Fields
                 PROVE  /\ printer'.prev[x][f] <= printer'.curr[x][f]
                        /\ printer'.curr[x][f] <= stats[x][f]
                        /\ printer.total[x][f] = printer'.prev[x][f]
      BY <1>1, <1>3, <1>4 DEF Telescopes, Fields, Counts
    <3>1. /\ printer.prev[x][f] <= printer.curr[x][f]
          /\ printer.curr[x][f] <= stats[x][f]
          /\ printer.total[x][f] = printer.prev[x][f]
          /\ printer.curr[x].built <= stats[x].built
      BY <1>1, <2>1 DEF Telescopes, Fields
    <3>2. /\ printer.prev[x][f] \in Int /\ printer.curr[x][f] \in Int /\ stats[x][f] \in Int
          /\ printer.curr[x].built \in Int /\ stats[x].built \in Int
      <4>1. printer.prev[x] \in Counters /\ printer.curr[x] \in Counters /\ stats[x] \in Counters
        BY <1>5
      <4> QED BY <4>1 DEF Counters, Fields
    <3>3. printer'.prev[x] = printer.prev[x]
      <4>1. CASE x = s /\ b
        BY <1>3, <3>1, <3>2, <4>1
      <4>2. CASE ~(x = s /\ b)
        BY <1>3, <1>5, <4>2
      <4> QED BY <4>1, <4>2
    <3>4. printer'.curr[x] \in {printer.curr[x], stats[x]}
      BY <1>3, <1>5
    <3> QED BY <3>1, <3>2, <3>3, <3>4
  <2> QED BY <2>2, <2>3, <2>4 DEF PrintedStep
<1>9. ShownRight'
  BY <1>1, <1>4 DEF PrintInv, ShownRight
<1> QED BY <1>1, <1>7, <1>8, <1>9 DEF PrintInv, PrintedStep

LEMMA RollOverPrint ==
  ASSUME Types, CountTypes, CountTypes', PrintInv, RollOver
  PROVE  PrintInv'
<1>1. /\ UNCHANGED <<setup, recv, fell>> /\ Sources' = Sources /\ printer.pc = "print"
  BY DEF RollOver, notPrinter, Sources, Printing
<1> DEFINE zero == [s \in Sources |-> NoStats]
<1>2. \E arrived, n : /\ n = printer.prints + 1 /\ arrived = Arrived
        /\ printer' = [printer EXCEPT !.pc = "top", !.rollOver = FALSE, !.curr = zero,
                                      !.prev = zero, !.dataArrived = arrived,
                                      !.prints = n, !.rolled = TRUE]
  BY DEF RollOver
<1> HIDE DEF zero
<1>3. /\ printer'.curr = zero /\ printer'.prev = zero /\ printer'.dataArrived = Arrived
      /\ printer'.prints = printer.prints + 1 /\ printer'.rolled = TRUE
      /\ printer'.total = printer.total /\ printer'.skippedFirst = printer.skippedFirst
      /\ printer'.pc = "top"
  BY <1>2 DEF CountTypes, PrinterFields
<1>4. zero \in [Sources -> Counters]
  BY DEF zero, NoStats, Counters
<1>5. PrintTypes'
  BY <1>1, <1>3, <1>4 DEF PrintInv, PrintTypes, Counters
<1>6. ASSUME NEW s \in Sources PROVE PrintedStep(s)
  <2>1. Skipping(s)
    BY DEF PrintInv
  <2>2. printer.dataArrived[s] = TRUE => Arrived[s] = TRUE
    BY DEF Arrived
  <2>3. printer.prints \in Nat
    BY DEF PrintInv, PrintTypes
  <2>4. Skipping(s)'
    BY <1>1, <1>3, <2>1, <2>2, <2>3 DEF Skipping, NoStats
  <2> QED BY <1>3, <2>4 DEF PrintedStep, CountersBounded, Telescopes, Counts
<1>7. ShownRight'
  BY <1>3 DEF ShownRight
<1> QED BY <1>1, <1>5, <1>6, <1>7 DEF PrintInv, PrintedStep

\* A source that is due has skipped its first interval.
LEMMA DueGains ==
  ASSUME Types, CountTypes, PrintInv, printer.pc = "print",
         NEW s \in Due, Counts(s)
  PROVE  /\ s \in Sources /\ printer.skippedFirst[s] = 2
         /\ \A f \in Fields : Gain(s, f) \in Nat
<1>1. s \in Sources /\ printer.skippedFirst[s] >= 1
  BY DEF Due
<1>2. printer.skippedFirst[s] = 2
  <2>1. printer.skippedFirst[s] \in 0 .. 2
    BY <1>1 DEF CountTypes
  <2>2. printer.skippedFirst[s] # 1
    BY <1>1 DEF PrintInv, Skipping
  <2> QED BY <1>1, <2>1, <2>2
<1>3. ASSUME NEW f \in Fields PROVE Gain(s, f) \in Nat
  <2>1. printer.prev[s][f] <= printer.curr[s][f]
    BY <1>1, <1>2 DEF PrintInv, Telescopes
  <2>2. printer.prev[s][f] \in Int /\ printer.curr[s][f] \in Int
    <3>1. printer.prev[s] \in Counters /\ printer.curr[s] \in Counters
      BY <1>1 DEF PrintInv, PrintTypes
    <3> QED BY <3>1 DEF Counters, Fields
  <2> QED BY <2>1, <2>2 DEF Gain
<1> QED BY <1>1, <1>2, <1>3

LEMMA PrintsPrint ==
  ASSUME Types, CountTypes, CountTypes', PrintInv, NEW numbers, PrintGains(numbers),
         (\A s \in Due : Counts(s)) => numbers \subseteq Nat
  PROVE  PrintInv'
<1>1. /\ UNCHANGED <<setup, recv, fell, stats>> /\ Sources' = Sources
      /\ printer.pc = "print"
  <2>1. UNCHANGED <<stats, notPrinter>>
    BY Zenon DEF PrintGains
  <2>2. printer.pc = "print"
    BY Zenon DEF PrintGains, Printing
  <2> QED BY <2>1, <2>2 DEF notPrinter, Sources
<1> DEFINE skipped == [s \in Sources |-> IF Arrived[s] /\ printer.skippedFirst[s] < 1 THEN 1
                                       ELSE printer.skippedFirst[s]]
           total == [s \in Sources |->
                       IF s \in Due
                       THEN [f \in Fields |-> printer.total[s][f] + Gain(s, f)]
                       ELSE printer.total[s]]
           n == printer.prints + 1
           arrived == Arrived
<1>2. printer' = [printer EXCEPT !.pc = "top", !.dataArrived = arrived, !.prints = n,
                                 !.skippedFirst = skipped, !.shown = numbers,
                                 !.total = total]
  BY DEF PrintGains, Fields
<1> HIDE DEF skipped, total, arrived, n
<1>3. /\ printer'.curr = printer.curr /\ printer'.prev = printer.prev
      /\ printer'.dataArrived = arrived /\ printer'.prints = n
      /\ printer'.rolled = printer.rolled /\ printer'.shown = numbers
      /\ printer'.total = total /\ printer'.skippedFirst = skipped /\ printer'.pc = "top"
  BY <1>2 DEF CountTypes, PrinterFields
<1>4. n \in Nat /\ n > 0
  BY DEF n, PrintInv, PrintTypes
<1>5. ASSUME NEW s \in Sources
      PROVE  /\ total[s] \in Counters
             /\ s \in Due => \A f \in Fields : total[s][f] = printer.total[s][f] + Gain(s, f)
             /\ s \notin Due => total[s] = printer.total[s]
  <2>1. /\ printer.total[s] \in Counters /\ printer.curr[s] \in Counters
        /\ printer.prev[s] \in Counters
    BY DEF PrintInv, PrintTypes
  <2>2. \A f \in Fields : printer.total[s][f] + Gain(s, f) \in Int
    BY <2>1 DEF Counters, Fields, Gain
  <2> DEFINE g == [f \in Fields |-> printer.total[s][f] + Gain(s, f)]
  <2>3. g \in Counters
    <3>1. g \in [Fields -> Int]
      BY <2>2
    <3> HIDE DEF g
    <3>2. g = [accepted |-> g["accepted"], built |-> g["built"]]
      BY <3>1 DEF Fields
    <3>3. g["accepted"] \in Int /\ g["built"] \in Int
      BY <3>1 DEF Fields
    <3> QED BY <3>2, <3>3, Zenon DEF Counters
  <2>4. total[s] = IF s \in Due THEN g ELSE printer.total[s]
    BY DEF total
  <2>5. \A f \in Fields : g[f] = printer.total[s][f] + Gain(s, f)
    OBVIOUS
  <2> HIDE DEF g
  <2> QED BY <2>1, <2>3, <2>4, <2>5
<1>6. PrintTypes'
  <2>1. total \in [Sources -> Counters]
    BY <1>5 DEF total
  <2> QED BY <1>1, <1>3, <1>4, <2>1 DEF PrintInv, PrintTypes, Counters
<1>7. ASSUME NEW s \in Sources PROVE PrintedStep(s)
  <2>1. CountersBounded(s) /\ Skipping(s) /\ Telescopes(s)
    BY DEF PrintInv
  <2>2. CountersBounded(s)'
    BY <1>1, <1>3, <2>1 DEF CountersBounded, Counts, AcceptedMax, BuiltMax
  <2>3. printer.skippedFirst[s] \in 0 .. 2 /\ printer.skippedFirst[s] # 1
    BY <1>1, <2>1 DEF CountTypes, Skipping
  <2>4. /\ skipped[s] = IF Arrived[s] /\ printer.skippedFirst[s] < 1 THEN 1
                        ELSE printer.skippedFirst[s]
        /\ arrived[s] = Arrived[s]
        /\ printer.dataArrived[s] = TRUE => Arrived[s] = TRUE
        /\ Arrived[s] \in BOOLEAN
    BY DEF skipped, arrived, Arrived
  <2>5. s \in Due <=> Arrived[s] = TRUE /\ printer.skippedFirst[s] = 2
    BY <2>3, <2>4 DEF Due
  <2>6. Skipping(s)'
    <3>1. skipped[s] < 2 => total[s] = NoStats
      BY <1>5, <2>1, <2>3, <2>4, <2>5 DEF Skipping
    <3>2. skipped[s] > 0 => arrived[s] = TRUE
      BY <2>1, <2>3, <2>4 DEF Skipping
    <3> QED BY <1>3, <1>4, <3>1, <3>2 DEF Skipping, NoStats
  <2>7. Telescopes(s)'
    <3> SUFFICES ASSUME skipped[s] = 2, Counts(s), NEW f \in Fields
                 PROVE  /\ printer.prev[s][f] <= printer.curr[s][f]
                        /\ printer.curr[s][f] <= stats[s][f]
                        /\ total[s][f] = printer.curr[s][f]
      BY <1>1, <1>3 DEF Telescopes, Fields, Counts
    <3>1. printer.skippedFirst[s] = 2 /\ s \in Due
      BY <2>1, <2>3, <2>4, <2>5 DEF Skipping
    <3>2. /\ printer.prev[s][f] <= printer.curr[s][f]
          /\ printer.curr[s][f] <= stats[s][f]
          /\ printer.total[s][f] = printer.prev[s][f]
      BY <1>1, <2>1, <3>1 DEF Telescopes
    <3>3. printer.prev[s][f] \in Int /\ printer.curr[s][f] \in Int
      <4>1. printer.prev[s] \in Counters /\ printer.curr[s] \in Counters
        BY DEF PrintInv, PrintTypes
      <4> QED BY <4>1 DEF Counters, Fields
    <3>4. total[s][f] = printer.total[s][f] + Gain(s, f)
      BY <1>5, <3>1
    <3> QED BY <3>2, <3>3, <3>4 DEF Gain
  <2> QED BY <2>2, <2>6, <2>7 DEF PrintedStep
<1>8. ShownRight'
  <2> SUFFICES ASSUME fell = {}, ~printer.rolled PROVE numbers \subseteq Nat
    BY <1>1, <1>3 DEF ShownRight
  <2> QED BY DEF Counts
<1> QED BY <1>1, <1>6, <1>7, <1>8 DEF PrintInv, PrintedStep

LEMMA StatisticsPrint ==
  ASSUME Types, CountTypes, CountTypes', PrintInv, Statistics
  PROVE  PrintInv'
<1>1. ASSUME PrintJoint PROVE PrintInv'
  <2> DEFINE g(f) == [s \in Due |-> Gain(s, f)]
             n == {SumFunction(g(f)) : f \in Fields}
  <2>1. PrintGains(n) /\ printer.pc = "print"
    <3>1. PrintGains(n)
      BY <1>1, Zenon DEF PrintJoint, Fields
    <3>2. printer.pc = "print"
      BY <1>1, Zenon DEF PrintJoint, PrintGains, Printing
    <3> QED BY <3>1, <3>2
  <2>2. ASSUME \A s \in Due : Counts(s) PROVE n \subseteq Nat
    <3> SUFFICES ASSUME NEW f \in Fields PROVE SumFunction(g(f)) \in Nat
      OBVIOUS
    <3>1. IsFiniteSet(Due)
      <4>1. Due \subseteq Sources
        BY DEF Due
      <4> QED BY <4>1, SetupFacts, FS_Subset DEF Types
    <3>2. \A s \in Due : g(f)[s] \in Nat
      BY <2>1, <2>2, DueGains
    <3>3. DOMAIN g(f) = Due
      OBVIOUS
    <3> HIDE DEF g
    <3> QED BY <3>1, <3>2, <3>3, SumOfFunction, SumType
  <2> HIDE DEF n
  <2> QED BY <2>1, <2>2, PrintsPrint
<1>2. ASSUME PrintEach PROVE PrintInv'
  <2> DEFINE n == {Gain(s, f) : s \in Due, f \in Fields}
  <2>1. PrintGains(n) /\ printer.pc = "print"
    <3>1. PrintGains(n)
      BY <1>2, SMT DEF PrintEach, Fields
    <3>2. printer.pc = "print"
      BY <1>2, SMT DEF PrintEach, PrintGains, Printing
    <3> QED BY <3>1, <3>2
  <2>2. ASSUME \A s \in Due : Counts(s) PROVE n \subseteq Nat
    BY <2>1, <2>2, DueGains
  <2> HIDE DEF n
  <2> QED BY <2>1, <2>2, PrintsPrint
<1> QED
  BY <1>1, <1>2, BeginIntervalPrint, ReadsPrint, RollOverPrint, Zenon
  DEF Statistics, ServerBegins, ServerReads, ServerPrints

\* All steps that neither receive nor print.
LEMMA CountersFrame ==
  ASSUME [Next]_vars, ~\E s \in Sources : Receiving(s), ~Statistics
  PROVE  UNCHANGED <<setup, recv, fell, printer, stats>>
<1>1. CASE \E u \in Users : Getting(u)
  BY <1>1 DEF Getting, Pop, PopEmpty, GotEvent, notUsers
<1>2. CASE Constructing
  BY <1>2 DEF Constructing, DirectConstructor, SetFromURI, Register,
     CreateDataSockets, StartupGrpcThread, ServerDirectConstructor, ServerConstructor,
     ServerCreateDataSockets, CreateServerSocket, RegisterWithSimpleServer, Construct,
     Fails
<1>3. CASE EjfatSample \/ ServerSample
  BY <1>3, Zenon DEF EjfatSample, ServerSample, Sample
<1>4. CASE ReportFails \/ Destroy \/ Destroyed
  BY <1>4 DEF ReportFails, Destroy, Destroyed
<1>5. CASE Finished \/ vars' = vars
  BY <1>5 DEF Finished, vars
<1> QED BY <1>1, <1>2, <1>3, <1>4, <1>5
    DEF Next, EjfatReceiving, ServerReceiving, EjfatGetEvent, ServerGetEvent

LEMMA PrintNext ==
  ASSUME RisingInv, RisingInv', PrintInv, [Next]_vars
  PROVE  PrintInv'
<1>1. Types /\ CountTypes /\ CountTypes'
  BY DEF RisingInv
<1>2. CASE UNCHANGED <<setup, recv, fell, printer, stats>>
  <2>1. PrintTypes' /\ Sources' = Sources
    BY <1>2 DEF PrintInv, PrintTypes, Counters, Sources
  <2>2. \A s \in Sources : CountersBounded(s)' /\ Skipping(s)' /\ Telescopes(s)'
    BY <1>2 DEF PrintInv, CountersBounded, Skipping, Telescopes, Counts, AcceptedMax, BuiltMax,
       Fields, NoStats
  <2>3. ShownRight'
    BY <1>2 DEF PrintInv, ShownRight
  <2> QED BY <2>1, <2>2, <2>3 DEF PrintInv
<1> QED BY <1>1, <1>2, ReceivingPrint, StatisticsPrint, CountersFrame

\* While no source restarts and nothing rolls over, the printed numbers are never
\* negative, and no event is printed twice (EjfatConsumer.cpp:457-741), for any
\* number of sources, printed each or together: neither the uninitialized copies
\* nor counters that are written back show.
THEOREM PrintsOnce == Spec => []PrintedOnce
<1>1. RisingInv /\ PrintInv => PrintedOnce
  <2> SUFFICES ASSUME RisingInv, PrintInv, fell = {}, ~printer.rolled
               PROVE  /\ \A n \in printer.shown : n >= 0
                      /\ \A s \in Sources :
                            /\ printer.total[s].accepted
                                  <= recv[s].assembled + (IF recv[s].pc = "ended" THEN 1 ELSE 0)
                            /\ printer.total[s].built <= recv[s].pushed
    BY DEF PrintedOnce
  <2>1. \A n \in printer.shown : n >= 0
    BY DEF PrintInv, ShownRight
  <2>2. ASSUME NEW s \in Sources
        PROVE  /\ printer.total[s].accepted <= AcceptedMax(recv[s])
               /\ printer.total[s].built <= recv[s].pushed
    <3>1. /\ recv[s].assembled \in Nat /\ recv[s].pushed \in Nat
          /\ printer.skippedFirst[s] \in 0 .. 2
      BY DEF RisingInv, Types, Locals, CountTypes
    <3>2. /\ stats[s].accepted \in 0 .. AcceptedMax(recv[s])
          /\ stats[s].built \in 0 .. BuiltMax(recv[s])
      BY DEF PrintInv, CountersBounded, Counts
    <3>3. AcceptedMax(recv[s]) \in Int /\ BuiltMax(recv[s]) \in Int
          /\ BuiltMax(recv[s]) <= recv[s].pushed /\ AcceptedMax(recv[s]) >= 0
      BY <3>1 DEF AcceptedMax, BuiltMax
    <3>4. CASE printer.skippedFirst[s] < 2
      <4>1. printer.total[s] = NoStats
        BY <3>4 DEF PrintInv, Skipping
      <4> QED BY <3>1, <3>3, <4>1 DEF NoStats
    <3>5. CASE printer.skippedFirst[s] = 2
      <4>1. ASSUME NEW f \in Fields PROVE printer.total[s][f] <= stats[s][f]
        <5>1. /\ printer.prev[s][f] <= printer.curr[s][f]
              /\ printer.curr[s][f] <= stats[s][f]
              /\ printer.total[s][f] \in {printer.curr[s][f], printer.prev[s][f]}
          BY <3>5 DEF PrintInv, Telescopes, Counts
        <5>2. printer.prev[s][f] \in Int /\ printer.curr[s][f] \in Int /\ stats[s][f] \in Int
          <6>1. /\ printer.prev[s] \in Counters /\ printer.curr[s] \in Counters
                /\ stats[s] \in Counters
            BY DEF RisingInv, CountTypes, PrintInv, PrintTypes
          <6> QED BY <6>1 DEF Counters, Fields
        <5> QED BY <5>1, <5>2
      <4>2. /\ printer.total[s].accepted <= stats[s].accepted
            /\ printer.total[s].built <= stats[s].built
        BY <4>1 DEF Fields
      <4>3. printer.total[s] \in Counters
        BY DEF PrintInv, PrintTypes
      <4> QED BY <3>1, <3>2, <3>3, <4>2, <4>3 DEF Counters
    <3> QED BY <3>1, <3>4, <3>5
  <2> QED BY <2>1, <2>2 DEF AcceptedMax
<1>2. QueueInv /\ RisingInv /\ PrintInv /\ [Next]_vars
      => QueueInv' /\ RisingInv' /\ PrintInv'
  <2> SUFFICES ASSUME QueueInv, RisingInv, PrintInv, [Next]_vars
               PROVE  QueueInv' /\ RisingInv' /\ PrintInv'
    OBVIOUS
  <2>1. QueueInv' /\ Types'
    BY QueueInvNext DEF QueueInv
  <2>2. RisingInv'
    BY <2>1, RisingNext
  <2> QED BY <2>1, <2>2, PrintNext
<1> QED BY <1>1, <1>2, InitQueue, InitRising, InitPrint, PTL DEF Spec
=============================================================================
