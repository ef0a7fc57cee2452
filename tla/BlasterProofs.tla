--------------------------- MODULE BlasterProofs ---------------------------
(***************************************************************************)
(* Theorems about Blaster for every rate, size of buffers and batches,     *)
(* duration of sends and sleeps, and number of buffers.                    *)
(***************************************************************************)
EXTENDS Blaster, TLAPS

-----------------------------------------------------------------------------
(* Arithmetic.                                                             *)

\* Products of natural numbers, and their quotients.
LEMMA NatProduct ==
  ASSUME NEW a \in Nat, NEW b \in Nat
  PROVE  a * b \in Nat
BY SMT

LEMMA NatQuotient ==
  ASSUME NEW a \in Nat, NEW b \in Nat \ {0}
  PROVE  /\ a \div b \in Nat
         /\ b * (a \div b) <= a
         /\ a < b * ((a \div b) + 1)
BY SMT

\* NoDrift as a relation of numbers, and what it says when the loop starts.
OnSchedule(excess, p, m, t, start) == excess = p * m - (t - start)

LEMMA NothingPaused ==
  ASSUME NEW p \in Int, NEW m \in Int, NEW excess \in Int, NEW t \in Int,
         NEW start \in Int, p = 0, excess = 0, t = start
  PROVE  OnSchedule(excess, p, m, t, start)
BY SMT DEF OnSchedule

LEMMA FirstBatch ==
  ASSUME NEW p \in Int, NEW n \in Int, NEW b \in Nat, NEW u \in Int, NEW left \in Int,
         p = 0, n = 0, u = 0, left <= b
  PROVE  n + u + left <= (p + 1) * b
BY SMT

\* Multiplication is monotonic, distributes and commutes.
LEMMA Monotonic ==
  ASSUME NEW a \in Int, NEW b \in Int, a <= b, NEW c \in Nat
  PROVE  c * a <= c * b
<1>1. c * (b - a) >= 0
  BY SMT
<1>2. c * (b - a) = c * b - c * a
  BY SMT
<1> QED BY <1>1, <1>2, SMT

LEMMA Distribute ==
  ASSUME NEW a \in Int, NEW b \in Int, NEW c \in Int
  PROVE  /\ c * (a + b) = c * a + c * b
         /\ (a + b) * c = a * c + b * c
         /\ c * (a - b) = c * a - c * b
         /\ (a - b) * c = a * c - b * c
         /\ a * b = b * a
         /\ a * (b * c) = (a * b) * c
         /\ a * b \in Int
BY SMT

\* The rate of n buffers in a time d, worked out over whole seconds S, is at
\* most twice the real one and not a whole buffer below it.
LEMMA WholeSeconds ==
  ASSUME NEW S \in Nat \ {0}, NEW n \in Nat, NEW d \in Int, d >= S
  PROVE  LET rate_ == n \div (d \div S)
         IN  /\ rate_ \in Nat
             /\ rate_ * d <= 2 * n * S
             /\ n * S < (rate_ + 1) * d
<1> DEFINE q == d \div S
           r == n \div q
<1>1. /\ q \in Nat /\ S * q <= d /\ d < S * (q + 1)
  BY NatQuotient
<1>2. q >= 1
  <2> SUFFICES ASSUME q = 0 PROVE FALSE
    BY <1>1
  <2> HIDE DEF q
  <2> QED BY <1>1, SMT
<1>3. r \in Nat /\ q * r <= n /\ n < q * (r + 1)
  BY <1>1, <1>2, NatQuotient
<1> HIDE DEF q, r
<1>4. r * d <= 2 * n * S
  <2>1. d <= 2 * (S * q)
    <3>1. S * (q + 1) = S * q + S
      BY <1>1, Distribute
    <3>2. S * 1 <= S * q
      BY <1>1, <1>2, Monotonic
    <3>3. S * q \in Int
      BY <1>1, Distribute
    <3> QED BY <3>1, <3>2, <3>3, <1>1
  <2>2. r * d <= r * (2 * (S * q))
    <3>1. 2 * (S * q) \in Int
      BY <1>1, NatProduct
    <3> QED BY <3>1, <2>1, <1>3, Monotonic
  <2>3. r * (2 * (S * q)) = (2 * S) * (q * r)
    BY <1>1, <1>3, SMT
  <2>4. (2 * S) * (q * r) <= (2 * S) * n
    <3>1. q * r \in Nat /\ 2 * S \in Nat
      BY <1>1, <1>3, NatProduct
    <3> QED BY <3>1, <1>3, Monotonic
  <2>5. (2 * S) * n = 2 * n * S
    BY SMT
  <2>6. r * d \in Int /\ (2 * S) * (q * r) \in Int /\ (2 * S) * n \in Int
    BY <1>1, <1>3, SMT
  <2> QED BY <2>2, <2>3, <2>4, <2>5, <2>6
<1>5. n * S < (r + 1) * d
  <2>1. S * (n + 1) <= S * (q * (r + 1))
    <3>1. q * (r + 1) \in Nat
      BY <1>1, <1>3, NatProduct
    <3> QED BY <3>1, <1>3, Monotonic
  <2>2. S * (n + 1) = n * S + S
    BY SMT
  <2>3. S * (q * (r + 1)) = (r + 1) * (S * q)
    BY <1>1, <1>3, SMT
  <2>4. (r + 1) * (S * q) <= (r + 1) * d
    <3>1. S * q \in Nat
      BY <1>1, NatProduct
    <3> QED BY <3>1, <1>1, <1>3, Monotonic
  <2>5. n * S \in Int /\ (r + 1) * (S * q) \in Int /\ (r + 1) * d \in Int
    BY <1>1, <1>3, SMT
  <2> QED BY <2>1, <2>2, <2>3, <2>4, <2>5
<1> QED BY <1>3, <1>4, <1>5 DEF q, r

-----------------------------------------------------------------------------
(* The inductive invariant.                                                *)

BeforeLoop == {"address", "sync", "data", "rate"}
InLoop     == {"pause", "send", "count", "announce", "next"}

\* Only what takes part in the arithmetic has a type.
Types ==
    /\ pc \in BeforeLoop \cup InLoop \cup {"exit"}
    /\ now \in Nat /\ t1 \in Nat /\ tStart \in Nat /\ startTime \in Nat
    /\ microSecItShouldTake \in Nat /\ buffersAtOnce \in Nat
    /\ countDown \in Int /\ lastExcessTime \in Int
    /\ pauses \in Nat /\ sent \in Nat /\ bufsSent \in Nat

\* Nothing has been sent or timed before the loop.
NothingYet ==
    pc \in BeforeLoop =>
        /\ now = 0 /\ t1 = 0 /\ tStart = 0
        /\ microSecItShouldTake = 0 /\ ~paced
        /\ lastExcessTime = 0 /\ pauses = 0 /\ sent = 0

\* No time is ever kept for later, so that the batches before the last pause
\* have taken their time by then.
NothingSaved == lastExcessTime <= 0 /\ tStart <= t1 /\ t1 <= now

\* The buffers sent, the one being sent and those left of the batch are within
\* the batches begun.
BatchSize == AtLeastOne(buffersAtOnce)
UnderWay == IF pc \in {"send", "count"} THEN 1 ELSE 0
LeftOfBatch == IF countDown > 0 THEN countDown ELSE 0
Budget == paced => sent + UnderWay + LeftOfBatch <= (pauses + 1) * BatchSize

\* A program that learns its addresses from a URI and does not send directly
\* knows the control plane's once it has any, and opens the socket before the
\* data sockets; packetBlasterOld opens it whenever it knows the address.
UsesUri == prog \in {"packetBlaster", "clasBlaster", "clasBlasterNTP", "Clas12DataSender"}
SyncReady ==
    /\ pc \notin {"address", "exit"} /\ UsesUri /\ dest # "direct" => haveSync
    /\ pc \notin {"address", "sync", "exit"} =>
        /\ UsesUri /\ dest # "direct" => syncOpen
        /\ prog = "packetBlasterOld" /\ haveSync => syncOpen
    /\ pc \in BeforeLoop => announced = Nothing

\* Every buffer since the last message is counted, and counted once.
CountsAgree == bufsSent = sinceSync

Inv ==
    /\ Types
    /\ NothingYet /\ NothingSaved
    /\ NoDrift
    /\ Budget
    /\ SyncReady /\ SyncHasAddress
    /\ CountsAgree /\ AnnouncedRateFair

LEMMA InitInv == Init => Inv
<1> SUFFICES ASSUME Init PROVE Inv
  OBVIOUS
<1> USE DEF Init
<1>1. Types
  BY DEF Types, BeforeLoop
<1>2. NothingYet /\ NothingSaved /\ NoDrift /\ Budget /\ CountsAgree
  BY DEF NothingYet, NothingSaved, NoDrift, Budget, CountsAgree
<1>3. SyncReady /\ SyncHasAddress
  BY DEF SyncReady, SyncHasAddress
<1>4. AnnouncedRateFair
  BY SecondAssumption DEF AnnouncedRateFair, Nothing
<1> QED BY <1>1, <1>2, <1>3, <1>4 DEF Inv

-----------------------------------------------------------------------------
(* Steps before the loop.                                                  *)

\* Choosing an address changes nothing but what is known of it.
LEMMA AddressShape ==
  ASSUME Address
  PROVE  /\ pc = "address" /\ pc' \in {"sync", "exit"}
         /\ pc' = "sync" /\ UsesUri /\ dest' # "direct" => haveSync'
         /\ UNCHANGED <<prog, syncOpen, now, rate, pace, event, sync>>
<1> USE DEF Asked, Towards, Exit
<1>1. CASE PacketBlasterAddress
  BY <1>1 DEF PacketBlasterAddress
<1>2. CASE ClasBlasterAddress
  BY <1>2 DEF ClasBlasterAddress, FileFirst
<1>3. CASE ClasBlasterNTPAddress
  BY <1>3 DEF ClasBlasterNTPAddress, FileFirst
<1>4. CASE PacketBlasterOldAddress
  BY <1>4 DEF PacketBlasterOldAddress, UsesUri
<1>5. CASE PacketBlasterSmallAddress
  BY <1>5 DEF PacketBlasterSmallAddress, UsesUri
<1>6. CASE Clas12Address
  BY <1>6 DEF Clas12Address
<1> QED BY <1>1, <1>2, <1>3, <1>4, <1>5, <1>6 DEF Address

LEMMA AddressInv ==
  ASSUME Inv, Address
  PROVE  Inv'
<1> USE AddressShape DEF rate, pace, event, sync, Inv
<1>1. Types'
  BY DEF Types, BeforeLoop
<1>2. /\ NothingYet' /\ NothingSaved' /\ NoDrift' /\ CountsAgree' /\ AnnouncedRateFair'
  BY DEF NothingYet, NothingSaved, NoDrift, CountsAgree, AnnouncedRateFair, BeforeLoop
<1>3. Budget'
  BY DEF NothingYet, Budget, BeforeLoop
<1>4. SyncReady' /\ SyncHasAddress'
  BY DEF SyncReady, SyncHasAddress, BeforeLoop, UsesUri
<1> QED BY <1>1, <1>2, <1>3, <1>4

\* The socket of the control plane, then the data sockets.
LEMMA SocketsShape ==
  ASSUME Sockets
  PROVE  /\ UNCHANGED <<prog, dest, haveSync, now, rate, pace, event, sync>>
         /\ \/ /\ pc = "sync" /\ pc' \in {"data", "exit"}
               /\ pc' = "data" /\ UsesUri /\ dest # "direct" => syncOpen'
               /\ pc' = "data" /\ prog = "packetBlasterOld" /\ haveSync => syncOpen'
            \/ pc = "data" /\ pc' \in {"data", "rate", "exit"} /\ UNCHANGED syncOpen
<1> USE DEF OpenSync, OpenData
<1>1. CASE PacketBlasterSync \/ ClasBlasterSync \/ ClasBlasterNTPSync \/ Clas12Sync
  BY <1>1 DEF PacketBlasterSync, ClasBlasterSync, ClasBlasterNTPSync, Clas12Sync
<1>2. CASE PacketBlasterOldSync \/ SmallSync
  BY <1>2 DEF PacketBlasterOldSync, SmallSync, UsesUri
<1>3. CASE \/ PacketBlasterData \/ ClasBlasterData \/ ClasBlasterNTPData
           \/ PacketBlasterOldData \/ PacketBlasterSmallData \/ Clas12Data
  BY <1>3 DEF PacketBlasterData, ClasBlasterData, ClasBlasterNTPData,
              PacketBlasterOldData, PacketBlasterSmallData, Clas12Data
<1> QED BY <1>1, <1>2, <1>3 DEF Sockets

LEMMA SocketsInv ==
  ASSUME Inv, Sockets
  PROVE  Inv'
<1> USE SocketsShape DEF rate, pace, event, sync, Inv
<1>1. Types'
  BY DEF Types, BeforeLoop
<1>2. /\ NothingYet' /\ NothingSaved' /\ NoDrift' /\ CountsAgree' /\ AnnouncedRateFair'
  BY DEF NothingYet, NothingSaved, NoDrift, CountsAgree, AnnouncedRateFair, BeforeLoop
<1>3. Budget'
  BY DEF NothingYet, Budget, BeforeLoop
<1>4. SyncReady' /\ SyncHasAddress'
  BY DEF SyncReady, SyncHasAddress, BeforeLoop, UsesUri
<1> QED BY <1>1, <1>2, <1>3, <1>4

\* A batch takes a natural number of ticks, and the first one is yet to be sent.
LEMMA BatchType ==
  ASSUME NEW count \in Nat, NEW bytes \in Nat, NEW byteRate \in Nat \ {0},
         Batch(count, bytes, byteRate)
  PROVE  /\ microSecItShouldTake' \in Nat
         /\ buffersAtOnce' = count /\ countDown' = count
<1>1. Second * bytes \in Nat
  BY SecondAssumption, NatProduct
<1>2. (Second * bytes) \div byteRate \in Nat
  BY <1>1, NatQuotient
<1> QED BY <1>2 DEF Batch

\* The loop starts with a whole batch to send, if it is to keep a rate.
LEMMA RateShape ==
  ASSUME Inv, Rate
  PROVE  /\ UNCHANGED <<prog, asked, dest, haveSync, syncOpen, now, event, announced,
                        lastExcessTime, pauses>>
         /\ pc = "rate"
         /\ \/ pc' = "exit" /\ UNCHANGED <<rate, t1, countDown, startTime>>
            \/ /\ pc' = "pause" /\ t1' = now /\ tStart' = now /\ startTime' = now
               /\ microSecItShouldTake' \in Nat
               /\ buffersAtOnce' \in Nat /\ countDown' \in Int
               /\ paced' => countDown' = buffersAtOnce'
<1> USE DEF StartLoop
<1>1. ASSUME NEW size \in BufSizes,
             ByteRate(size) \/ BufRate(size) \/ AverageRate(size)
      PROVE  /\ microSecItShouldTake' \in Nat
             /\ buffersAtOnce' \in Nat /\ countDown' = buffersAtOnce'
  <2>1. size \in Nat \ {0} /\ BytesAtOnce \in Nat
    BY BytesAssumption
  <2>2. BytesAtOnce \div size \in Nat
    BY <2>1, NatQuotient
  <2>3. AtLeastOne(BytesAtOnce \div size) \in Nat
    BY <2>2 DEF AtLeastOne
  <2> DEFINE n == BytesAtOnce \div size
  <2>4. AtLeastOne(n) * size \in Nat
    BY <2>1, <2>3, NatProduct
  <2>5. \A r \in Rates : r \in Nat \ {0} /\ r * size \in Nat \ {0}
    <3> SUFFICES ASSUME NEW r \in Rates PROVE r \in Nat \ {0} /\ r * size \in Nat \ {0}
      OBVIOUS
    <3>1. r \in Nat \ {0}
      BY BytesAssumption
    <3> QED BY <3>1, <2>1, SMT
  <2> HIDE DEF n
  <2>6. CASE ByteRate(size)
    <3>1. PICK r \in Rates : Batch(AtLeastOne(n), AtLeastOne(n) * size, r)
      BY <2>6 DEF ByteRate, n
    <3> QED BY <3>1, <2>3, <2>4, <2>5, BatchType DEF n
  <2>7. CASE BufRate(size)
    <3>1. PICK r \in Rates : Batch(AtLeastOne(n), BytesAtOnce, r * size)
      BY <2>7 DEF BufRate, n
    <3> QED BY <3>1, <2>1, <2>3, <2>5, BatchType DEF n
  <2>8. CASE AverageRate(size)
    <3>1. PICK r \in Rates : Batch(n, BytesAtOnce, r * size)
      BY <2>8 DEF AverageRate, n
    <3> QED BY <3>1, <2>1, <2>2, <2>5, BatchType DEF n
  <2> QED BY <1>1, <2>6, <2>7, <2>8
<1>2. ASSUME NoRate
      PROVE  /\ microSecItShouldTake' \in Nat
             /\ buffersAtOnce' \in Nat /\ countDown' \in Int /\ ~paced'
  BY <1>2 DEF NoRate, Inv, Types
<1>3. CASE PacketBlasterRate
  BY <1>1, <1>2, <1>3 DEF PacketBlasterRate, setup, event
<1>4. CASE PacketBlasterOldRate
  BY <1>1, <1>2, <1>4 DEF PacketBlasterOldRate, setup, event
<1>5. CASE ClasBlasterRate
  BY <1>1, <1>2, <1>5
  DEF ClasBlasterRate, OnlyEvent, setup, event, rate, pace, sync
<1>6. CASE ClasBlasterNTPRate
  BY <1>1, <1>2, <1>6
  DEF ClasBlasterNTPRate, OnlyEvent, setup, event, rate, pace, sync
<1>7. CASE PacketBlasterSmallRate
  BY <1>2, <1>7 DEF PacketBlasterSmallRate, event
<1>8. CASE Clas12Rate
  BY <1>2, <1>8 DEF Clas12Rate, event
<1> QED BY <1>3, <1>4, <1>5, <1>6, <1>7, <1>8 DEF Rate

LEMMA RateInv ==
  ASSUME Inv, Rate
  PROVE  Inv'
<1>0. /\ UNCHANGED <<prog, dest, haveSync, syncOpen, now, sent, bufsSent, sinceSync,
                      announced, lastExcessTime, pauses>>
      /\ pc = "rate"
      /\ \/ /\ pc' = "exit"
            /\ UNCHANGED <<paced, microSecItShouldTake, buffersAtOnce, tStart, t1,
                           countDown, startTime>>
         \/ /\ pc' = "pause" /\ t1' = now /\ tStart' = now /\ startTime' = now
            /\ microSecItShouldTake' \in Nat
            /\ buffersAtOnce' \in Nat /\ countDown' \in Int
            /\ paced' => countDown' = buffersAtOnce'
  BY RateShape DEF event, rate
<1>1. Types'
  BY <1>0 DEF Inv, Types, InLoop
<1>2. /\ now = 0 /\ t1 = 0 /\ tStart = 0
      /\ lastExcessTime = 0 /\ pauses = 0 /\ sent = 0
  BY <1>0 DEF Inv, NothingYet, BeforeLoop
<1>3. NothingYet' /\ NothingSaved' /\ CountsAgree'
  BY <1>0, <1>2 DEF Inv, NothingYet, NothingSaved, CountsAgree, BeforeLoop
<1>4. NoDrift'
  <2>1. /\ pauses' \in Int /\ lastExcessTime' \in Int /\ t1' \in Int
        /\ tStart' \in Int /\ microSecItShouldTake' \in Int
    BY <1>1 DEF Types
  <2>2. pauses' = 0 /\ lastExcessTime' = 0 /\ t1' = tStart'
    BY <1>0, <1>2
  <2>3. OnSchedule(lastExcessTime', pauses', microSecItShouldTake', t1', tStart')
    BY <2>1, <2>2, NothingPaused, Zenon
  <2> QED BY <2>3, Zenon DEF NoDrift, OnSchedule
<1>5. Budget'
  <2>1. ~paced
    BY <1>0 DEF Inv, NothingYet, BeforeLoop
  <2>2. CASE pc' = "pause" /\ paced'
    <3>1. /\ buffersAtOnce' \in Nat /\ countDown' = buffersAtOnce'
          /\ pauses' = 0 /\ sent' = 0 /\ pc' = "pause"
      BY <2>2, <1>0, <1>1, <1>2 DEF Types
    <3>2. /\ BatchSize' \in Nat /\ LeftOfBatch' \in Nat /\ LeftOfBatch' <= BatchSize'
          /\ UnderWay' = 0
      BY ONLY <3>1 DEF BatchSize, LeftOfBatch, UnderWay, AtLeastOne
    <3>3. /\ sent' \in Int /\ pauses' \in Int /\ UnderWay' \in Int
          /\ LeftOfBatch' \in Int
      BY <1>1, <3>2 DEF Types
    <3> QED BY <3>1, <3>2, <3>3, FirstBatch, Zenon DEF Budget
  <2> QED BY <1>0, <2>1, <2>2 DEF Budget
<1>6. SyncReady' /\ SyncHasAddress'
  BY <1>0 DEF Inv, SyncReady, SyncHasAddress, BeforeLoop, UsesUri
<1>7. AnnouncedRateFair'
  BY <1>0 DEF Inv, AnnouncedRateFair
<1> QED BY <1>1, <1>3, <1>4, <1>5, <1>6, <1>7 DEF Inv

-----------------------------------------------------------------------------
(* Steps of the loop.                                                      *)

\* A pause keeps to the schedule: e is what is left of the time of the batch.
LEMMA PauseOnSchedule ==
  ASSUME NEW last \in Int, NEW p \in Nat, NEW m \in Nat, NEW t \in Int,
         NEW start \in Int, NEW n \in Int, NEW over \in Int,
         NEW e \in Int, e = m - (n - t) + last, OnSchedule(last, p, m, t, start)
  PROVE  /\ OnSchedule(e, p + 1, m, n, start)
         /\ OnSchedule(e - (e + over), p + 1, m, n + e + over, start)
<1>1. (p + 1) * m = p * m + m /\ p * m \in Int
  BY SMT
<1> QED BY <1>1, SMT DEF OnSchedule

\* Another batch of b buffers, one under way and the others left, fits into
\* another pause.
LEMMA NextBatch ==
  ASSUME NEW n \in Int, NEW p \in Nat, NEW b \in Nat, NEW left \in Int,
         n <= (p + 1) * b, 1 + left = b
  PROVE  n + 1 + left <= ((p + 1) + 1) * b
<1>1. ((p + 1) + 1) * b = (p + 1) * b + b /\ (p + 1) * b \in Int
  BY SMT
<1> QED BY <1>1, SMT

\* What a pause does to the clock and to the time kept back.
LEMMA PauseTimes ==
  ASSUME Inv, Pause
  PROVE  Types' /\ NothingSaved' /\ NoDrift'
<1> USE DEF Inv
<1>1. Types /\ NothingSaved /\ OnSchedule(lastExcessTime, pauses, microSecItShouldTake, t1, tStart)
  BY DEF NoDrift, OnSchedule
<1>2. /\ pc' = "send"
      /\ UNCHANGED <<tStart, startTime, microSecItShouldTake, buffersAtOnce, sent, bufsSent>>
      /\ countDown' \in Int
  BY DEF Pause, Types, rate, event, sync, BatchLeft
<1>3. /\ excessTime = microSecItShouldTake - (now - t1) + lastExcessTime
      /\ excessTime \in Int /\ microSecItShouldTake \in Nat /\ pauses \in Nat
      /\ lastExcessTime \in Int /\ t1 \in Int /\ tStart \in Int /\ now \in Int
      /\ 0 \in Int /\ \A over \in 0 .. MaxOversleep : over \in Int
  BY <1>1 DEF Types, excessTime
<1>4. CASE UNCHANGED <<now, lastExcessTime, t1, pauses>>
  <2>1. Types'
    BY <1>1, <1>2, <1>4 DEF Types, InLoop
  <2>2. NothingSaved' /\ NoDrift'
    BY <1>2, <1>4 DEF NothingSaved, NoDrift
  <2> QED BY <2>1, <2>2
<1>5. ASSUME NEW over \in 0 .. MaxOversleep, excessTime > 0,
             now' = now + excessTime + over, t1' = now', pauses' = pauses + 1,
             lastExcessTime' = KeptAfterSleep(excessTime + over)
      PROVE  Types' /\ NothingSaved' /\ NoDrift'
  <2>1. excessTime \in Nat /\ over \in Nat
    BY <1>1, <1>5, BoundAssumption DEF Types, excessTime
  <2>2. lastExcessTime' = 0 - over /\ now' \in Nat /\ now' >= now
    BY <1>1, <1>5, <2>1 DEF Types, KeptAfterSleep
  <2>3. Types'
    BY <1>1, <1>2, <1>5, <2>1, <2>2 DEF Types, InLoop
  <2>4. NothingSaved'
    BY <1>1, <1>2, <1>5, <2>1, <2>2 DEF Types, NothingSaved
  <2>5. OnSchedule(excessTime - (excessTime + over), pauses + 1, microSecItShouldTake,
                   now + excessTime + over, tStart)
    BY <1>1, <1>3, <2>1, PauseOnSchedule, Zenon
  <2>6. OnSchedule(lastExcessTime', pauses', microSecItShouldTake', t1', tStart')
    BY <1>2, <1>5, <2>5, Zenon DEF KeptAfterSleep
  <2> QED BY <2>3, <2>4, <2>6, Zenon DEF NoDrift, OnSchedule
<1>6. CASE /\ excessTime <= 0 /\ lastExcessTime' = excessTime /\ t1' = now
           /\ pauses' = pauses + 1 /\ UNCHANGED now
  <2>1. excessTime \in Int
    BY <1>1 DEF Types, excessTime
  <2>2. Types'
    BY <1>1, <1>2, <1>6, <2>1 DEF Types, InLoop
  <2>3. NothingSaved'
    BY <1>1, <1>2, <1>6 DEF Types, NothingSaved
  <2>4. OnSchedule(excessTime, pauses + 1, microSecItShouldTake, now, tStart)
    BY <1>1, <1>3, <2>1, PauseOnSchedule, Zenon
  <2>5. OnSchedule(lastExcessTime', pauses', microSecItShouldTake', t1', tStart')
    BY <1>2, <1>6, <2>4, Zenon
  <2> QED BY <2>2, <2>3, <2>5, Zenon DEF NoDrift, OnSchedule
<1> QED BY <1>4, <1>5, <1>6 DEF Pause

\* A pause begins a batch, and only when the last one is used up.
LEMMA PauseBudget ==
  ASSUME Inv, Pause
  PROVE  Budget'
<1>1. /\ pc = "pause" /\ pc' = "send"
      /\ UNCHANGED <<paced, buffersAtOnce, sent>>
      /\ sent \in Nat /\ pauses \in Nat /\ buffersAtOnce \in Nat /\ countDown \in Int
  BY DEF Pause, Inv, Types, rate, event
<1> SUFFICES ASSUME paced PROVE Budget'
  BY <1>1 DEF Budget
<1>2. /\ BatchSize \in Nat /\ BatchSize' = BatchSize
      /\ LeftOfBatch \in Nat /\ UnderWay = 0 /\ UnderWay' = 1
  BY <1>1 DEF BatchSize, LeftOfBatch, UnderWay, AtLeastOne
<1>3. sent + LeftOfBatch <= (pauses + 1) * BatchSize
  <2>1. sent + UnderWay + LeftOfBatch <= (pauses + 1) * BatchSize
    BY DEF Inv, Budget
  <2> QED BY <2>1, <1>1, <1>2
<1>4. CASE countDown > 0 /\ countDown' = countDown - 1 /\ UNCHANGED pauses
  <2>1. 1 + LeftOfBatch' = LeftOfBatch /\ LeftOfBatch' \in Nat
    BY <1>1, <1>4 DEF LeftOfBatch
  <2>2. sent + 1 + LeftOfBatch' <= (pauses + 1) * BatchSize
    BY <1>1, <1>3, <2>1
  <2>3. sent' + UnderWay' + LeftOfBatch' <= (pauses' + 1) * BatchSize'
    BY <1>1, <1>2, <1>4, <2>2, Zenon
  <2> QED BY <2>3 DEF Budget
<1>5. CASE countDown <= 0 /\ countDown' = BatchLeft /\ pauses' = pauses + 1
  <2>1. LeftOfBatch = 0 /\ 1 + LeftOfBatch' = BatchSize /\ LeftOfBatch' \in Nat
    BY <1>1, <1>5 DEF LeftOfBatch, BatchLeft, BatchSize, AtLeastOne
  <2>2. sent <= (pauses + 1) * BatchSize
    BY <1>1, <1>3, <2>1
  <2>3. sent + 1 + LeftOfBatch' <= ((pauses + 1) + 1) * BatchSize
    <3>1. sent \in Int /\ LeftOfBatch' \in Int
      BY <1>1, <2>1
    <3> QED BY <3>1, <1>1, <1>2, <2>1, <2>2, NextBatch, Zenon
  <2>4. sent' + UnderWay' + LeftOfBatch' <= (pauses' + 1) * BatchSize'
    BY <1>1, <1>2, <1>5, <2>3, Zenon
  <2> QED BY <2>4 DEF Budget
<1> QED BY <1>4, <1>5 DEF Pause

LEMMA PauseInv ==
  ASSUME Inv, AnyPause
  PROVE  Inv'
<1>1. Pause
  BY DEF AnyPause, PacketBlasterPause, ClasBlasterPause, ClasBlasterNTPPause,
         PacketBlasterOldPause, NeverPauses
<1>2. /\ pc = "pause" /\ pc' = "send"
      /\ UNCHANGED <<prog, dest, haveSync, syncOpen, announced, bufsSent, sinceSync>>
  BY <1>1 DEF Pause, setup, sync, event
<1>3. /\ NothingYet' /\ SyncReady' /\ SyncHasAddress' /\ CountsAgree' /\ AnnouncedRateFair'
  BY <1>2 DEF Inv, NothingYet, SyncReady, SyncHasAddress, CountsAgree, AnnouncedRateFair,
              BeforeLoop, UsesUri
<1> QED BY <1>1, <1>3, PauseTimes, PauseBudget DEF Inv

\* Sending takes time, or ends the program.
LEMMA SendInv ==
  ASSUME Inv, AnySend
  PROVE  Inv'
<1>1. SendBuffer
  BY DEF AnySend, PacketBlasterSend, ClasBlasterSend, ClasBlasterNTPSend,
         PacketBlasterOldSend, PacketBlasterSmallSend, Clas12Send
<1>2. /\ pc = "send" /\ pc' \in {"count", "exit"}
      /\ now' \in Nat /\ now' >= now
      /\ UNCHANGED <<setup, rate, pace, event, sync>>
  BY <1>1, BoundAssumption DEF SendBuffer, Inv, Types
<1> USE DEF setup, rate, pace, event, sync
<1>3. Types' /\ NothingSaved'
  BY <1>2 DEF Inv, Types, NothingSaved, InLoop
<1>4. /\ NothingYet' /\ SyncReady' /\ SyncHasAddress' /\ CountsAgree' /\ AnnouncedRateFair'
      /\ NoDrift'
  BY <1>2 DEF Inv, NothingYet, SyncReady, SyncHasAddress, CountsAgree,
              AnnouncedRateFair, BeforeLoop, UsesUri, NoDrift
<1>5. Budget'
  <2> SUFFICES ASSUME paced PROVE Budget'
    BY <1>2 DEF Budget
  <2>1. /\ BatchSize' = BatchSize /\ LeftOfBatch' = LeftOfBatch
        /\ UNCHANGED <<sent, pauses>>
    BY <1>2 DEF BatchSize, LeftOfBatch
  <2>2. sent + UnderWay + LeftOfBatch <= (pauses + 1) * BatchSize
    BY DEF Inv, Budget
  <2>3. CASE pc' = "count"
    <3>1. UnderWay' = UnderWay
      BY <1>2, <2>3 DEF UnderWay
    <3> QED BY <2>1, <2>2, <3>1, Zenon DEF Budget
  <2>4. CASE pc' = "exit"
    <3>1. /\ UnderWay = 1 /\ UnderWay' = 0
          /\ sent \in Nat /\ pauses \in Nat /\ LeftOfBatch \in Int /\ BatchSize \in Nat
      BY <1>2, <2>4 DEF UnderWay, LeftOfBatch, BatchSize, AtLeastOne, Inv, Types
    <3>2. (pauses + 1) * BatchSize \in Int
      BY <3>1, SMT
    <3>3. sent + 0 + LeftOfBatch <= (pauses + 1) * BatchSize
      BY <2>2, <3>1, <3>2
    <3> QED BY <2>1, <3>1, <3>3, Zenon DEF Budget
  <2> QED BY <1>2, <2>3, <2>4
<1> QED BY <1>3, <1>4, <1>5 DEF Inv

\* The buffer sent is counted in all counts at once.
LEMMA CountInv ==
  ASSUME Inv, AnyCount
  PROVE  Inv'
<1>1. /\ pc = "count" /\ pc' = "announce"
      /\ sent' = sent + 1 /\ bufsSent' = bufsSent + 1 /\ sinceSync' = sinceSync + 1
      /\ UNCHANGED <<now, setup, rate, pace, sync>>
  BY DEF AnyCount, PacketBlasterCount, ClasBlasterCount, ClasBlasterNTPCount,
         PacketBlasterOldCount, PacketBlasterSmallCount, Clas12Count, Count
<1> USE DEF setup, rate, pace, event, sync
<1>2. Types' /\ NothingSaved'
  BY <1>1 DEF Inv, Types, NothingSaved, InLoop
<1>3. /\ NothingYet' /\ SyncReady' /\ SyncHasAddress' /\ CountsAgree' /\ AnnouncedRateFair'
      /\ NoDrift'
  BY <1>1 DEF Inv, NothingYet, SyncReady, SyncHasAddress, CountsAgree,
              AnnouncedRateFair, BeforeLoop, UsesUri, NoDrift
<1>4. Budget'
  <2> SUFFICES ASSUME paced PROVE Budget'
    BY <1>1 DEF Budget
  <2>1. /\ BatchSize' = BatchSize /\ LeftOfBatch' = LeftOfBatch /\ UNCHANGED pauses
        /\ UnderWay = 1 /\ UnderWay' = 0
        /\ sent \in Int /\ LeftOfBatch \in Int
    BY <1>1 DEF BatchSize, LeftOfBatch, UnderWay, Inv, Types
  <2>2. sent + 1 + LeftOfBatch <= (pauses + 1) * BatchSize
    BY <2>1 DEF Inv, Budget
  <2>3. (sent + 1) + 0 + LeftOfBatch = sent + 1 + LeftOfBatch
    BY <2>1
  <2> QED BY <1>1, <2>1, <2>2, <2>3, Zenon DEF Budget
<1> QED BY <1>2, <1>3, <1>4 DEF Inv

\* A step of the loop that neither sends nor counts keeps the schedule.
LEMMA IdleStep ==
  ASSUME Inv, now' \in Nat, now' >= now, startTime' \in Nat, bufsSent' \in Nat,
         pc \in {"announce", "next"}, pc' \in {"next", "pause", "exit"},
         UNCHANGED <<setup, rate, pace, sent>>
  PROVE  Types' /\ NothingYet' /\ NothingSaved' /\ NoDrift' /\ Budget'
<1> USE DEF rate, pace
<1>1. Types' /\ NothingYet' /\ NothingSaved'
  BY DEF Inv, Types, NothingYet, NothingSaved, InLoop, BeforeLoop
<1>2. NoDrift'
  BY DEF Inv, NoDrift
<1>3. Budget'
  <2>1. /\ BatchSize' = BatchSize /\ LeftOfBatch' = LeftOfBatch
        /\ UnderWay' = UnderWay
    BY DEF BatchSize, LeftOfBatch, UnderWay
  <2> QED BY <2>1, Zenon DEF Inv, Budget
<1> QED BY <1>1, <1>2, <1>3

\* An announcement gives the rate of the buffers since the one before.
LEMMA AnnounceStep ==
  ASSUME Inv, NEW wanted, NEW clock \in Nat, NEW carried,
         Announce(wanted, clock, carried), wanted => haveSync /\ syncOpen
  PROVE  Inv'
<1>1. /\ pc = "announce" /\ pc' \in {"next", "exit"}
      /\ UNCHANGED <<now, setup, rate, pace, sent>>
  BY DEF Announce
<1>2. /\ startTime' \in Nat /\ bufsSent' \in Nat /\ CountsAgree'
  BY DEF Announce, Inv, Types, CountsAgree, CountAnew
<1>3. Types' /\ NothingYet' /\ NothingSaved' /\ NoDrift' /\ Budget'
  <2>1. now' \in Nat /\ now' >= now
    BY <1>1 DEF Inv, Types
  <2> QED BY <2>1, <1>1, <1>2, IdleStep
<1>4. UNCHANGED <<prog, dest, haveSync, syncOpen>>
  BY <1>1 DEF setup
<1>5. SyncReady'
  BY <1>1, <1>4 DEF Inv, SyncReady, BeforeLoop, UsesUri
<1>6. SyncHasAddress'
  BY <1>4 DEF Inv, SyncHasAddress, Announce
<1>7. AnnouncedRateFair'
  <2>1. CASE UNCHANGED announced
    BY <2>1 DEF Inv, AnnouncedRateFair
  <2>2. CASE clock - startTime >= Second /\ announced' = Message(clock, carried)
    <3> DEFINE d == clock - startTime
               r == bufsSent \div (d \div Second)
    <3>1. /\ Second \in Nat \ {0} /\ bufsSent \in Nat /\ d \in Int /\ d >= Second
          /\ sinceSync = bufsSent
      BY <2>2, SecondAssumption DEF Inv, Types, CountsAgree
    <3>2. /\ announced'.rate = r /\ announced'.real = bufsSent /\ announced'.took = d
      BY <2>2, <3>1 DEF Message
    <3>3. r * d <= 2 * bufsSent * Second /\ bufsSent * Second < (r + 1) * d
      BY <3>1, WholeSeconds
    <3> HIDE DEF d, r
    <3> QED BY <3>2, <3>3, Zenon DEF AnnouncedRateFair
  <2> QED BY <2>1, <2>2 DEF Announce
<1> QED BY <1>2, <1>3, <1>5, <1>6, <1>7 DEF Inv

\* Whoever wants to announce has the address of the control plane and the
\* socket open.
LEMMA AnnounceInv ==
  ASSUME Inv, AnyAnnounce
  PROVE  Inv'
<1>1. now \in Nat /\ tStart \in Nat
  BY DEF Inv, Types
<1>2. pc = "announce"
  BY DEF AnyAnnounce, PacketBlasterAnnounce, ClasBlasterAnnounce, ClasBlasterNTPAnnounce,
         PacketBlasterOldAnnounce, SmallAnnounce, Clas12Announce, Announce
<1>3. /\ UsesUri => (dest # "direct" => haveSync /\ syncOpen)
      /\ prog = "packetBlasterOld" => (haveSync => haveSync /\ syncOpen)
  BY <1>2 DEF Inv, SyncReady
<1>4. CASE PacketBlasterAnnounce
  BY <1>1, <1>3, <1>4, AnnounceStep, Zenon DEF PacketBlasterAnnounce, UsesUri
<1>5. CASE ClasBlasterAnnounce
  BY <1>1, <1>3, <1>5, AnnounceStep, Zenon DEF ClasBlasterAnnounce, UsesUri
<1>6. CASE ClasBlasterNTPAnnounce
  BY <1>1, <1>3, <1>6, AnnounceStep, Zenon DEF ClasBlasterNTPAnnounce, UsesUri
<1>7. CASE PacketBlasterOldAnnounce
  BY <1>1, <1>3, <1>7, AnnounceStep, Zenon DEF PacketBlasterOldAnnounce
<1>8. CASE SmallAnnounce
  BY <1>1, <1>8, AnnounceStep, Zenon DEF SmallAnnounce
<1>9. CASE Clas12Announce
  BY <1>1, <1>3, <1>9, AnnounceStep, Zenon DEF Clas12Announce, UsesUri
<1> QED BY <1>4, <1>5, <1>6, <1>7, <1>8, <1>9, Zenon DEF AnyAnnounce

\* The rest of the loop takes time at most.
LEMMA NextStepInv ==
  ASSUME Inv, AnyNext
  PROVE  Inv'
<1>1. /\ pc = "next" /\ pc' \in {"pause", "exit"}
      /\ now' \in Nat /\ now' >= now
      /\ UNCHANGED <<setup, rate, pace, sent, bufsSent, sinceSync, sync>>
  <2>1. now \in Nat
    BY DEF Inv, Types
  <2>2. CASE PacketBlasterNext \/ PacketBlasterOldNext
    BY <2>1, <2>2 DEF PacketBlasterNext, PacketBlasterOldNext, AfterBytes, Delayed, GoOn
  <2>3. CASE ClasBlasterNext \/ ClasBlasterNTPNext \/ Clas12Next
    BY <2>1, <2>3 DEF ClasBlasterNext, ClasBlasterNTPNext, Clas12Next, AfterEach, Delayed,
                      GoOn
  <2>4. CASE PacketBlasterSmallNext
    BY <2>1, <2>4 DEF PacketBlasterSmallNext, GoOn
  <2> QED BY <2>2, <2>3, <2>4 DEF AnyNext
<1>2. Types' /\ NothingYet' /\ NothingSaved' /\ NoDrift' /\ Budget'
  <2>1. startTime' \in Nat /\ bufsSent' \in Nat
    BY <1>1 DEF sync, Inv, Types
  <2> QED BY <2>1, <1>1, IdleStep
<1>3. SyncReady' /\ SyncHasAddress' /\ CountsAgree' /\ AnnouncedRateFair'
  BY <1>1 DEF setup, sync, Inv, SyncReady, SyncHasAddress, CountsAgree, AnnouncedRateFair,
              BeforeLoop, UsesUri
<1> QED BY <1>2, <1>3 DEF Inv

\* The printing thread touches nothing of the loop.
LEMMA StatsInv ==
  ASSUME Inv, AnyStats \/ UNCHANGED vars
  PROVE  Inv'
<1>1. UNCHANGED <<main, setup, rate, pace, event, sync>>
  BY DEF AnyStats, PacketBlasterStats, ClasBlasterStats, ClasBlasterNTPStats,
         PacketBlasterOldStats, PacketBlasterSmallStats, Clas12Stats, PrintRates, vars
<1> USE DEF main, setup, rate, pace, event, sync
<1>2. Types' /\ NothingYet' /\ NothingSaved' /\ NoDrift'
  BY <1>1 DEF Inv, Types, NothingYet, NothingSaved, NoDrift
<1>3. Budget'
  BY <1>1 DEF Inv, Budget, BatchSize, LeftOfBatch, UnderWay
<1>4. SyncReady' /\ SyncHasAddress' /\ CountsAgree' /\ AnnouncedRateFair'
  BY <1>1 DEF Inv, SyncReady, SyncHasAddress, CountsAgree, AnnouncedRateFair, UsesUri
<1> QED BY <1>2, <1>3, <1>4 DEF Inv

LEMMA NextInv == Inv /\ [Next]_vars => Inv'
BY AddressInv, SocketsInv, RateInv, PauseInv, SendInv, CountInv, AnnounceInv,
   NextStepInv, StatsInv
DEF Next

-----------------------------------------------------------------------------
(* Theorems.                                                               *)

LEMMA SpecInv == Spec => []Inv
BY InitInv, NextInv, PTL DEF Spec

\* For every rate and whatever sends and sleeps take, the time kept back after k
\* pauses is k times that of a batch less the time gone by.
THEOREM Drift == Spec => []NoDrift
<1>1. Inv => NoDrift
  BY DEF Inv
<1> QED BY <1>1, SpecInv, PTL

\* A batch takes its bytes' share of a second, but for less than one tick.
RateKept ==
    paced =>
        /\ askedRate \in Nat /\ bufSize \in Nat
        /\ (inBuffers => bufSize <= BytesAtOnce)
           => BatchSize * (bufSize * Second) <= askedRate * (microSecItShouldTake + 1)

LEMMA BatchKeepsRate ==
  ASSUME NEW count \in Nat, NEW size \in Nat, NEW bytes \in Nat,
         NEW byteRate \in Nat \ {0}, Batch(count, bytes, byteRate),
         count * size <= bytes
  PROVE  count * (size * Second) <= byteRate * (microSecItShouldTake' + 1)
<1>1. Second \in Nat /\ Second * bytes \in Nat /\ count * size \in Nat
  BY SecondAssumption, NatProduct
<1>2. Second * bytes < byteRate * (((Second * bytes) \div byteRate) + 1)
  BY <1>1, NatQuotient
<1>3. Second * (count * size) <= Second * bytes
  BY <1>1, Monotonic
<1>4. Second * (count * size) = count * (size * Second) /\ Second * (count * size) \in Int
  BY <1>1, SMT
<1>5. (Second * bytes) \div byteRate \in Nat
  BY <1>1, NatQuotient
<1>6. byteRate * (((Second * bytes) \div byteRate) + 1) \in Int
  BY <1>5, SMT
<1> QED BY <1>1, <1>2, <1>3, <1>4, <1>6 DEF Batch

LEMMA RateKeepsRate ==
  ASSUME Rate
  PROVE  RateKept' \/ UNCHANGED <<rate, bufSize>>
<1> USE DEF StartLoop
<1>1. ASSUME bufSize' \in BufSizes,
             ByteRate(bufSize') \/ BufRate(bufSize') \/ AverageRate(bufSize')
      PROVE  RateKept'
  <2>1. PICK size \in BufSizes : size = bufSize'
    BY <1>1
  <2>2. size \in Nat \ {0} /\ BytesAtOnce \in Nat \ {0} /\ Second \in Nat
    BY BytesAssumption, SecondAssumption
  <2> DEFINE n == BytesAtOnce \div size
  <2>3. /\ n \in Nat /\ size * n <= BytesAtOnce /\ BytesAtOnce < size * (n + 1)
    BY <2>2, NatQuotient
  <2> HIDE DEF n
  <2>4. size <= BytesAtOnce => n >= 1
    <3> SUFFICES ASSUME size <= BytesAtOnce, n = 0 PROVE FALSE
      BY <2>3
    <3>1. size * (n + 1) = size
      BY <2>2, SMT
    <3> QED BY <2>2, <2>3, <3>1
  <2>5. AtLeastOne(n) \in Nat /\ (n >= 1 => AtLeastOne(n) = n)
        /\ AtLeastOne(AtLeastOne(n)) = AtLeastOne(n)
    BY <2>3 DEF AtLeastOne
  <2>6. AtLeastOne(n) * size \in Nat /\ n * size <= BytesAtOnce
    <3>1. n * size = size * n
      BY <2>2, <2>3, SMT
    <3> QED BY <2>2, <2>3, <2>5, <3>1, NatProduct
  <2>7. \A r \in Rates : r \in Nat \ {0} /\ r * size \in Nat \ {0}
    <3> SUFFICES ASSUME NEW r \in Rates PROVE r \in Nat \ {0} /\ r * size \in Nat \ {0}
      OBVIOUS
    <3>1. r \in Nat \ {0}
      BY BytesAssumption
    <3> QED BY <2>2, <3>1, SMT
  <2>8. CASE ByteRate(size)
    <3>1. PICK r \in Rates : Batch(AtLeastOne(n), AtLeastOne(n) * size, r)
      BY <2>8 DEF ByteRate, n
    <3>2. AtLeastOne(n) * size <= AtLeastOne(n) * size
      BY <2>6
    <3>3. AtLeastOne(n) * (size * Second) <= r * (microSecItShouldTake' + 1)
      BY <2>2, <2>5, <2>6, <2>7, <3>1, <3>2, BatchKeepsRate
    <3>4. askedRate' = r /\ buffersAtOnce' = AtLeastOne(n) /\ BatchSize' = AtLeastOne(n)
      BY <2>5, <3>1 DEF Batch, BatchSize
    <3> QED BY <2>1, <2>2, <2>7, <3>3, <3>4 DEF RateKept
  <2>9. ASSUME NEW c \in Nat, NEW r \in Rates, Batch(c, BytesAtOnce, r * size),
               inBuffers', size <= BytesAtOnce => c = n
        PROVE  RateKept'
    <3>1. askedRate' = r * size /\ buffersAtOnce' = c
      BY <2>9 DEF Batch
    <3>2. ASSUME size <= BytesAtOnce
          PROVE  BatchSize' * (size * Second) <= askedRate' * (microSecItShouldTake' + 1)
      <4>1. c = n /\ BatchSize' = n
        BY <2>4, <2>5, <2>9, <3>1, <3>2 DEF BatchSize
      <4>2. n * (size * Second) <= (r * size) * (microSecItShouldTake' + 1)
        BY <2>2, <2>3, <2>6, <2>7, <2>9, <4>1, BatchKeepsRate
      <4> QED BY <3>1, <4>1, <4>2
    <3> QED BY <2>1, <2>2, <2>7, <2>9, <3>1, <3>2 DEF RateKept
  <2>10. CASE BufRate(size)
    <3>1. PICK r \in Rates : Batch(AtLeastOne(n), BytesAtOnce, r * size)
      BY <2>10 DEF BufRate, n
    <3> QED BY <2>4, <2>5, <2>9, <2>10, <3>1 DEF BufRate
  <2>11. CASE AverageRate(size)
    <3>1. PICK r \in Rates : Batch(n, BytesAtOnce, r * size)
      BY <2>11 DEF AverageRate, n
    <3> QED BY <2>3, <2>9, <2>11, <3>1 DEF AverageRate
  <2> QED BY <1>1, <2>1, <2>8, <2>10, <2>11
<1>2. NoRate => RateKept'
  BY DEF NoRate, RateKept
<1>3. CASE PacketBlasterRate \/ PacketBlasterOldRate
  BY <1>1, <1>2, <1>3 DEF PacketBlasterRate, PacketBlasterOldRate
<1>4. CASE ClasBlasterRate \/ ClasBlasterNTPRate
  BY <1>1, <1>2, <1>4 DEF ClasBlasterRate, ClasBlasterNTPRate, OnlyEvent, setup
<1>5. CASE PacketBlasterSmallRate \/ Clas12Rate
  BY <1>2, <1>5 DEF PacketBlasterSmallRate, Clas12Rate
<1> QED BY <1>3, <1>4, <1>5 DEF Rate

\* The rate is worked out once.
LEMMA RateFrame == [Next]_vars => Rate \/ UNCHANGED <<rate, bufSize>>
<1> SUFFICES ASSUME [Next]_vars, ~Rate PROVE UNCHANGED <<rate, bufSize>>
  OBVIOUS
<1> USE DEF setup
<1>1. CASE Address
  BY <1>1 DEF Address, PacketBlasterAddress, ClasBlasterAddress, ClasBlasterNTPAddress,
     PacketBlasterOldAddress, PacketBlasterSmallAddress, Clas12Address, Asked
<1>2. CASE Sockets
  BY <1>2 DEF Sockets, PacketBlasterSync, ClasBlasterSync, ClasBlasterNTPSync,
     PacketBlasterOldSync, Clas12Sync, SmallSync, PacketBlasterData, ClasBlasterData,
     ClasBlasterNTPData, PacketBlasterOldData, PacketBlasterSmallData, Clas12Data,
     OpenSync, OpenData
<1>3. CASE AnyPause \/ AnySend \/ AnyCount
  BY <1>3 DEF AnyPause, PacketBlasterPause, ClasBlasterPause, ClasBlasterNTPPause,
     PacketBlasterOldPause, NeverPauses, Pause, AnySend, PacketBlasterSend,
     ClasBlasterSend, ClasBlasterNTPSend, PacketBlasterOldSend, PacketBlasterSmallSend,
     Clas12Send, SendBuffer, AnyCount, PacketBlasterCount, ClasBlasterCount,
     ClasBlasterNTPCount, PacketBlasterOldCount, PacketBlasterSmallCount, Clas12Count, Count
<1>4. CASE AnyAnnounce \/ AnyNext
  BY <1>4 DEF AnyAnnounce, PacketBlasterAnnounce, ClasBlasterAnnounce,
     ClasBlasterNTPAnnounce, PacketBlasterOldAnnounce, SmallAnnounce, Clas12Announce,
     Announce, AnyNext, PacketBlasterNext, PacketBlasterOldNext, ClasBlasterNext,
     ClasBlasterNTPNext, Clas12Next, PacketBlasterSmallNext, AfterBytes, AfterEach, GoOn
<1>5. CASE AnyStats \/ UNCHANGED vars
  BY <1>5 DEF AnyStats, PacketBlasterStats, ClasBlasterStats, ClasBlasterNTPStats,
     PacketBlasterOldStats, PacketBlasterSmallStats, Clas12Stats, PrintRates, vars
<1> QED BY <1>1, <1>2, <1>3, <1>4, <1>5 DEF Next

LEMMA RateKeptNext == RateKept /\ [Next]_vars => RateKept'
<1> SUFFICES ASSUME RateKept, [Next]_vars PROVE RateKept'
  OBVIOUS
<1>1. CASE UNCHANGED <<rate, bufSize>>
  BY <1>1 DEF rate, RateKept, BatchSize
<1> QED BY <1>1, RateFrame, RateKeepsRate

\* The schedule, that no time is saved up, that what is sent is within the batches
\* begun and what a batch takes bound what n buffers may be ahead of the rate; w
\* is a buffer's part of the time, r the rate, m the time of a batch of b buffers.
LEMMA AheadByABatch ==
  ASSUME NEW n \in Int, NEW p \in Nat, NEW b \in Nat, NEW m \in Nat, NEW w \in Nat,
         NEW r \in Nat, NEW elapsed \in Int,
         n <= (p + 1) * b, p * m <= elapsed, b * w <= r * (m + 1)
  PROVE  (n - b) * w <= r * (elapsed + p)
<1>1. (p + 1) * b = p * b + b /\ p * b \in Int /\ p * m \in Int /\ b * w \in Int
      /\ r * (m + 1) \in Int
  BY SMT
<1>2. n - b <= p * b
  BY <1>1
<1>3. w * (n - b) <= w * (p * b)
  BY <1>1, <1>2, Monotonic
<1>4. p * (b * w) <= p * (r * (m + 1))
  BY <1>1, Monotonic
<1>5. r * (p * m + p) <= r * (elapsed + p)
  BY <1>1, Monotonic
<1>6. w * (n - b) = (n - b) * w /\ w * (p * b) = p * (b * w)
      /\ p * (r * (m + 1)) = r * (p * m + p)
  BY SMT
<1>7. (n - b) * w \in Int /\ p * (b * w) \in Int /\ r * (p * m + p) \in Int
      /\ r * (elapsed + p) \in Int
  BY <1>1, SMT
<1> QED BY <1>3, <1>4, <1>5, <1>6, <1>7

\* No program that was asked for a rate, in bytes or in buffers no longer than the
\* bytes it sends at once, is ever ahead of that rate by more than a batch and the
\* rounding of the time of each.
THEOREM TooFastNever == Spec => []NeverTooFast
<1>1. Inv /\ RateKept => NeverTooFast
  <2> SUFFICES ASSUME Inv, RateKept, paced, inBuffers => bufSize <= BytesAtOnce
               PROVE  (sent - BatchSize) * bufSize * Second
                         <= askedRate * (now - tStart + pauses)
    BY DEF NeverTooFast, BatchSize
  <2>1. /\ sent \in Nat /\ pauses \in Nat /\ BatchSize \in Nat /\ LeftOfBatch \in Nat
        /\ UnderWay \in Nat /\ microSecItShouldTake \in Nat /\ now - tStart \in Int
    BY DEF Inv, Types, BatchSize, AtLeastOne, LeftOfBatch, UnderWay
  <2>2. sent <= (pauses + 1) * BatchSize
    <3>1. sent + UnderWay + LeftOfBatch <= (pauses + 1) * BatchSize
      BY DEF Inv, Budget
    <3>2. (pauses + 1) * BatchSize \in Int
      BY <2>1, SMT
    <3> QED BY <3>1, <3>2, <2>1
  <2>3. pauses * microSecItShouldTake <= now - tStart
    <3>1. pauses * microSecItShouldTake \in Int
      BY <2>1, NatProduct
    <3> QED BY <3>1 DEF Inv, Types, NoDrift, NothingSaved
  <2>4. /\ askedRate \in Nat /\ bufSize \in Nat
        /\ BatchSize * (bufSize * Second) <= askedRate * (microSecItShouldTake + 1)
    BY DEF RateKept
  <2>5. bufSize * Second \in Nat /\ Second \in Int /\ sent - BatchSize \in Int
    BY <2>1, <2>4, SecondAssumption, NatProduct
  <2>6. (sent - BatchSize) * (bufSize * Second) <= askedRate * (now - tStart + pauses)
    BY <2>1, <2>2, <2>3, <2>4, <2>5, AheadByABatch
  <2>7. (sent - BatchSize) * (bufSize * Second) = (sent - BatchSize) * bufSize * Second
    BY <2>4, <2>5, Distribute
  <2> QED BY <2>6, <2>7
<1>2. Init => RateKept
  BY DEF Init, RateKept
<1> QED BY <1>1, <1>2, SpecInv, RateKeptNext, PTL DEF Spec

\* Whatever the options and files say, no message is sent to a control plane whose
\* address is unknown or whose socket is closed.
THEOREM SyncAddressed == Spec => []SyncHasAddress
<1>1. Inv => SyncHasAddress
  BY DEF Inv
<1> QED BY <1>1, SpecInv, PTL

\* For every length of the second, of the interval and of the sends, the rate told
\* to the control plane is at most twice the real one and not one below it.
THEOREM RateFair == Spec => []AnnouncedRateFair
<1>1. Inv => AnnouncedRateFair
  BY DEF Inv
<1> QED BY <1>1, SpecInv, PTL
=============================================================================
