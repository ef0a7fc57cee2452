------------------------ MODULE EjfatProducerProofs ------------------------
(***************************************************************************)
(* Theorems about EjfatProducer for every capacity of the queue and every  *)
(* number of calls, of both classes, whatever the user has under way.      *)
(***************************************************************************)
EXTENDS EjfatProducer, SequenceTheorems, TLAPS

-----------------------------------------------------------------------------
(* Elements of the array of items.                                         *)

LEMMA ArraySizeType == ArraySize \in Nat \ {0} /\ QSize \in Nat \ {0}
BY ProducerAssumption DEF ArraySize

\* A remainder is what is left of a number.
LEMMA DivMod ==
  ASSUME NEW V \in Nat \ {0}, NEW a \in Nat
  PROVE  /\ a = V * (a \div V) + (a % V)
         /\ a \div V \in Nat
         /\ a % V \in 0 .. V - 1
BY SMT

\* A number has one remainder only.
LEMMA RemainderUnique ==
  ASSUME NEW V \in Nat \ {0}, NEW p \in Int, NEW q \in Int,
         NEW i \in 0 .. V - 1, NEW j \in 0 .. V - 1, V * p + i = V * q + j
  PROVE  i = j
<1>1. V * (p - q) = j - i
  BY SMT
<1>2. CASE p - q >= 1
  <2>1. V * (p - q) >= V
    BY <1>2, SMT
  <2> QED BY <2>1, <1>1
<1>3. CASE p - q <= -1
  <2>1. V * (q - p) >= V
    BY <1>3, SMT
  <2>2. V * (p - q) = 0 - V * (q - p)
    BY SMT
  <2> QED BY <2>1, <2>2, <1>1
<1>4. CASE p - q = 0
  <2>1. V * (p - q) = 0
    BY <1>4, SMT
  <2> QED BY <2>1, <1>1
<1> QED BY <1>2, <1>3, <1>4

\* Numbers less than V apart have different remainders.
LEMMA PlacesDiffer ==
  ASSUME NEW V \in Nat \ {0}, NEW a \in Nat, NEW b \in Nat, a < b, b - a < V
  PROVE  a % V # b % V
<1> DEFINE p == a \div V
           q == b \div V
<1> SUFFICES ASSUME a % V = b % V PROVE FALSE
  OBVIOUS
<1>1. /\ a = V * p + (a % V) /\ b = V * q + (b % V)
      /\ p \in Nat /\ q \in Nat /\ a % V \in 0 .. V - 1
  BY DivMod
<1> HIDE DEF p, q
<1>2. b - a = V * q - V * p /\ V * q - V * p = V * (q - p)
  BY <1>1, SMT
<1>3. p \in Int /\ q \in Int
  BY <1>1
<1>4. CASE q - p >= 1
  <2>1. V * (q - p) >= V
    BY <1>3, <1>4, SMT
  <2> QED BY <2>1, <1>2
<1>5. CASE q - p <= 0
  <2>1. V * (p - q) >= 0 /\ V * (q - p) = 0 - V * (p - q)
    BY <1>3, <1>5, SMT
  <2>2. V * (p - q) \in Int
    BY <1>3, SMT
  <2> QED BY <2>1, <2>2, <1>2
<1>6. q - p \in Int
  BY <1>3
<1> QED BY <1>4, <1>5, <1>6

\* Going on by one item is going on by one number.
LEMMA NextItem ==
  ASSUME NEW n \in Nat
  PROVE  ItemAfter(n % ArraySize) = (n + 1) % ArraySize
<1> DEFINE V == ArraySize
<1> HIDE DEF V
<1> DEFINE i == n % V
           p == n \div V
<1>1. V \in Nat \ {0}
  BY ArraySizeType DEF V
<1>2. n = V * p + i /\ p \in Nat /\ i \in 0 .. V - 1
  BY <1>1, DivMod
<1>3. /\ n + 1 = V * ((n + 1) \div V) + ((n + 1) % V)
      /\ (n + 1) \div V \in Nat /\ (n + 1) % V \in 0 .. V - 1
  <2>1. n + 1 \in Nat
    OBVIOUS
  <2> QED BY ONLY <2>1, <1>1, DivMod
<1>4. /\ i + 1 = V * ((i + 1) \div V) + ((i + 1) % V)
      /\ (i + 1) \div V \in Nat /\ (i + 1) % V \in 0 .. V - 1
  <2>1. i + 1 \in Nat
    BY <1>1, <1>2
  <2> HIDE DEF i
  <2> QED BY ONLY <2>1, <1>1, DivMod
<1> DEFINE q == (n + 1) \div V
           r == (i + 1) \div V
           j == (n + 1) % V
           k == (i + 1) % V
<1> HIDE DEF i, p, q, r, j, k
<1>5. V * q + j = V * (p + r) + k
  <2>1. V * (p + r) = V * p + V * r
    BY <1>1, <1>2, <1>4, SMT DEF r
  <2>2. V * p \in Int /\ V * r \in Int /\ V * q \in Int /\ i \in Int
    BY <1>1, <1>2, <1>3, <1>4, SMT DEF r, q
  <2> QED BY <2>1, <2>2, <1>2, <1>3, <1>4 DEF q, r, j, k
<1>6. j = k
  <2>1. q \in Int /\ p + r \in Int /\ j \in 0 .. V - 1 /\ k \in 0 .. V - 1
    BY <1>2, <1>3, <1>4 DEF q, r, j, k
  <2> QED BY <2>1, <1>1, <1>5, RemainderUnique
<1> QED BY <1>6 DEF ItemAfter, j, k, i, V

-----------------------------------------------------------------------------
(* The inductive invariant.                                                *)

Slots   == 0 .. ArraySize - 1
Threads == {SendThread, User}
Pcs     == {"out", "popped", "enter", "send", "sync", "return", "ended"}
Items   == [event : Nat, tick : Nat]
Callers == [pc : Pcs, slot : Slots, event : Nat, number : Nat]
CallPcs == {"new", "socket", "data", "idle", "fill", "push"}
Sends   == [by : Threads, event : Nat, number : Nat, turn : Nat]

\* Types of the variables.
Types ==
    /\ tick \in Nat /\ calls \in Nat
    /\ items \in [Slots -> Items] /\ currentQItem \in Slots
    /\ queue \in Seq(Slots)
    /\ call \in [pc : CallPcs, event : Nat, number : Nat]
    /\ sender \in [Threads -> Callers]
    /\ accepted \in Seq(Nat) /\ called \in Seq(Nat)
    /\ sent \in Seq(Sends)
    /\ crowded \subseteq Nat

\* The event the sending thread has in hand comes after those it is done with.
InHand == sender[SendThread].pc \notin {"out", "ended"}
Taken  == Len(called) + (IF InHand THEN 1 ELSE 0)

\* The item of the n-th event accepted.
SlotOf(n) == (n - 1) % ArraySize

\* An event stays in its item until its callback was run, but for a crowded one,
\* which is the first of as many as there are items.
Filled ==
    /\ currentQItem = Len(accepted) % ArraySize
    /\ call.pc = "push" => items[currentQItem].event = call.event
    /\ call.pc = "fill" /\ Outstanding >= ArraySize => Turn \in crowded
    /\ \A n \in Turn .. Len(accepted) :
          n \notin crowded => items[SlotOf(n)].event = accepted[n]

\* The queue holds the items of the events accepted and not taken.
Queued ==
    /\ Len(queue) = Len(accepted) - Taken /\ Len(queue) <= QSize
    /\ \A j \in 1 .. Len(queue) : queue[j] = SlotOf(Taken + j)
    /\ InHand => sender[SendThread].slot = SlotOf(Taken)
    /\ sender[SendThread].pc \in {"enter", "send", "sync", "return"} =>
          Taken \in crowded \/ sender[SendThread].event = accepted[Taken]
    /\ sender[SendThread].pc \in {"send", "sync"} =>
          sender[SendThread].event \notin EmptyEvents

CalledInOrder ==
    /\ Len(called) <= Len(accepted)
    /\ \A n \in DOMAIN called : n \notin crowded => called[n] = accepted[n]

\* What is sent of the events accepted.
SentUpTo == IF sender[SendThread].pc \in {"sync", "return"} THEN Taken ELSE Len(called)

SentInOrder ==
    /\ \A i, j \in ByThread : i < j => sent[i].turn < sent[j].turn
    /\ \A i \in ByThread :
          /\ sent[i].turn \in 1 .. SentUpTo
          /\ sent[i].turn \notin crowded => sent[i].event = accepted[sent[i].turn]
    /\ \A n \in 1 .. SentUpTo :
          n \in crowded \/ accepted[n] \in EmptyEvents \/ WasSent(n)

Running == Filled /\ Queued /\ CalledInOrder /\ SentInOrder

\* Once the process has been ended nothing follows.
ProducerInv == Types /\ SentAsAccepted /\ CallbackAfterSend /\ (alive => Running)

-----------------------------------------------------------------------------
(* Types.                                                                  *)

LEMMA SlotOfType ==
  ASSUME NEW n \in Nat \ {0} PROVE SlotOf(n) \in Slots
<1>1. n - 1 \in Nat
  OBVIOUS
<1> QED BY <1>1, ArraySizeType, DivMod DEF SlotOf, Slots

LEMMA CallerTypes ==
  ASSUME NEW c \in Callers, NEW p \in Pcs
  PROVE  /\ [c EXCEPT !.pc = p] \in Callers
         /\ [c EXCEPT !.pc = p].pc = p
         /\ [c EXCEPT !.pc = p].slot = c.slot
         /\ [c EXCEPT !.pc = p].event = c.event
         /\ [c EXCEPT !.pc = p].number = c.number
BY DEF Callers

LEMMA SenderSet ==
  ASSUME Types, NEW th \in Threads, NEW r \in Callers, sender' = [sender EXCEPT ![th] = r]
  PROVE  /\ sender' \in [Threads -> Callers]
         /\ sender'[th] = r
         /\ \A x \in Threads : x # th => sender'[x] = sender[x]
BY DEF Types

\* One step of a call of sendEvent.
Goes(th, p) == /\ sender'[th].pc = p
               /\ sender'[th].slot = sender[th].slot
               /\ sender'[th].event = sender[th].event
               /\ sender' \in [Threads -> Callers]
               /\ \A x \in Threads : x # th => sender'[x] = sender[x]

LEMMA PcSet ==
  ASSUME Types, NEW th \in Threads, NEW p \in Pcs, sender' = [sender EXCEPT ![th].pc = p]
  PROVE  Goes(th, p)
<1> DEFINE r == [sender[th] EXCEPT !.pc = p]
<1>1. sender' = [sender EXCEPT ![th] = r]
  BY Zenon
<1>2. sender[th] \in Callers
  BY DEF Types
<1>3. r \in Callers /\ r.pc = p /\ r.slot = sender[th].slot /\ r.event = sender[th].event
  BY <1>2, CallerTypes, Zenon
<1> HIDE DEF r
<1> QED BY <1>1, <1>3, SenderSet DEF Goes

\* The user's steps that leave the queue and what it is about alone.
LEMMA QuietStep ==
  ASSUME Types, Running,
         UNCHANGED <<items, currentQItem, queue, accepted, called, sent, crowded>>,
         sender'[SendThread] = sender[SendThread],
         call' = call \/ call'.pc \notin {"fill", "push"}
  PROVE  Running'
<1> USE DEF Running
<1>2. Filled'
  BY DEF Filled, SlotOf, Turn, Outstanding
<1>3. Taken' = Taken /\ SentUpTo' = SentUpTo /\ (InHand' <=> InHand)
  BY DEF Taken, SentUpTo, InHand
<1>4. Queued'
  BY <1>3 DEF Queued, SlotOf
<1>5. CalledInOrder' /\ SentInOrder'
  BY <1>3 DEF CalledInOrder, SentInOrder, WasSent, ByThread
<1> QED BY <1>2, <1>4, <1>5

LEMMA CallTypes ==
  ASSUME Types, NEW p \in CallPcs
  PROVE  /\ [call EXCEPT !.pc = p] \in [pc : CallPcs, event : Nat, number : Nat]
         /\ [call EXCEPT !.pc = p].pc = p
         /\ [call EXCEPT !.pc = p].event = call.event
BY DEF Types, CallPcs

LEMMA ConstructKeeps ==
  ASSUME Types, Running, Constructing
  PROVE  Types' /\ Running'
<1>1. PICK c, at, wrong : \E next \in {"socket", "data", "idle"} : Construct(c, at, next, wrong)
  BY Zenon DEF Constructing, CheckArguments, FromUri, CreateSyncSocket, CreateDataSocket,
               ServerCheckArguments, CreateServerSocket
<1>2. PICK next \in {"socket", "data", "idle"} : Construct(c, at, next, wrong)
  BY <1>1
<1>3. /\ call' = [call EXCEPT !.pc = next] \/ call' = call
      /\ UNCHANGED <<class, tick, items, currentQItem, queue, sender, endThreads,
                     calls, accepted, sent, called, crowded>>
  BY <1>2 DEF Construct
<1>4. /\ call' \in [pc : CallPcs, event : Nat, number : Nat]
      /\ call' = call \/ call'.pc \notin {"fill", "push"}
  <2>1. next \in CallPcs /\ next \notin {"fill", "push"}
    BY DEF CallPcs
  <2>2. CASE call' = call
    BY <2>2 DEF Types
  <2>3. CASE call' = [call EXCEPT !.pc = next]
    BY <2>1, <2>3, CallTypes
  <2> QED BY <1>3, <2>2, <2>3
<1>5. Types'
  BY <1>3, <1>4 DEF Types
<1> QED BY <1>3, <1>4, <1>5, QuietStep

LEMMA AddKeeps ==
  ASSUME Types, Running, AddToSendQueue
  PROVE  Types' /\ Running'
<1>1. /\ calls' = calls + 1
      /\ call' = [pc |-> "fill", event |-> calls', number |-> NumberOf(calls')]
      /\ tick' = TickAfterCall
      /\ crowded' = IF Outstanding < ArraySize THEN crowded ELSE crowded \cup {Turn}
      /\ UNCHANGED <<class, items, currentQItem, queue, sender, endThreads, alive,
                     accepted, sent, called>>
  BY DEF AddToSendQueue
<1>2. calls' \in Nat /\ tick' \in Nat /\ NumberOf(calls') \in Nat
  BY <1>1 DEF Types, TickAfterCall, NumberOf
<1>3. call' \in [pc : CallPcs, event : Nat, number : Nat] /\ call'.pc = "fill"
  BY <1>1, <1>2 DEF CallPcs
<1>4. Turn \in Nat /\ Outstanding \in Int /\ ArraySize \in Nat
  BY ArraySizeType DEF Types, Turn, Outstanding
<1>5. /\ crowded \subseteq crowded' /\ crowded' \subseteq Nat
      /\ Outstanding >= ArraySize => Turn \in crowded'
  BY <1>1, <1>4 DEF Types
<1>6. Types'
  BY <1>1, <1>2, <1>3, <1>5 DEF Types
<1>7. Turn' = Turn /\ Outstanding' = Outstanding
  BY <1>1 DEF Turn, Outstanding
<1>8. Filled'
  BY <1>1, <1>3, <1>5, <1>7 DEF Running, Filled, SlotOf
<1>9. Taken' = Taken /\ SentUpTo' = SentUpTo /\ (InHand' <=> InHand)
  BY <1>1 DEF Taken, SentUpTo, InHand
<1>10. Queued'
  BY <1>1, <1>5, <1>9 DEF Running, Queued, SlotOf
<1>11. CalledInOrder'
  BY <1>1, <1>5 DEF Running, CalledInOrder
<1>12. SentInOrder'
  BY <1>1, <1>5, <1>9 DEF Running, SentInOrder, WasSent, ByThread
<1> QED BY <1>6, <1>8, <1>10, <1>11, <1>12 DEF Running

LEMMA TakenFacts ==
  ASSUME Types, Running
  PROVE  /\ Len(accepted) \in Nat /\ Len(called) \in Nat /\ Len(queue) \in Nat
         /\ Taken \in Nat /\ Taken + Len(queue) = Len(accepted)
         /\ Taken = (IF InHand THEN Len(called) + 1 ELSE Len(called))
         /\ SentUpTo \in Nat /\ Len(called) <= SentUpTo /\ SentUpTo <= Taken
         /\ Outstanding \in Nat /\ Outstanding <= ArraySize
<1>1. Len(accepted) \in Nat /\ Len(called) \in Nat /\ Len(queue) \in Nat
  BY DEF Types
<1>2. Taken = (IF InHand THEN Len(called) + 1 ELSE Len(called))
  BY <1>1 DEF Taken
<1>3. Len(queue) = Len(accepted) - Taken
  BY DEF Running, Queued
<1>4. Taken \in Nat
  BY <1>1, <1>2
<1>5. SentUpTo \in Nat /\ Len(called) <= SentUpTo /\ SentUpTo <= Taken
  BY <1>1, <1>2, <1>4 DEF SentUpTo
<1>6. Outstanding \in Nat /\ Outstanding <= ArraySize
  <2>1. Len(queue) <= QSize /\ QSize \in Nat
    BY ArraySizeType DEF Running, Queued
  <2> QED BY <1>1, <1>2, <1>3, <2>1 DEF Outstanding, ArraySize
<1> QED BY <1>1, <1>2, <1>3, <1>4, <1>5, <1>6

\* The item to be filled in next is that of no event under way, but for the one
\* that is crowded then.
LEMMA NextIsFree ==
  ASSUME Types, Running, NEW n \in Turn .. Len(accepted), SlotOf(n) = currentQItem
  PROVE  n = Turn /\ Outstanding >= ArraySize
<1> DEFINE a == n - 1
           b == Len(accepted)
<1>1. /\ Turn = Len(called) + 1 /\ Len(called) \in Nat /\ b \in Nat
      /\ Outstanding = b - Len(called) /\ Outstanding <= ArraySize
      /\ ArraySize \in Nat \ {0}
  BY TakenFacts, ArraySizeType DEF Turn, Outstanding
<1>2. a \in Nat /\ a < b /\ n = a + 1
  BY <1>1
<1>3. a % ArraySize = b % ArraySize
  BY DEF Running, Filled, SlotOf
<1> HIDE DEF a, b
<1>4. ~(b - a < ArraySize)
  BY <1>1, <1>2, <1>3, PlacesDiffer
<1> QED BY <1>1, <1>2, <1>4

\* The item filled is not that of an event under way.
LEMMA FillKeeps ==
  ASSUME Types, Running, FillItem
  PROVE  Types' /\ Running'
<1> DEFINE item == [event |-> call.event, tick |-> call.number]
<1>1. /\ call.pc = "fill"
      /\ tick' = call.number
      /\ items' = [items EXCEPT ![currentQItem] = item]
      /\ call' = [call EXCEPT !.pc = "push"]
      /\ UNCHANGED <<class, currentQItem, queue, sender, endThreads, alive, calls,
                     accepted, sent, called, crowded>>
  BY DEF FillItem
<1>2. /\ call' \in [pc : CallPcs, event : Nat, number : Nat] /\ call'.pc = "push"
      /\ call'.event = call.event /\ call.event \in Nat /\ call.number \in Nat
  <2>1. "push" \in CallPcs
    BY DEF CallPcs
  <2>2. call.event \in Nat /\ call.number \in Nat
    BY DEF Types
  <2> QED BY <1>1, <2>1, <2>2, CallTypes
<1>3. item \in Items /\ item.event = call.event
  BY <1>2 DEF Items
<1> HIDE DEF item
<1>4. /\ items' \in [Slots -> Items]
      /\ items'[currentQItem] = item
      /\ \A s \in Slots : s # currentQItem => items'[s] = items[s]
  BY <1>1, <1>3 DEF Types
<1>5. Types'
  BY <1>1, <1>2, <1>4 DEF Types
<1>6. Filled'
  <2>1. ASSUME NEW n \in Turn .. Len(accepted), n \notin crowded
        PROVE  items'[SlotOf(n)].event = accepted[n]
    <3>1. SlotOf(n) # currentQItem
      BY <1>1, <2>1, NextIsFree DEF Running, Filled
    <3>2. n \in Nat \ {0}
      <4>1. Len(called) \in Nat /\ Len(accepted) \in Nat /\ Turn = Len(called) + 1
        BY TakenFacts DEF Turn
      <4> QED BY <4>1
    <3>3. SlotOf(n) \in Slots
      BY <3>2, SlotOfType
    <3>4. items[SlotOf(n)].event = accepted[n]
      BY <2>1 DEF Running, Filled
    <3> QED BY <1>4, <3>1, <3>3, <3>4
  <2>2. items'[currentQItem].event = call.event
    BY <1>3, <1>4
  <2>3. Turn' = Turn
    BY <1>1 DEF Turn
  <2> QED BY <1>1, <1>2, <2>1, <2>2, <2>3 DEF Running, Filled, SlotOf
<1>8. Taken' = Taken /\ SentUpTo' = SentUpTo /\ (InHand' <=> InHand)
  BY <1>1 DEF Taken, SentUpTo, InHand
<1>9. Queued'
  BY <1>1, <1>8 DEF Running, Queued, SlotOf
<1>10. CalledInOrder' /\ SentInOrder'
  BY <1>1, <1>8 DEF Running, CalledInOrder, SentInOrder, WasSent, ByThread
<1> QED BY <1>5, <1>6, <1>9, <1>10 DEF Running

\* The item goes on the queue under the next number.
LEMMA PushKeeps ==
  ASSUME Types, Running, PushItem
  PROVE  Types' /\ Running'
<1> DEFINE a == Len(accepted)
<1>1. /\ call.pc = "push"
      /\ Len(queue) < QSize
      /\ queue' = Append(queue, currentQItem)
      /\ currentQItem' = ItemAfter(currentQItem)
      /\ accepted' = Append(accepted, call.event)
      /\ call' = [call EXCEPT !.pc = "idle"]
      /\ UNCHANGED <<class, tick, items, sender, endThreads, alive, calls, sent, called,
                     crowded>>
  BY DEF PushItem
<1>2. /\ call' \in [pc : CallPcs, event : Nat, number : Nat] /\ call'.pc = "idle"
      /\ call.event \in Nat
  <2>1. "idle" \in CallPcs
    BY DEF CallPcs
  <2>2. call.event \in Nat
    BY DEF Types
  <2> QED BY <1>1, <2>1, <2>2, CallTypes
<1>3. /\ a \in Nat /\ Len(called) \in Nat /\ Len(queue) \in Nat
      /\ Taken \in Nat /\ Taken + Len(queue) = a
      /\ SentUpTo \in Nat /\ Len(called) <= SentUpTo /\ SentUpTo <= Taken
  BY TakenFacts
<1>h. InHand => Taken = Len(called) + 1
  BY TakenFacts
<1>4. /\ accepted' \in Seq(Nat) /\ Len(accepted') = a + 1 /\ accepted'[a + 1] = call.event
      /\ \A n \in 1 .. a : accepted'[n] = accepted[n]
      /\ DOMAIN accepted = 1 .. a /\ DOMAIN accepted' = 1 .. a + 1
  BY <1>1, <1>2 DEF Types
<1>5. /\ queue' \in Seq(Slots) /\ Len(queue') = Len(queue) + 1
      /\ queue'[Len(queue) + 1] = currentQItem
      /\ \A j \in 1 .. Len(queue) : queue'[j] = queue[j]
  BY <1>1 DEF Types
<1>6. currentQItem = a % ArraySize /\ currentQItem' = (a + 1) % ArraySize
  <2>1. currentQItem = a % ArraySize
    BY DEF Running, Filled
  <2>2. currentQItem' = ItemAfter(a % ArraySize)
    BY <1>1, <2>1
  <2> QED BY <1>3, <2>1, <2>2, NextItem
<1>7. currentQItem' \in Slots
  <2>1. a + 1 \in Nat
    BY <1>3
  <2> HIDE DEF a
  <2> QED BY <1>6, <2>1, ArraySizeType, DivMod DEF Slots
<1>8. SlotOf(a + 1) = currentQItem
  <2>1. (a + 1) - 1 = a
    BY <1>3
  <2> QED BY <1>6, <2>1 DEF SlotOf
<1> HIDE DEF a
<1>9. Types'
  BY <1>1, <1>2, <1>4, <1>5, <1>7 DEF Types
<1>11. Filled'
  <2>1. Turn' = Turn /\ Turn = Len(called) + 1
    BY <1>1 DEF Turn
  <2>2. ASSUME NEW n \in Turn .. a + 1, n \notin crowded
        PROVE  items[SlotOf(n)].event = accepted'[n]
    <3>1. CASE n \in Turn .. a
      <4>1. n \in 1 .. a
        BY <1>3, <2>1, <3>1
      <4>2. items[SlotOf(n)].event = accepted[n]
        BY <2>2, <3>1 DEF Running, Filled, a
      <4> QED BY <1>4, <4>1, <4>2
    <3>2. CASE n = a + 1
      BY <1>1, <1>4, <1>8, <3>2 DEF Running, Filled
    <3> QED BY <1>3, <2>1, <3>1, <3>2
  <2> QED BY <1>1, <1>2, <1>4, <1>6, <2>1, <2>2 DEF Filled, SlotOf
<1>12. Taken' = Taken /\ SentUpTo' = SentUpTo /\ (InHand' <=> InHand)
  BY <1>1 DEF Taken, SentUpTo, InHand
<1>13. Queued'
  <2>1. Len(queue') = Len(accepted') - Taken'
    <3>1. Len(queue') = Len(queue) + 1 /\ Len(accepted') = a + 1 /\ Taken' = Taken
      BY <1>4, <1>5, <1>12
    <3>2. Len(queue) + 1 = (a + 1) - Taken
      BY <1>3
    <3> QED BY <3>1, <3>2
  <2>5. Len(queue') <= QSize
    BY <1>1, <1>3, <1>5, ArraySizeType
  <2>2. ASSUME NEW j \in 1 .. Len(queue') PROVE queue'[j] = SlotOf(Taken + j)
    <3>1. CASE j \in 1 .. Len(queue)
      BY <1>5, <3>1 DEF Running, Queued
    <3>2. CASE j = Len(queue) + 1
      <4>1. Taken + j = a + 1
        BY <1>3, <3>2
      <4> QED BY <1>5, <1>8, <3>2, <4>1
    <3> QED BY <1>3, <1>5, <3>1, <3>2
  <2>3. InHand => accepted'[Taken] = accepted[Taken]
    <3>1. InHand => Taken \in 1 .. a
      BY <1>3, <1>h
    <3> QED BY <1>4, <3>1
  <2>4. sender[SendThread].pc \in {"enter", "send", "sync", "return"} => InHand
    BY DEF InHand
  <2> QED BY <1>1, <1>12, <2>1, <2>2, <2>3, <2>4, <2>5 DEF Running, Queued, SlotOf
<1>14. CalledInOrder'
  <2>1. /\ Len(called) <= a
        /\ \A n \in DOMAIN called : n \notin crowded => called[n] = accepted[n]
    BY DEF Running, CalledInOrder, a
  <2>2. DOMAIN called = 1 .. Len(called)
    BY DEF Types
  <2>3. \A n \in DOMAIN called : n \in 1 .. a
    BY <1>3, <2>1, <2>2
  <2>4. \A n \in DOMAIN called : n \notin crowded => called[n] = accepted'[n]
    BY <1>4, <2>1, <2>3
  <2>5. Len(called) <= Len(accepted')
    BY <1>3, <1>4, <2>1
  <2> QED BY <1>1, <2>4, <2>5 DEF CalledInOrder
<1>15. SentInOrder'
  <2>1. \A n \in 1 .. SentUpTo : accepted'[n] = accepted[n]
    <3>1. \A n \in 1 .. SentUpTo : n \in 1 .. a
      BY <1>3
    <3> QED BY <1>4, <3>1
  <2>2. ByThread' = ByThread /\ sent' = sent /\ SentUpTo' = SentUpTo /\ crowded' = crowded
    BY <1>1, <1>12 DEF ByThread
  <2>3. \A n \in 1 .. SentUpTo : WasSent(n) => WasSent(n)'
    BY <2>1, <2>2 DEF WasSent
  <2>4. \A i \in ByThread : sent[i].turn \in 1 .. SentUpTo
    BY DEF Running, SentInOrder
  <2> QED BY <2>1, <2>2, <2>3, <2>4 DEF Running, SentInOrder
<1> QED BY <1>9, <1>11, <1>13, <1>14, <1>15 DEF Running

LEMMA QueueFullKeeps ==
  ASSUME Types, Running, QueueFull
  PROVE  Types' /\ Running'
<1>1. /\ call' = [call EXCEPT !.pc = "idle"]
      /\ UNCHANGED <<class, tick, items, currentQItem, queue, sender, endThreads, alive,
                     calls, accepted, sent, called, crowded>>
  BY DEF QueueFull
<1>2. call' \in [pc : CallPcs, event : Nat, number : Nat] /\ call'.pc = "idle"
  <2>1. "idle" \in CallPcs
    BY DEF CallPcs
  <2> QED BY <1>1, <2>1, CallTypes
<1>3. Types'
  BY <1>1, <1>2 DEF Types
<1> QED BY <1>1, <1>2, <1>3, QuietStep

-----------------------------------------------------------------------------
(* The steps of the sending thread.                                        *)

LEMMA PopKeeps ==
  ASSUME Types, Running, PopItem
  PROVE  Types' /\ Running'
<1> DEFINE r == [sender[SendThread] EXCEPT !.pc = "popped", !.slot = Head(queue)]
<1>1. /\ sender[SendThread].pc = "out"
      /\ queue # << >>
      /\ sender' = [sender EXCEPT ![SendThread] = r]
      /\ queue' = Tail(queue)
      /\ UNCHANGED <<class, tick, items, currentQItem, call, endThreads, alive, calls,
                     accepted, sent, called, crowded>>
  BY DEF PopItem
<1>2. /\ Head(queue) = queue[1] /\ Head(queue) \in Slots
      /\ queue' \in Seq(Slots) /\ Len(queue) \in Nat \ {0} /\ Len(queue') = Len(queue) - 1
      /\ \A j \in 1 .. Len(queue') : queue'[j] = queue[j + 1]
  BY <1>1 DEF Types
<1>3. r \in Callers /\ r.pc = "popped" /\ r.slot = queue[1]
  <2>1. sender[SendThread] \in Callers
    BY DEF Types, Threads
  <2> QED BY <1>2, <2>1 DEF Callers, Pcs
<1> HIDE DEF r
<1>4. sender' \in [Threads -> Callers] /\ sender'[SendThread] = r
  BY <1>1, <1>3, SenderSet DEF Threads
<1>5. Types'
  BY <1>1, <1>2, <1>4 DEF Types
<1>6. Filled' /\ CalledInOrder'
  BY <1>1 DEF Running, Filled, CalledInOrder, SlotOf, Turn, Outstanding
<1>7. /\ Len(called) \in Nat /\ Len(accepted) \in Nat
      /\ Taken = Len(called) /\ Taken' = Len(called) + 1 /\ InHand'
      /\ SentUpTo = Len(called) /\ SentUpTo' = Len(called)
      /\ Taken + Len(queue) = Len(accepted)
  <2>1. ~InHand /\ InHand'
    BY <1>1, <1>3, <1>4 DEF InHand
  <2>2. Taken' = Len(called) + 1
    BY <1>1, <2>1 DEF Taken
  <2>3. SentUpTo = Len(called) /\ SentUpTo' = Len(called)
    BY <1>1, <1>3, <1>4 DEF SentUpTo
  <2> QED BY <2>1, <2>2, <2>3, TakenFacts
<1>8. Queued'
  <2>1. \A j \in 1 .. Len(queue) : queue[j] = SlotOf(Len(called) + j)
    BY <1>7 DEF Running, Queued
  <2>2. Len(queue') = Len(accepted') - Taken' /\ Len(queue') <= QSize
    <3>1. Len(queue) <= QSize /\ QSize \in Nat
      BY ArraySizeType DEF Running, Queued
    <3> QED BY <1>1, <1>2, <1>7, <3>1
  <2>3. ASSUME NEW j \in 1 .. Len(queue') PROVE queue'[j] = SlotOf(Taken' + j)
    <3>1. j + 1 \in 1 .. Len(queue) /\ Taken' + j = Len(called) + (j + 1)
      BY <1>2, <1>7
    <3> QED BY <1>2, <2>1, <3>1
  <2>4. sender'[SendThread].slot = SlotOf(Taken')
    <3>1. 1 \in 1 .. Len(queue)
      BY <1>2
    <3> QED BY <1>3, <1>4, <1>7, <2>1, <3>1
  <2> QED BY <1>3, <1>4, <2>2, <2>3, <2>4 DEF Queued, SlotOf
<1>9. SentInOrder'
  BY <1>1, <1>7 DEF Running, SentInOrder, WasSent, ByThread
<1> QED BY <1>5, <1>6, <1>8, <1>9 DEF Running

\* A step of the thread with an event in hand.
LEMMA HandKeeps ==
  ASSUME Types, Running,
         UNCHANGED <<items, currentQItem, queue, call, calls, accepted, called, crowded>>,
         InHand, InHand',
         sender'[SendThread].slot = sender[SendThread].slot,
         sender'[SendThread].pc \in {"enter", "send", "sync", "return"} =>
            Taken \in crowded \/ sender'[SendThread].event = accepted[Taken],
         sender'[SendThread].pc \in {"send", "sync"} =>
            sender'[SendThread].event \notin EmptyEvents,
         SentInOrder'
  PROVE  Running'
<1>1. Filled' /\ CalledInOrder'
  BY DEF Running, Filled, CalledInOrder, SlotOf, Turn, Outstanding
<1>2. Taken' = Taken
  BY DEF Taken
<1>3. Queued'
  BY <1>2 DEF Running, Queued, SlotOf
<1> QED BY <1>1, <1>3 DEF Running

\* What was put on the queue is what is read, for the item was not filled again,
\* nor is it being filled, but for a crowded event.
LEMMA InItem ==
  ASSUME Types, Running, InHand
  PROVE  /\ Taken = Turn /\ Taken = Len(called) + 1 /\ Taken \in DOMAIN accepted
         /\ \A item \in ItemAsRead : /\ item.event \in Nat /\ item.tick \in Nat
                                     /\ Taken \in crowded \/ item.event = accepted[Taken]
<1> DEFINE s == sender[SendThread].slot
<1>1. /\ Taken = Len(called) + 1 /\ Taken = Turn /\ Taken <= Len(accepted)
      /\ Len(called) \in Nat /\ Len(accepted) \in Nat
  <2>1. /\ Len(called) \in Nat /\ Len(accepted) \in Nat /\ Len(queue) \in Nat
        /\ Taken + Len(queue) = Len(accepted) /\ Taken \in Nat
    BY TakenFacts
  <2>2. Taken = Len(called) + 1
    BY TakenFacts
  <2> QED BY <2>1, <2>2 DEF Turn
<1>2. Taken \in Turn .. Len(accepted) /\ Taken \in 1 .. Len(accepted)
  BY <1>1
<1>3. DOMAIN accepted = 1 .. Len(accepted)
  BY DEF Types
<1>4. s = SlotOf(Taken)
  BY DEF Running, Queued
<1>5. s \in Slots /\ items[s] \in Items
  BY DEF Types, Threads, Callers
<1>6. Taken \in crowded \/ items[s].event = accepted[Taken]
  BY <1>2, <1>4 DEF Running, Filled
<1>7. ASSUME call.pc = "fill", s = currentQItem PROVE Taken \in crowded
  <2>1. Outstanding >= ArraySize
    BY <1>2, <1>4, <1>7, NextIsFree
  <2> QED BY <1>1, <1>7, <2>1 DEF Running, Filled
<1>8. call.number \in Nat
  BY DEF Types
<1> HIDE DEF s
<1>9. ASSUME NEW item \in ItemAsRead
      PROVE  /\ item.event \in Nat /\ item.tick \in Nat
             /\ Taken \in crowded \/ item.event = accepted[Taken]
  <2>1. \/ item = items[s]
        \/ /\ call.pc = "fill" /\ s = currentQItem
           /\ item \in [event : {NoEvent}, tick : {items[s].tick, call.number}]
    BY DEF ItemAsRead, s
  <2>2. CASE item = items[s]
    BY <1>5, <1>6, <2>2 DEF Items
  <2>3. CASE /\ call.pc = "fill" /\ s = currentQItem
             /\ item \in [event : {NoEvent}, tick : {items[s].tick, call.number}]
    <3>1. items[s].tick \in Nat
      BY <1>5 DEF Items
    <3>2. item.event = NoEvent /\ item.tick \in {items[s].tick, call.number}
      BY <2>3
    <3>3. item.event \in Nat /\ item.tick \in Nat
      BY <1>8, <3>1, <3>2 DEF NoEvent
    <3> QED BY <1>7, <2>3, <3>3
  <2> QED BY <2>1, <2>2, <2>3
<1> QED BY <1>1, <1>2, <1>3, <1>9

LEMMA ReadKeeps ==
  ASSUME Types, Running, ReadItem
  PROVE  Types' /\ Running'
<1>0. /\ sender[SendThread].pc = "popped"
      /\ UNCHANGED <<class, tick, items, currentQItem, queue, call, endThreads, alive, calls,
                     accepted, sent, called, crowded>>
  BY DEF ReadItem
<1>1. PICK item \in ItemAsRead :
         sender' = [sender EXCEPT ![SendThread] = [@ EXCEPT !.pc = "enter",
                                                           !.event = item.event,
                                                           !.number = item.tick]]
  BY DEF ReadItem
<1> DEFINE r == [sender[SendThread] EXCEPT !.pc = "enter", !.event = item.event,
                                           !.number = item.tick]
<1>2. sender[SendThread] \in Callers
  BY DEF Types, Threads
<1>3. InHand
  BY <1>0 DEF InHand
<1>4. /\ item.event \in Nat /\ item.tick \in Nat
      /\ Taken \in crowded \/ item.event = accepted[Taken]
  BY <1>3, InItem
<1>5. r \in Callers /\ r.pc = "enter" /\ r.slot = sender[SendThread].slot
      /\ r.event = item.event
  BY <1>2, <1>4 DEF Callers, Pcs
<1>6. sender' \in [Threads -> Callers] /\ sender'[SendThread] = r
  <2>1. sender' = [sender EXCEPT ![SendThread] = r]
    BY <1>1
  <2> HIDE DEF r
  <2> QED BY <1>5, <2>1, SenderSet DEF Threads
<1> HIDE DEF r
<1>7. Types'
  BY <1>0, <1>6 DEF Types
<1>8. SentInOrder'
  <2>1. SentUpTo' = SentUpTo
    BY <1>0, <1>5, <1>6 DEF SentUpTo
  <2> QED BY <1>0, <2>1 DEF Running, SentInOrder, WasSent, ByThread
<1>9. InHand'
  BY <1>5, <1>6 DEF InHand
<1> QED BY <1>0, <1>3, <1>4, <1>5, <1>6, <1>7, <1>8, <1>9, HandKeeps

\* What a thread sends.
LEMMA SendAppends ==
  ASSUME Types, NEW m \in Sends, sent' = Append(sent, m)
  PROVE  /\ sent' \in Seq(Sends)
         /\ m.by = User => /\ ByThread' = ByThread
                           /\ \A i \in ByThread : sent'[i] = sent[i]
         /\ m.by = SendThread =>
               /\ ByThread' = ByThread \cup {Len(sent) + 1}
               /\ \A i \in ByThread : sent'[i] = sent[i] /\ i < Len(sent) + 1
               /\ sent'[Len(sent) + 1] = m
         /\ ByThread \subseteq Nat /\ Len(sent) \in Nat
<1>1. /\ sent' \in Seq(Sends) /\ Len(sent) \in Nat
      /\ DOMAIN sent = 1 .. Len(sent) /\ DOMAIN sent' = 1 .. Len(sent) + 1
      /\ sent'[Len(sent) + 1] = m
      /\ \A i \in 1 .. Len(sent) : sent'[i] = sent[i]
  BY DEF Types
<1>2. ByThread \subseteq 1 .. Len(sent)
  BY <1>1 DEF ByThread
<1>3. CASE m.by = SendThread
  <2>1. m.by # User
    BY <1>3 DEF SendThread, User
  <2>2. ByThread' = ByThread \cup {Len(sent) + 1}
    BY <1>1, <1>3 DEF ByThread
  <2> QED BY <1>1, <1>2, <2>1, <2>2
<1>4. CASE m.by = User
  <2>1. m.by # SendThread
    BY <1>4 DEF SendThread, User
  <2>2. ByThread' = ByThread
    BY <1>1, <2>1 DEF ByThread
  <2> QED BY <1>1, <1>2, <2>1, <2>2
<1>5. CASE m.by \notin {User, SendThread}
  BY <1>5 DEF Sends, Threads
<1> QED BY <1>3, <1>4, <1>5

\* The thread sends the event it has in hand, which is above those before it.
LEMMA TransmitKeeps ==
  ASSUME Types, Running, Transmit(SendThread)
  PROVE  Types' /\ Running'
<1> DEFINE m == [by |-> SendThread, event |-> sender[SendThread].event, number |-> tick,
                  turn |-> Turn]
           p == IF Direct \/ class = "serverProducer" THEN "return" ELSE "sync"
           k == Len(sent) + 1
<1>1. /\ sender[SendThread].pc = "send"
      /\ sent' = Append(sent, m)
      /\ sender' = [sender EXCEPT ![SendThread].pc = p]
      /\ UNCHANGED <<class, tick, items, currentQItem, queue, call, endThreads, alive,
                     calls, accepted, called, crowded>>
  BY Zenon DEF Transmit
<1>2. p \in {"return", "sync"} /\ p \in Pcs /\ SendThread \in Threads
  BY DEF Pcs, Threads
<1> HIDE DEF p
<1>3. Goes(SendThread, p)
  BY <1>1, <1>2, PcSet
<1>4. InHand /\ InHand'
  BY <1>1, <1>2, <1>3 DEF InHand, Goes
<1>5. /\ Taken \in crowded \/ m.event = accepted[Taken]
      /\ m.event = sender[SendThread].event /\ m.by = SendThread
      /\ m.turn = Taken /\ Taken = Turn /\ Turn \in Nat
  <2>1. Taken = Turn /\ Turn = Len(called) + 1 /\ Len(called) \in Nat
    BY <1>4, InItem, TakenFacts
  <2> QED BY <1>1, <2>1 DEF Running, Queued
<1>6. m \in Sends
  <2>1. sender[SendThread].event \in Nat /\ tick \in Nat
    BY DEF Types, Threads, Callers
  <2> QED BY <1>5, <2>1 DEF Sends, Threads
<1> HIDE DEF m
<1>7. /\ sent' \in Seq(Sends)
      /\ ByThread' = ByThread \cup {k}
      /\ \A i \in ByThread : sent'[i] = sent[i] /\ i < k
      /\ sent'[k] = m
      /\ ByThread \subseteq Nat /\ k \in Nat
  <2>1. sent' = Append(sent, m) /\ m.by = SendThread /\ m \in Sends
    BY <1>1, <1>5, <1>6
  <2>2. /\ sent' \in Seq(Sends) /\ ByThread \subseteq Nat /\ Len(sent) \in Nat
        /\ ByThread' = ByThread \cup {Len(sent) + 1}
        /\ \A i \in ByThread : sent'[i] = sent[i] /\ i < Len(sent) + 1
        /\ sent'[Len(sent) + 1] = m
    BY <2>1, SendAppends, Zenon
  <2> QED BY <2>2
<1> HIDE DEF k
<1>8. Types'
  BY <1>1, <1>3, <1>7 DEF Types, Goes
<1>9. SentUpTo = Len(called) /\ SentUpTo' = Taken /\ Taken = Len(called) + 1
      /\ Taken \in DOMAIN accepted /\ Len(called) \in Nat
  <2>1. Taken' = Taken
    BY <1>1, <1>4 DEF Taken
  <2>2. SentUpTo' = Taken
    BY <1>2, <1>3, <2>1 DEF SentUpTo, Goes
  <2>3. SentUpTo = Len(called)
    BY <1>1 DEF SentUpTo
  <2> QED BY <1>4, <2>2, <2>3, InItem, TakenFacts
<1>10. \A i \in ByThread : sent[i].turn \in 1 .. Len(called)
  BY <1>9 DEF Running, SentInOrder
<1>11. SentInOrder'
  <2>1. ASSUME NEW i \in ByThread', NEW j \in ByThread', i < j
        PROVE  sent'[i].turn < sent'[j].turn
    <3>1. i \in ByThread
      BY <1>7, <2>1
    <3>2. CASE j \in ByThread
      BY <1>7, <2>1, <3>1, <3>2 DEF Running, SentInOrder
    <3>3. CASE j = k
      <4>1. sent'[i].turn = sent[i].turn /\ sent'[j].turn = Taken
        BY <1>5, <1>7, <3>1, <3>3
      <4>2. sent[i].turn \in 1 .. Len(called)
        BY <1>10, <3>1
      <4> QED BY <1>9, <4>1, <4>2
    <3> QED BY <1>7, <3>2, <3>3
  <2>2. ASSUME NEW i \in ByThread'
        PROVE  /\ sent'[i].turn \in 1 .. Taken
               /\ sent'[i].turn \notin crowded => sent'[i].event = accepted[sent'[i].turn]
    <3>1. CASE i \in ByThread
      <4>1. sent[i].turn \notin crowded => sent[i].event = accepted[sent[i].turn]
        BY <3>1 DEF Running, SentInOrder
      <4>2. sent[i].turn \in 1 .. Taken
        BY <1>9, <1>10, <3>1
      <4> QED BY <1>7, <3>1, <4>1, <4>2
    <3>2. CASE i = k
      BY <1>5, <1>7, <1>9, <3>2
    <3> QED BY <1>7, <3>1, <3>2
  <2>3. ASSUME NEW n \in 1 .. Taken, n \notin crowded, accepted[n] \notin EmptyEvents
        PROVE  \E i \in ByThread' : sent'[i].turn = n /\ sent'[i].event = accepted[n]
    <3>1. CASE n \in 1 .. Len(called)
      <4>1. WasSent(n)
        BY <1>9, <2>3, <3>1 DEF Running, SentInOrder
      <4>2. PICK i \in ByThread : sent[i].turn = n /\ sent[i].event = accepted[n]
        BY <4>1 DEF WasSent
      <4> QED BY <1>7, <4>2
    <3>2. CASE n = Taken
      BY <1>5, <1>7, <2>3, <3>2
    <3> QED BY <1>9, <3>1, <3>2
  <2>4. SentUpTo' = Taken /\ accepted' = accepted /\ crowded' = crowded
    BY <1>1, <1>9
  <2> QED BY <2>1, <2>2, <2>3, <2>4 DEF SentInOrder, WasSent
<1>12. /\ Taken \in crowded \/ sender'[SendThread].event = accepted[Taken]
       /\ sender'[SendThread].event \notin EmptyEvents
       /\ sender'[SendThread].slot = sender[SendThread].slot
  BY <1>1, <1>3, <1>5 DEF Goes, Running, Queued
<1> QED BY <1>1, <1>4, <1>8, <1>11, <1>12, HandKeeps

\* Steps of sendEvent() after which the thread still has its event in hand.
LEMMA SendStepKeeps ==
  ASSUME Types, Running,
         SkipEmpty(SendThread) \/ SetTick(SendThread) \/ SendSyncMsg(SendThread)
  PROVE  Types' /\ Running'
<1> DEFINE ev == sender[SendThread].event
           at == sender[SendThread].pc
<1>0. SendThread \in Threads /\ {"return", "send"} \subseteq Pcs
  BY DEF Threads, Pcs
<1>1. PICK p \in {"return", "send"} :
         /\ sender' = [sender EXCEPT ![SendThread].pc = p]
         /\ \/ at = "enter" /\ ev \in EmptyEvents /\ p = "return"
            \/ at = "enter" /\ ev \notin EmptyEvents /\ p = "send"
            \/ at = "sync" /\ p = "return"
  <2>1. CASE SkipEmpty(SendThread)
    BY <2>1, Zenon DEF SkipEmpty
  <2>2. CASE SetTick(SendThread)
    BY <2>2, Zenon DEF SetTick
  <2>3. CASE SendSyncMsg(SendThread)
    BY <2>3, Zenon DEF SendSyncMsg
  <2> QED BY <2>1, <2>2, <2>3
<1>2. /\ tick' = tick \/ tick' = sender[SendThread].number
      /\ UNCHANGED <<items, currentQItem, queue, call, calls, accepted, sent, called, crowded>>
  BY DEF SkipEmpty, SetTick, SendSyncMsg
<1>3. p \in Pcs
  BY <1>0, <1>1
<1>4. Goes(SendThread, p)
  BY <1>0, <1>1, <1>3, PcSet
<1>5. Types'
  <2>1. sender[SendThread].number \in Nat
    BY <1>0 DEF Types, Callers
  <2>2. tick' \in Nat
    BY <1>2, <2>1 DEF Types
  <2> QED BY <1>2, <1>4, <2>2 DEF Types, Goes
<1>6. InHand /\ InHand'
  BY <1>1, <1>4 DEF InHand, Goes
<1>7. Taken \in crowded \/ ev = accepted[Taken]
  BY <1>1 DEF Running, Queued
<1>8. Taken' = Taken
  BY <1>2, <1>6 DEF Taken
<1>9. SentInOrder'
  <2>1. CASE SentUpTo' = SentUpTo
    BY <1>2, <2>1 DEF Running, SentInOrder, WasSent, ByThread
  <2>2. CASE at = "enter" /\ p = "return" /\ ev \in EmptyEvents
    <3>1. SentUpTo = Len(called) /\ SentUpTo' = Taken
      BY <1>4, <1>8, <2>2 DEF SentUpTo, Goes
    <3>2. Taken = Len(called) + 1 /\ Len(called) \in Nat
      BY <1>6, InItem, TakenFacts
    <3>3. \A n \in 1 .. Taken : n \in 1 .. Len(called) \/ n = Taken
      BY <3>2
    <3>4. \A n \in 1 .. Len(called) : n \in 1 .. Taken
      BY <3>2
    <3>5. Taken \in crowded \/ accepted[Taken] \in EmptyEvents
      BY <1>7, <2>2
    <3> QED BY <1>2, <3>1, <3>3, <3>4, <3>5 DEF Running, SentInOrder, WasSent, ByThread
  <2>3. \/ SentUpTo' = SentUpTo
        \/ at = "enter" /\ p = "return" /\ ev \in EmptyEvents
    <3>1. CASE at = "enter" /\ p = "send"
      BY <1>2, <1>4, <3>1 DEF SentUpTo, Goes
    <3>2. CASE at = "sync" /\ p = "return"
      BY <1>4, <1>8, <3>2 DEF SentUpTo, Goes
    <3> QED BY <1>1, <3>1, <3>2
  <2> QED BY <2>1, <2>2, <2>3
<1>10. p = "send" => ev \notin EmptyEvents
  BY <1>1
<1>11. /\ sender'[SendThread].pc = p /\ sender'[SendThread].event = ev
       /\ sender'[SendThread].slot = sender[SendThread].slot
  BY <1>4 DEF Goes
<1> QED BY <1>1, <1>2, <1>5, <1>6, <1>7, <1>9, <1>10, <1>11, HandKeeps

\* The callback run is that of the event in hand.
LEMMA CallbackKeeps ==
  ASSUME Types, Running, RunCallback
  PROVE  Types' /\ Running'
<1> DEFINE p == IF endThreads THEN "ended" ELSE "out"
           c == Len(called)
<1>1. /\ sender[SendThread].pc = "return"
      /\ \E x \in CallbackOf : called' = Append(called, x)
      /\ sender' = [sender EXCEPT ![SendThread].pc = p]
      /\ UNCHANGED <<class, tick, items, currentQItem, queue, call, endThreads, alive,
                     calls, accepted, sent, crowded>>
  BY Zenon DEF RunCallback
<1>2. p \in {"ended", "out"} /\ p \in Pcs /\ SendThread \in Threads
  BY DEF Pcs, Threads
<1> HIDE DEF p
<1>3. Goes(SendThread, p)
  BY <1>1, <1>2, PcSet
<1>4. InHand /\ ~InHand'
  BY <1>1, <1>2, <1>3 DEF InHand, Goes
<1>e. PICK e \in CallbackOf : called' = Append(called, e)
  BY <1>1
<1>5. /\ Taken = c + 1 /\ Taken = Turn /\ Taken \in DOMAIN accepted /\ e \in Nat
      /\ Taken \in crowded \/ e = accepted[Taken]
  <2>1. PICK item \in ItemAsRead : e = item.event
    BY DEF CallbackOf
  <2> QED BY <1>4, <2>1, InItem
<1>6. /\ c \in Nat /\ Len(accepted) \in Nat /\ DOMAIN accepted = 1 .. Len(accepted)
      /\ DOMAIN called = 1 .. c
  BY DEF Types
<1>7. /\ called' \in Seq(Nat) /\ Len(called') = c + 1 /\ DOMAIN called' = 1 .. c + 1
      /\ called'[c + 1] = e /\ \A n \in 1 .. c : called'[n] = called[n]
  BY <1>e, <1>5 DEF Types
<1>t. Turn = c + 1 /\ Turn' = c + 2 /\ Outstanding' = Outstanding - 1
      /\ Outstanding \in Nat /\ Outstanding <= ArraySize
  BY <1>1, <1>6, <1>7, TakenFacts DEF Turn, Outstanding
<1> HIDE DEF c
<1>8. Types'
  BY <1>1, <1>3, <1>7 DEF Types, Goes
<1>10. Filled'
  <2>1. ~(Outstanding' >= ArraySize)
    BY <1>t, ArraySizeType
  <2>2. \A n \in c + 2 .. Len(accepted) : n \in Turn .. Len(accepted)
    BY <1>6, <1>t
  <2> QED BY <1>1, <1>t, <2>1, <2>2 DEF Running, Filled, SlotOf
<1>11. Taken' = Taken /\ SentUpTo' = Taken /\ SentUpTo = Taken
  <2>1. Taken' = c + 1
    BY <1>4, <1>7 DEF Taken
  <2>2. SentUpTo' = c + 1
    BY <1>2, <1>3, <1>7 DEF SentUpTo, Goes
  <2>3. SentUpTo = Taken
    BY <1>1 DEF SentUpTo
  <2> QED BY <1>5, <2>1, <2>2, <2>3
<1>12. Queued'
  <2>1. sender'[SendThread].pc \in {"ended", "out"}
    BY <1>2, <1>3 DEF Goes
  <2> QED BY <1>1, <1>4, <1>11, <2>1 DEF Running, Queued, SlotOf
<1>13. CalledInOrder'
  <2>1. \A n \in 1 .. c : n \notin crowded => called[n] = accepted[n]
    BY <1>6 DEF Running, CalledInOrder
  <2>2. ASSUME NEW n \in 1 .. c + 1, n \notin crowded PROVE called'[n] = accepted[n]
    <3>1. CASE n \in 1 .. c
      BY <1>7, <2>1, <2>2, <3>1
    <3>2. CASE n = c + 1
      BY <1>5, <1>7, <2>2, <3>2
    <3> QED BY <1>6, <3>1, <3>2
  <2>3. c + 1 <= Len(accepted)
    BY <1>5, <1>6
  <2> QED BY <1>1, <1>7, <2>2, <2>3 DEF CalledInOrder
<1>14. SentInOrder'
  BY <1>1, <1>11 DEF Running, SentInOrder, WasSent, ByThread
<1> QED BY <1>8, <1>10, <1>12, <1>13, <1>14 DEF Running

-----------------------------------------------------------------------------
(* The user's own calls of sendEvent().                                    *)

LEMMA UserSendKeeps ==
  ASSUME Types, Running, Transmit(User)
  PROVE  Types' /\ Running'
<1> DEFINE m == [by |-> User, event |-> sender[User].event, number |-> tick,
                  turn |-> Turn]
           p == IF Direct \/ class = "serverProducer" THEN "return" ELSE "sync"
<1>1. /\ sent' = Append(sent, m)
      /\ sender' = [sender EXCEPT ![User].pc = p]
      /\ UNCHANGED <<class, tick, items, currentQItem, queue, call, endThreads, alive,
                     calls, accepted, called, crowded>>
  BY Zenon DEF Transmit
<1>2. p \in Pcs /\ User \in Threads /\ SendThread \in Threads /\ SendThread # User
  BY DEF Pcs, Threads, SendThread, User
<1> HIDE DEF p
<1>3. sender' \in [Threads -> Callers] /\ sender'[SendThread] = sender[SendThread]
  <2>1. Goes(User, p)
    BY <1>1, <1>2, PcSet
  <2> QED BY <1>2, <2>1 DEF Goes
<1>4. m \in Sends /\ m.by = User
  <2>1. sender[User].event \in Nat /\ tick \in Nat
    BY <1>2 DEF Types, Callers
  <2>2. Turn \in Nat
    BY DEF Types, Turn
  <2> QED BY <1>2, <2>1, <2>2 DEF Sends
<1> HIDE DEF m
<1>5. /\ sent' \in Seq(Sends)
      /\ ByThread' = ByThread /\ \A i \in ByThread : sent'[i] = sent[i]
  BY <1>1, <1>4, SendAppends, Zenon
<1>6. Types'
  BY <1>1, <1>3, <1>5 DEF Types
<1>7. Filled' /\ CalledInOrder'
  BY <1>1 DEF Running, Filled, CalledInOrder, SlotOf, Turn, Outstanding
<1>8. Taken' = Taken /\ SentUpTo' = SentUpTo /\ (InHand' <=> InHand)
  BY <1>1, <1>3 DEF Taken, SentUpTo, InHand
<1>9. Queued'
  BY <1>1, <1>3, <1>8 DEF Running, Queued, SlotOf
<1>10. SentInOrder'
  <2>1. \A n \in 1 .. SentUpTo : WasSent(n) => WasSent(n)'
    BY <1>1, <1>5 DEF WasSent
  <2> QED BY <1>1, <1>5, <1>8, <2>1 DEF Running, SentInOrder
<1> QED BY <1>6, <1>7, <1>9, <1>10 DEF Running

LEMMA UserStepKeeps ==
  ASSUME Types, Running,
         \/ SkipEmpty(User) \/ SetTick(User) \/ SendSyncMsg(User) \/ SendFails(User)
         \/ CallSendEvent \/ UserReturns \/ Destroy
  PROVE  Types' /\ Running'
<1>0. /\ User \in Threads /\ SendThread \in Threads /\ SendThread # User
      /\ {"return", "send", "out", "enter"} \subseteq Pcs /\ calls \in Nat /\ tick \in Nat
  BY DEF Threads, SendThread, User, Pcs, Types
<1>1. /\ UNCHANGED <<items, currentQItem, queue, call, accepted, called, sent, crowded>>
      /\ calls' \in Nat /\ calls <= calls'
  BY <1>0 DEF SkipEmpty, SetTick, SendSyncMsg, SendFails, CallSendEvent, UserReturns, Destroy
<1>2. /\ sender' \in [Threads -> Callers] /\ sender'[SendThread] = sender[SendThread]
      /\ tick' \in Nat
  <2>1. CASE SkipEmpty(User) \/ SendSyncMsg(User)
    <3>1. sender' = [sender EXCEPT ![User].pc = "return"] /\ tick' = tick
      BY <2>1, Zenon DEF SkipEmpty, SendSyncMsg
    <3>2. Goes(User, "return")
      BY <1>0, <3>1, PcSet
    <3> QED BY <1>0, <3>1, <3>2 DEF Goes
  <2>2. CASE SetTick(User)
    <3>1. sender' = [sender EXCEPT ![User].pc = "send"] /\ tick' = sender[User].number
      BY <2>2, Zenon DEF SetTick
    <3>2. Goes(User, "send")
      BY <1>0, <3>1, PcSet
    <3>3. sender[User].number \in Nat
      BY <1>0 DEF Types, Callers
    <3> QED BY <1>0, <3>1, <3>2, <3>3 DEF Goes
  <2>3. CASE SendFails(User)
    <3>1. sender' = [sender EXCEPT ![User].pc = "out"] /\ tick' = tick
      BY <2>3, Zenon DEF SendFails
    <3>2. Goes(User, "out")
      BY <1>0, <3>1, PcSet
    <3> QED BY <1>0, <3>1, <3>2 DEF Goes
  <2>4. CASE CallSendEvent
    <3> DEFINE r == [pc |-> "enter", slot |-> 0, event |-> calls', number |-> NumberOf(calls')]
    <3>1. sender' = [sender EXCEPT ![User] = r] /\ tick' = TickAfterSendEvent
      BY <2>4 DEF CallSendEvent
    <3>2. NumberOf(calls') \in Nat /\ tick' \in Nat
      BY <1>0, <1>1, <3>1 DEF NumberOf, TickAfterSendEvent, TickAfterCall
    <3>3. r \in Callers
      BY <1>0, <1>1, <3>2, ArraySizeType DEF Callers, Slots
    <3> HIDE DEF r
    <3> QED BY <1>0, <3>1, <3>2, <3>3, SenderSet
  <2>5. CASE UserReturns
    <3>1. sender' = [sender EXCEPT ![User] = NotSending] /\ tick' = TickAfterReturn
      BY <2>5 DEF UserReturns
    <3>2. tick' \in Nat
      BY <1>0, <3>1 DEF TickAfterReturn
    <3>3. NotSending \in Callers
      BY <1>0, ArraySizeType DEF NotSending, NoEvent, Callers, Slots
    <3> QED BY <1>0, <3>1, <3>2, <3>3, SenderSet
  <2>6. CASE Destroy
    BY <1>0, <2>6 DEF Destroy, Types
  <2> QED BY <2>1, <2>2, <2>3, <2>4, <2>5, <2>6
<1>3. Types'
  BY <1>1, <1>2 DEF Types
<1> QED BY <1>1, <1>2, <1>3, QuietStep

-----------------------------------------------------------------------------
(* Every step.                                                             *)

\* What is done is right while the process runs.
LEMMA RunningIsRight ==
  ASSUME Types, Running
  PROVE  SentAsAccepted /\ CallbackAfterSend
<1>1. /\ SentUpTo \in Nat /\ Len(called) <= SentUpTo /\ SentUpTo <= Len(accepted)
      /\ Len(accepted) \in Nat /\ Len(called) \in Nat
  <2>1. /\ SentUpTo \in Nat /\ Taken \in Nat /\ Len(queue) \in Nat
        /\ Len(called) <= SentUpTo /\ SentUpTo <= Taken /\ Taken + Len(queue) = Len(accepted)
        /\ Len(accepted) \in Nat /\ Len(called) \in Nat
    BY TakenFacts
  <2> QED BY <2>1
<1>2. DOMAIN accepted = 1 .. Len(accepted) /\ DOMAIN called = 1 .. Len(called)
  BY DEF Types
<1>3. \A n \in 1 .. SentUpTo : n \in crowded \/ accepted[n] \in EmptyEvents \/ WasSent(n)
  BY DEF Running, SentInOrder
<1>4. ASSUME NEW i \in ByThread
      PROVE  /\ sent[i].turn \in DOMAIN accepted
             /\ \A n \in 1 .. sent[i].turn - 1 : n \in 1 .. SentUpTo
  <2>1. sent[i].turn \in 1 .. SentUpTo
    BY DEF Running, SentInOrder
  <2> QED BY <1>1, <1>2, <2>1
<1>5. SentAsAccepted
  BY <1>3, <1>4 DEF SentAsAccepted, Running, SentInOrder
<1>6. \A n \in DOMAIN called : n \in 1 .. SentUpTo
  BY <1>1, <1>2
<1>7. CallbackAfterSend
  BY <1>3, <1>6 DEF CallbackAfterSend, Running, CalledInOrder
<1> QED BY <1>5, <1>7

\* A step that ends the process sends nothing and runs no callback.
LEMMA Ending ==
  ASSUME Types, SendFails(SendThread) \/ Destroyed
  PROVE  Types' /\ ~alive' /\ UNCHANGED <<accepted, sent, called, crowded>>
<1>0. SendThread \in Threads /\ SendThread # User /\ "out" \in Pcs
  BY DEF Threads, SendThread, User, Pcs
<1>1. CASE SendFails(SendThread)
  <2>1. /\ sender' = [sender EXCEPT ![SendThread].pc = "out"]
        /\ alive' = (SendThread = User)
        /\ UNCHANGED <<class, tick, items, currentQItem, queue, call, endThreads, calls,
                       accepted, sent, called, crowded>>
    BY <1>1, Zenon DEF SendFails
  <2>2. ~alive'
    BY <1>0, <2>1, Zenon
  <2>3. sender' \in [Threads -> Callers]
    BY <1>0, <2>1, PcSet DEF Goes
  <2> QED BY <2>1, <2>2, <2>3 DEF Types
<1>2. CASE Destroyed
  BY <1>2 DEF Destroyed, Types
<1> QED BY <1>1, <1>2

LEMMA ProducerStep ==
  ASSUME ProducerInv, [Next]_vars
  PROVE  ProducerInv'
<1>1. Types
  BY DEF ProducerInv
<1>2. CASE UNCHANGED vars
  <2>1. UNCHANGED vars
    BY <1>2
  <2>2. Types'
    BY <1>1, <2>1 DEF Types, vars
  <2>3. SentAsAccepted' /\ CallbackAfterSend'
    BY <2>1 DEF ProducerInv, vars, SentAsAccepted, CallbackAfterSend, WasSent,
           ByThread
  <2>4. ASSUME alive PROVE Running'
    <3>1. Running
      BY <2>4 DEF ProducerInv
    <3> QED BY <1>1, <2>1, <3>1, QuietStep DEF vars
  <2>5. alive' = alive
    BY <2>1 DEF vars
  <2> QED BY <2>2, <2>3, <2>4, <2>5 DEF ProducerInv
<1>3. ASSUME Types', Running' PROVE ProducerInv'
  <2>1. (Types /\ Running => SentAsAccepted /\ CallbackAfterSend)'
    BY RunningIsRight, PTL
  <2> QED BY <1>3, <2>1 DEF ProducerInv
<1>4. CASE SendFails(SendThread) \/ Destroyed
  BY <1>1, <1>4, Ending DEF ProducerInv, SentAsAccepted, CallbackAfterSend, WasSent,
           ByThread
<1>5. ASSUME alive PROVE Running
  BY <1>5 DEF ProducerInv
<1>6. CASE Constructing
  <2>1. alive
    BY <1>6 DEF Constructing, CheckArguments, FromUri, CreateSyncSocket, CreateDataSocket,
                ServerCheckArguments, CreateServerSocket, Construct
  <2> QED BY <1>1, <1>3, <1>5, <1>6, <2>1, ConstructKeeps
<1>7. CASE Adding
  <2>1. alive
    BY <1>7 DEF Adding, AddToSendQueue, FillItem, PushItem, QueueFull, UserFree
  <2> QED BY <1>1, <1>3, <1>5, <1>7, <2>1, AddKeeps, FillKeeps, PushKeeps, QueueFullKeeps
          DEF Adding
<1>8. CASE SendThreadSteps
  <2>1. alive
    BY <1>8 DEF SendThreadSteps, PopItem, ReadItem, Sending, SkipEmpty, SetTick, Transmit,
                SendSyncMsg, RunCallback
  <2> QED BY <1>1, <1>3, <1>5, <1>8, <2>1, PopKeeps, ReadKeeps, SendStepKeeps, TransmitKeeps,
             CallbackKeeps DEF SendThreadSteps, Sending
<1>9. CASE UserSendStep \/ SendFails(User) \/ Destroy
  <2>1. alive
    BY <1>9 DEF UserSendStep, CallSendEvent, Sending, SkipEmpty, SetTick, Transmit,
                SendSyncMsg, UserReturns, SendFails, Destroy, UserFree
  <2> QED BY <1>1, <1>3, <1>5, <1>9, <2>1, UserStepKeeps, UserSendKeeps
          DEF UserSendStep, Sending
<1>10. CASE Finished
  BY <1>2, <1>10 DEF Finished
<1> QED BY <1>2, <1>4, <1>6, <1>7, <1>8, <1>9, <1>10
        DEF Next, EjfatAddToSendQueue, ServerAddToSendQueue, SendThreadStep, EjfatSendThread,
            ServerSendThread, EjfatSendEvent, ServerSendEvent

LEMMA ProducerInit == Init => ProducerInv
<1> SUFFICES ASSUME Init PROVE ProducerInv
  OBVIOUS
<1>1. Types
  <2>1. 0 \in Slots
    BY ArraySizeType DEF Slots
  <2>2. NotSending \in Callers
    BY <2>1 DEF NotSending, NoEvent, Callers, Pcs
  <2>3. sender \in [Threads -> Callers]
    BY <2>2 DEF Init, Threads
  <2>4. items \in [Slots -> Items]
    BY DEF Init, Slots, Items, NoEvent
  <2> QED BY <2>1, <2>3, <2>4 DEF Init, Types, CallPcs, NoEvent
<1>2. /\ sender[SendThread].pc = "out" /\ Len(called) = 0 /\ Len(accepted) = 0
      /\ Len(queue) = 0 /\ accepted = << >> /\ called = << >> /\ sent = << >>
      /\ call.pc = "new" /\ currentQItem = 0
  BY DEF Init, NotSending
<1>3. Taken = 0 /\ SentUpTo = 0 /\ ~InHand
  BY <1>2 DEF Taken, SentUpTo, InHand
<1>4. CalledInOrder
  BY <1>2 DEF CalledInOrder
<1>5. Filled
  <2>1. 0 % ArraySize = 0 /\ 0 + 1 > 0
    BY ArraySizeType
  <2> QED BY <1>2, <2>1 DEF Filled, Turn
<1>6. Queued
  BY <1>2, <1>3, ArraySizeType DEF Queued
<1>7. SentInOrder
  BY <1>2, <1>3 DEF SentInOrder, WasSent, ByThread
<1> QED BY <1>1, <1>4, <1>5, <1>6, <1>7, RunningIsRight DEF ProducerInv, Running

LEMMA ProducerAlways == Spec => []ProducerInv
<1>1. ProducerInv /\ [Next]_vars => ProducerInv'
  BY ProducerStep
<1> QED BY <1>1, ProducerInit, PTL DEF Spec

\* The sending thread sends the events that addToSendQueue() accepted, each once,
\* in order and passing over none (EjfatProducer.cpp:534, 817-822), for every
\* capacity of the queue, with blocking calls of sendEvent() in between and
\* whatever the user has under way: filling in an item the queue may refuse can
\* only disturb the one event the thread is about, when ArraySize are under way.
THEOREM AcceptedAreSent == Spec => []SentAsAccepted
<1>1. ProducerInv => SentAsAccepted
  BY DEF ProducerInv
<1> QED BY <1>1, ProducerAlways, PTL

\* Its callbacks are run in the order of the calls, each after its own event was
\* sent (EjfatProducer.cpp:537), but for the events disturbed in that way.
THEOREM CallbacksFollow == Spec => []CallbackAfterSend
<1>1. ProducerInv => CallbackAfterSend
  BY DEF ProducerInv
<1> QED BY <1>1, ProducerAlways, PTL

=============================================================================
