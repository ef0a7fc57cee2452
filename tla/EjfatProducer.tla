---------------------------- MODULE EjfatProducer ----------------------------
(***************************************************************************)
(* simpleAPI/EjfatProducer and simpleAPI/serverProducer: events are sent   *)
(* by a blocking sendEvent() call of the user, or put by addToSendQueue()  *)
(* on a bounded single-producer queue from which the sending thread takes  *)
(* them, sends them and runs their callbacks.  serverProducer sends to a   *)
(* server, which speaks with the control plane in its place.               *)
(*                                                                         *)
(* The n-th call of the user is about event n.  Its data pointer, its size *)
(* and its callback with the argument are filled in together, so an item   *)
(* holds just the event and its number; when the thread reads an item that *)
(* is being filled in again it may get a mix of two events, NoEvent.       *)
(***************************************************************************)
EXTENDS Integers, SequencesExt

CONSTANTS
    Classes,        \* "EjfatProducer", "serverProducer" or both
    QSize,          \* QSIZE, capacity of the queue
    MaxEvents,      \* bound: calls of the user
    Explicit,       \* does the user give the event numbers?
    EmptyEvents,    \* events of no bytes
    Blocking,       \* does the user call sendEvent() as well?
    Direct,         \* bypass the LB: no sync messages
    Bad,            \* what the constructors may find wrong
    CanFail         \* may sending fail, and the user destroy the object?

ASSUME ProducerAssumption ==
    /\ Classes \subseteq {"EjfatProducer", "serverProducer"}
    /\ QSize \in Nat \ {0}
    /\ MaxEvents \in Nat
    /\ EmptyEvents \subseteq Nat
    /\ {Explicit, Blocking, Direct, CanFail} \subseteq BOOLEAN

VARIABLES
    class,       \* of the object
    tick,        \* the member: event number of the last event
    items,       \* qItemArray
    currentQItem,\* its element to be used next
    queue,       \* the queue of elements of items
    call,        \* the user's addToSendQueue() call
    sender,      \* per thread: its sendEvent() call
    endThreads,  \* the destructor has begun
    alive,       \* the process has not been terminated
    calls,       \* history: number of the user's calls
    accepted,    \* history: events put on the queue, in order
    sent,        \* history: events sent, in order
    called,      \* history: events whose callback was run, in order
    crowded      \* history: places in accepted of the events whose item may have
                 \* been filled in again before the thread was done with it

vars == <<class, tick, items, currentQItem, queue, call, sender, endThreads, alive,
          calls, accepted, sent, called, crowded>>

ArraySize == QSize + 1
SendThread == "sendThread"
User       == "user"
NoEvent    == 0
NotSending == [pc |-> "out", slot |-> 0, event |-> NoEvent, number |-> 0]

Init ==
    /\ class \in Classes
    /\ tick = 0
    /\ items = [i \in 0 .. ArraySize - 1 |-> [event |-> NoEvent, tick |-> 0]]
    /\ currentQItem = 0
    /\ queue = << >>
    /\ call = [pc |-> "new", event |-> NoEvent, number |-> 0]
    /\ sender = [th \in {SendThread, User} |-> NotSending]
    /\ endThreads = FALSE
    /\ alive = TRUE
    /\ calls = 0
    /\ accepted = << >> /\ sent = << >> /\ called = << >> /\ crowded = {}

(***************************************************************************)
(* The constructors.  A step succeeds, or throws and there is no object.   *)
(***************************************************************************)
Construct(c, at, next, wrong) ==
    /\ alive /\ class = c /\ call.pc = at
    /\ \/ call' = [call EXCEPT !.pc = next] /\ UNCHANGED alive
       \/ wrong \in Bad /\ alive' = FALSE /\ UNCHANGED call
    /\ UNCHANGED <<class, tick, items, currentQItem, queue, sender, endThreads,
                   calls, accepted, sent, called, crowded>>

\* Addresses and ports given; a sync address is needed unless Direct.
CheckArguments == Construct("EjfatProducer", "new", "socket", "argument")
\* A URI, or a file with one, that names both addresses.
FromUri == ~Direct /\ Construct("EjfatProducer", "new", "socket", "uri")
CreateSyncSocket == ~Direct /\ Construct("EjfatProducer", "socket", "data", "socket")
CreateDataSocket ==
    Construct("EjfatProducer", IF Direct THEN "socket" ELSE "data", "idle", "socket")

ServerCheckArguments == Construct("serverProducer", "new", "socket", "argument")
CreateServerSocket == Construct("serverProducer", "socket", "idle", "socket")

Constructing == \/ CheckArguments \/ FromUri \/ CreateSyncSocket \/ CreateDataSocket
                \/ ServerCheckArguments \/ CreateServerSocket

(***************************************************************************)
(* The user's calls.                                                       *)
(***************************************************************************)
UserFree == alive /\ ~endThreads /\ call.pc = "idle" /\ sender[User].pc = "out"

\* The events queued, and the one the thread is about.
Outstanding == Len(accepted) - Len(called)

\* The place in accepted of the event the thread is about, or takes next.
Turn == Len(called) + 1

\* The event number of the n-th call: the user's, or tick++ .
NumberOf(n) == IF Explicit THEN n ELSE tick

TickAfterCall == IF Explicit THEN tick ELSE tick + 1

\* sendEvent() of serverProducer passes tick, and adds one when it is back.
TickAfterSendEvent == IF class = "serverProducer" THEN tick ELSE TickAfterCall
TickAfterReturn == IF class = "serverProducer" /\ ~Explicit THEN tick + 1 ELSE tick

\* addToSendQueue() is called.
AddToSendQueue ==
    /\ UserFree
    /\ calls < MaxEvents
    /\ calls' = calls + 1
    /\ call' = [pc |-> "fill", event |-> calls', number |-> NumberOf(calls')]
    /\ tick' = TickAfterCall
    /\ crowded' = IF Outstanding < ArraySize THEN crowded ELSE crowded \cup {Turn}
    /\ UNCHANGED <<class, items, currentQItem, queue, sender, endThreads, alive,
                   accepted, sent, called>>

\* The current item is filled in, whether or not it can be queued.
FillItem ==
    /\ alive
    /\ call.pc = "fill"
    /\ tick' = call.number
    /\ items' = [items EXCEPT ![currentQItem] = [event |-> call.event,
                                                 tick |-> call.number]]
    /\ call' = [call EXCEPT !.pc = "push"]
    /\ UNCHANGED <<class, currentQItem, queue, sender, endThreads, alive, calls,
                   accepted, sent, called, crowded>>

\* Mutant of ItemAfter: the array is no bigger than the queue.
ItemAfterInSmallArray(i) == (i + 1) % QSize

ItemAfter(i) == (i + 1) % ArraySize

PushItem ==
    /\ alive
    /\ call.pc = "push"
    /\ Len(queue) < QSize
    /\ queue' = Append(queue, currentQItem)
    /\ currentQItem' = ItemAfter(currentQItem)
    /\ accepted' = Append(accepted, call.event)
    /\ call' = [call EXCEPT !.pc = "idle"]
    /\ UNCHANGED <<class, tick, items, sender, endThreads, alive, calls, sent,
                   called, crowded>>

\* addToSendQueue() returns false.
QueueFull ==
    /\ alive
    /\ call.pc = "push"
    /\ Len(queue) = QSize
    /\ call' = [call EXCEPT !.pc = "idle"]
    /\ UNCHANGED <<class, tick, items, currentQItem, queue, sender, endThreads, alive,
                   calls, accepted, sent, called, crowded>>

\* The user calls the blocking sendEvent().
CallSendEvent ==
    /\ Blocking
    /\ UserFree
    /\ calls < MaxEvents
    /\ calls' = calls + 1
    /\ sender' = [sender EXCEPT ![User] = [pc |-> "enter", slot |-> 0,
                                           event |-> calls',
                                           number |-> NumberOf(calls')]]
    /\ tick' = TickAfterSendEvent
    /\ UNCHANGED <<class, items, currentQItem, queue, call, endThreads, alive,
                   accepted, sent, called, crowded>>

(***************************************************************************)
(* sendThreadFunc() and sendEvent().                                       *)
(***************************************************************************)
PopItem ==
    /\ alive
    /\ sender[SendThread].pc = "out"
    /\ queue # << >>
    /\ sender' = [sender EXCEPT ![SendThread] = [@ EXCEPT !.pc = "popped",
                                                         !.slot = Head(queue)]]
    /\ queue' = Tail(queue)
    /\ UNCHANGED <<class, tick, items, currentQItem, call, endThreads, alive, calls,
                   accepted, sent, called, crowded>>

\* What may be read of the thread's item: a mix too, while a call fills it in.
ItemAsRead ==
    LET item == items[sender[SendThread].slot]
        mix  == [event : {NoEvent}, tick : {item.tick, call.number}]
    IN  {item} \cup IF call.pc = "fill" /\ sender[SendThread].slot = currentQItem
                    THEN mix ELSE {}

\* The arguments of sendEvent() are read from the item.
ReadItem ==
    /\ alive
    /\ sender[SendThread].pc = "popped"
    /\ \E item \in ItemAsRead :
          sender' = [sender EXCEPT ![SendThread] = [@ EXCEPT !.pc = "enter",
                                                            !.event = item.event,
                                                            !.number = item.tick]]
    /\ UNCHANGED <<class, tick, items, currentQItem, queue, call, endThreads, alive, calls,
                   accepted, sent, called, crowded>>

\* Mutant of SkipEmpty: the early return goes past the callback as well.
SkipEmptyAndCallback(th) ==
    /\ alive
    /\ sender[th].pc = "enter"
    /\ sender[th].event \in EmptyEvents
    /\ sender' = [sender EXCEPT ![th].pc = "out"]
    /\ UNCHANGED <<class, tick, items, currentQItem, queue, call, endThreads, alive,
                   calls, accepted, sent, called, crowded>>

\* An event of no bytes is not sent.
SkipEmpty(th) ==
    /\ alive
    /\ sender[th].pc = "enter"
    /\ sender[th].event \in EmptyEvents
    /\ sender' = [sender EXCEPT ![th].pc = "return"]
    /\ UNCHANGED <<class, tick, items, currentQItem, queue, call, endThreads, alive,
                   calls, accepted, sent, called, crowded>>

SetTick(th) ==
    /\ alive
    /\ sender[th].pc = "enter"
    /\ sender[th].event \notin EmptyEvents
    /\ tick' = sender[th].number
    /\ sender' = [sender EXCEPT ![th].pc = "send"]
    /\ UNCHANGED <<class, items, currentQItem, queue, call, endThreads, alive, calls,
                   accepted, sent, called, crowded>>

\* The packets carry the member tick, not the argument.
Transmit(th) ==
    /\ alive
    /\ sender[th].pc = "send"
    /\ sent' = Append(sent, [by |-> th, event |-> sender[th].event,
                             number |-> tick, turn |-> Turn])
    /\ sender' = [sender EXCEPT ![th].pc = IF Direct \/ class = "serverProducer"
                                                THEN "return" ELSE "sync"]
    /\ UNCHANGED <<class, tick, items, currentQItem, queue, call, endThreads, alive,
                   calls, accepted, called, crowded>>

\* Once a second a sync message follows; it reads tick and changes nothing
\* here.
SendSyncMsg(th) ==
    /\ alive
    /\ sender[th].pc = "sync"
    /\ sender' = [sender EXCEPT ![th].pc = "return"]
    /\ UNCHANGED <<class, tick, items, currentQItem, queue, call, endThreads, alive,
                   calls, accepted, sent, called, crowded>>

\* An error is thrown: caught by the user, or by nobody in the thread.
SendFails(th) ==
    /\ CanFail
    /\ alive
    /\ sender[th].pc \in {"send", "sync"}
    /\ sender' = [sender EXCEPT ![th].pc = "out"]
    /\ alive' = (th = User)
    /\ UNCHANGED <<class, tick, items, currentQItem, queue, call, endThreads, calls,
                   accepted, sent, called, crowded>>

UserReturns ==
    /\ alive
    /\ sender[User].pc = "return"
    /\ sender' = [sender EXCEPT ![User] = NotSending]
    /\ tick' = TickAfterReturn
    /\ UNCHANGED <<class, items, currentQItem, queue, call, endThreads, alive,
                   calls, accepted, sent, called, crowded>>

\* Mutant of CallbackOf: the callback of the element to be used next.
CallbackOfCurrent == {items[currentQItem].event}

\* The callback and its argument, as they are in the item by then.
CallbackOf == {item.event : item \in ItemAsRead}

RunCallback ==
    /\ alive
    /\ sender[SendThread].pc = "return"
    /\ \E e \in CallbackOf : called' = Append(called, e)
    /\ sender' = [sender EXCEPT ![SendThread].pc =
                      IF endThreads THEN "ended" ELSE "out"]
    /\ UNCHANGED <<class, tick, items, currentQItem, queue, call, endThreads, alive,
                   calls, accepted, sent, crowded>>

(***************************************************************************)
(* The destructor does not wait for the sending thread.                    *)
(***************************************************************************)
Destroy ==
    /\ CanFail
    /\ UserFree
    /\ endThreads' = TRUE
    /\ UNCHANGED <<class, tick, items, currentQItem, queue, call, sender, alive, calls,
                   accepted, sent, called, crowded>>

Destroyed ==
    /\ alive /\ endThreads
    /\ alive' = FALSE
    /\ UNCHANGED <<class, tick, items, currentQItem, queue, call, sender, endThreads,
                   calls, accepted, sent, called, crowded>>

Finished ==
    /\ \/ ~alive
       \/ /\ UserFree /\ queue = << >> /\ sender[SendThread].pc = "out"
          /\ calls = MaxEvents
    /\ UNCHANGED vars

Adding == AddToSendQueue \/ FillItem \/ PushItem \/ QueueFull

Sending(th) == \/ SkipEmpty(th)
               \/ SetTick(th)
               \/ Transmit(th)
               \/ SendSyncMsg(th)

SendThreadSteps == PopItem \/ ReadItem \/ Sending(SendThread) \/ RunCallback

UserSendStep == CallSendEvent \/ Sending(User) \/ UserReturns

\* The two classes have the same code in files of their own.
EjfatSendThread  == class = "EjfatProducer" /\ SendThreadSteps
ServerSendThread == class = "serverProducer" /\ SendThreadSteps
SendThreadStep   == EjfatSendThread \/ ServerSendThread

EjfatSendEvent  == class = "EjfatProducer" /\ UserSendStep
ServerSendEvent == class = "serverProducer" /\ UserSendStep

EjfatAddToSendQueue  == class = "EjfatProducer" /\ Adding
ServerAddToSendQueue == class = "serverProducer" /\ Adding

Next ==
    \/ Constructing
    \/ EjfatAddToSendQueue \/ ServerAddToSendQueue
    \/ SendThreadStep
    \/ EjfatSendEvent \/ ServerSendEvent
    \/ \E th \in {SendThread, User} : SendFails(th)
    \/ Destroy
    \/ Destroyed
    \/ Finished

Spec == Init /\ [][Next]_vars

\* The scheduler runs the sending thread.
FairSpec == Spec /\ WF_vars(SendThreadStep)

-----------------------------------------------------------------------------
(***************************************************************************)
(* Properties.  addToSendQueue() fills in the item before it knows whether *)
(* the queue takes it.  Each of the three is asked of every event but the  *)
(* crowded ones: those the thread was about when the user called with      *)
(* ArraySize accepted events not called back, where the next item to fill  *)
(* in is the thread's own.                                                 *)
(***************************************************************************)
\* The places in sent of what the sending thread has sent.
ByThread == {i \in DOMAIN sent : sent[i].by = SendThread}

\* The event at this place of accepted was sent by the thread.
WasSent(n) == \E i \in ByThread : sent[i].turn = n /\ sent[i].event = accepted[n]

\* The sending thread sends the events addToSendQueue() accepted, each once, in
\* the order of the calls, and passing over none: whatever the user does, an item
\* is not filled in again (EjfatProducer.cpp:817-822) before the thread has read
\* it (:534), but for that of a crowded event.
SentAsAccepted ==
    /\ \A i, j \in ByThread : i < j => sent[i].turn < sent[j].turn
    /\ \A i \in ByThread :
          /\ sent[i].turn \in DOMAIN accepted
          /\ sent[i].turn \notin crowded => sent[i].event = accepted[sent[i].turn]
          /\ \A n \in 1 .. sent[i].turn - 1 :
                n \in crowded \/ accepted[n] \in EmptyEvents \/ WasSent(n)

\* The callbacks run are those of the accepted events, in order, and each only
\* after its event was sent (EjfatProducer.cpp:537), but for crowded events.
CallbackAfterSend ==
    /\ Len(called) <= Len(accepted)
    /\ \A n \in DOMAIN called \ crowded :
          /\ called[n] = accepted[n]
          /\ accepted[n] \in EmptyEvents \/ WasSent(n)

\* A callback is run for every accepted event (EjfatProducer.cpp:537), unless the
\* object is destroyed or a failure to send ends the process.
EventuallyCalled ==
    \A n \in 1 .. MaxEvents :
        (Len(accepted) >= n) ~> (Len(called) >= n \/ endThreads \/ ~alive)
=============================================================================
