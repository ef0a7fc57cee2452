----------------------------- MODULE ServerSync -----------------------------
(***************************************************************************)
(* The data path of an EjfatServer (simpleAPI/EjfatServer.cpp):            *)
(* sendThreadFunc forwards the packets of all sources to the load balancer *)
(* and notes their ticks; once a second sendSyncFunc tells the control     *)
(* plane the last tick and the number of events of every source.  Nothing  *)
(* protects the maps the two threads share.                                *)
(***************************************************************************)
EXTENDS Integers

CONSTANTS
    Sources,      \* ids of the data sources, natural numbers
    Ticks,        \* event numbers in the packets' RE headers
    MaxPackets,   \* bound: packets received
    CanFailSend       \* may sending fail?

ASSUME SyncAssumption ==
    /\ Sources \subseteq Nat
    /\ Ticks \subseteq Nat
    /\ MaxPackets \in Nat
    /\ CanFailSend \in BOOLEAN

VARIABLES
    ids, ticks, bufsSent,   \* the maps of EjfatServer; 0 is a missing entry
    snd,                    \* sendThreadFunc: pc and its locals
    syn,                    \* sendSyncFunc: pc, iterator and its locals
    endThreads,             \* set by the destructor
    alive,                  \* no thread has ended with an exception
    packets,                \* packets received so far
    forwarded,              \* history: the <<src, tick>> forwarded
    announced               \* history: src -> tick of its last sync message

sharedVars == <<ids, ticks, bufsSent>>
history == <<packets, forwarded, announced>>
syncVars == <<sharedVars, snd, syn, endThreads, alive, history>>

Receiving == [pc |-> "recv", src |-> -1, tick |-> 0, count |-> 0]
Sleeping  == [pc |-> "sleep", src |-> -1, tick |-> 0, count |-> 0]

SyncInit ==
    /\ ids = {}
    /\ ticks = [s \in Sources |-> 0]
    /\ bufsSent = [s \in Sources |-> 0]
    /\ snd = Receiving
    /\ syn = Sleeping
    /\ endThreads = FALSE
    /\ alive = TRUE
    /\ packets = 0
    /\ forwarded = {}
    /\ announced = [s \in Sources |-> 0]

(***************************************************************************)
(* sendThreadFunc.                                                         *)
(***************************************************************************)
SendAt(pc) == alive /\ snd.pc = pc

\* Mutant of ReceivePacket: the tick is noted before the packet is forwarded.
NoteThenForward(s, t) ==
    /\ SendAt("recv")
    /\ ~endThreads
    /\ packets < MaxPackets
    /\ packets' = packets + 1
    /\ ids' = ids \cup {s}
    /\ ticks' = [ticks EXCEPT ![s] = t]
    /\ snd' = [pc |-> "forward", src |-> s, tick |-> t, count |-> 0]
    /\ UNCHANGED <<bufsSent, syn, endThreads, alive, forwarded, announced>>

\* A packet of the right version and protocol arrives; others are ignored.
ReceivePacket(s, t) ==
    /\ SendAt("recv")
    /\ ~endThreads
    /\ packets < MaxPackets
    /\ packets' = packets + 1
    /\ snd' = [pc |-> "forward", src |-> s, tick |-> t, count |-> 0]
    /\ UNCHANGED <<sharedVars, syn, endThreads, alive, forwarded, announced>>

ForwardPacket ==
    /\ SendAt("forward")
    /\ snd' = [snd EXCEPT !.pc = "insert"]
    /\ forwarded' = forwarded \cup {<<snd.src, snd.tick>>}
    /\ UNCHANGED <<sharedVars, syn, endThreads, alive, packets, announced>>

\* recvfrom() or send() fails: the exception ends the process.
SendThreadFails ==
    /\ CanFailSend
    /\ SendAt("recv") \/ SendAt("forward")
    /\ endThreads' = TRUE
    /\ alive' = FALSE
    /\ UNCHANGED <<sharedVars, snd, syn, history>>

InsertId ==
    /\ SendAt("insert")
    /\ ids' = ids \cup {snd.src}
    /\ snd' = [snd EXCEPT !.pc = "tick"]
    /\ UNCHANGED <<ticks, bufsSent, syn, endThreads, alive, history>>

\* ticks[srcId] is read and replaced; bufsSent changes only with the tick.
RecordTick ==
    LET changed == snd.tick # ticks[snd.src]
    IN  /\ SendAt("tick")
        /\ ticks' = [ticks EXCEPT ![snd.src] = snd.tick]
        /\ snd' = IF changed THEN [snd EXCEPT !.pc = "load"] ELSE Receiving
        /\ UNCHANGED <<ids, bufsSent, syn, endThreads, alive, packets, forwarded,
                       announced>>

\* The two halves of bufsSent[srcId]++.
LoadCount ==
    /\ SendAt("load")
    /\ snd' = [snd EXCEPT !.pc = "store", !.count = bufsSent[snd.src]]
    /\ UNCHANGED <<sharedVars, syn, endThreads, alive, history>>

StoreCount ==
    /\ SendAt("store")
    /\ bufsSent' = [bufsSent EXCEPT ![snd.src] = snd.count + 1]
    /\ snd' = Receiving
    /\ UNCHANGED <<ids, ticks, syn, endThreads, alive, history>>

(***************************************************************************)
(* sendSyncFunc.                                                           *)
(***************************************************************************)
SyncAt(pc) == alive /\ syn.pc = pc

\* Ids the iterator has not passed.
Ahead == {s \in ids : s > syn.src}

\* An id is being put into the tree the iterator walks: it may miss ids.
Racing == snd.pc = "insert" /\ snd.src \notin ids

\* Where the iterator may go: the next id; anywhere ahead while Racing.
NextId(s) == s \in Ahead /\ (Racing \/ \A u \in Ahead : s <= u)

WakeUp ==
    /\ SyncAt("sleep")
    /\ ~endThreads
    /\ syn' = [Sleeping EXCEPT !.pc = "next"]
    /\ UNCHANGED <<sharedVars, snd, endThreads, alive, history>>

\* The round is over: the loop sleeps for a second.
EndRound ==
    /\ SyncAt("next")
    /\ Ahead = {} \/ Racing
    /\ syn' = Sleeping
    /\ UNCHANGED <<sharedVars, snd, endThreads, alive, history>>

\* The tick of the next source is read, then the count.
ReadTick(s) ==
    /\ SyncAt("next")
    /\ NextId(s)
    /\ syn' = [syn EXCEPT !.pc = "count", !.src = s, !.tick = ticks[s]]
    /\ UNCHANGED <<sharedVars, snd, endThreads, alive, history>>

\* Mutant of Announces: nothing is sent for a source without new events.
AnnouncesIfCounted(tick, count) == tick > 0 /\ count > 0

Announces(tick, count) == tick > 0

ReadCount ==
    LET count == bufsSent[syn.src]
    IN  /\ SyncAt("count")
        /\ syn' = [syn EXCEPT !.count = count,
                              !.pc = IF Announces(syn.tick, count) THEN "send"
                                                                   ELSE "zero"]
        /\ UNCHANGED <<sharedVars, snd, endThreads, alive, history>>

SendSync ==
    /\ SyncAt("send")
    /\ announced' = [announced EXCEPT ![syn.src] = syn.tick]
    /\ syn' = [syn EXCEPT !.pc = "zero"]
    /\ UNCHANGED <<sharedVars, snd, endThreads, alive, packets, forwarded>>

\* send() fails: the exception ends the process.
SyncFails ==
    /\ CanFailSend
    /\ SyncAt("send")
    /\ alive' = FALSE
    /\ UNCHANGED <<sharedVars, snd, syn, endThreads, history>>

ZeroCount ==
    /\ SyncAt("zero")
    /\ bufsSent' = [bufsSent EXCEPT ![syn.src] = 0]
    /\ syn' = [syn EXCEPT !.pc = "next"]
    /\ UNCHANGED <<ids, ticks, snd, endThreads, alive, history>>

\* The destructor.
Destroy ==
    /\ alive
    /\ ~endThreads
    /\ endThreads' = TRUE
    /\ UNCHANGED <<sharedVars, snd, syn, alive, history>>

SendThread == \/ ForwardPacket \/ InsertId \/ RecordTick
              \/ LoadCount \/ StoreCount

SyncThread == \/ WakeUp \/ EndRound \/ \E s \in Sources : ReadTick(s)
              \/ ReadCount \/ SendSync \/ ZeroCount

\* Nothing is left to run.
Stopped ==
    /\ ~alive \/ (endThreads /\ snd.pc = "recv" /\ syn.pc = "sleep")
    /\ UNCHANGED syncVars

SyncNext ==
    \/ \E s \in Sources, t \in Ticks : ReceivePacket(s, t)
    \/ SendThread
    \/ SendThreadFails
    \/ SyncThread
    \/ SyncFails
    \/ Destroy
    \/ Stopped

SyncSpec == SyncInit /\ [][SyncNext]_syncVars

\* Both threads keep running.  Nothing makes packets arrive.
FairSyncSpec == SyncSpec /\ WF_syncVars(SendThread) /\ WF_syncVars(SyncThread)

-----------------------------------------------------------------------------
\* Types of the variables.
SyncTypeOK ==
    /\ ids \subseteq Sources
    /\ ticks \in [Sources -> Ticks \cup {0}]
    /\ bufsSent \in [Sources -> 0 .. MaxPackets]
    /\ snd.pc \in {"recv", "forward", "insert", "tick", "load", "store"}
    /\ syn.pc \in {"sleep", "next", "count", "send", "zero"}
    /\ endThreads \in BOOLEAN /\ alive \in BOOLEAN

\* A sync message names a tick of which a packet has been forwarded to the
\* load balancer, even if the forwarding of a later one is under way or fails
\* (EjfatServer.cpp:716-735 before 737-748).
AnnouncedWasForwarded ==
    \A s \in Sources :
        announced[s] # 0 => <<s, announced[s]>> \in forwarded

\* The control plane does not fall behind for good: if packets stop coming and
\* the server runs on, the last tick of every source, unless it is 0, is
\* announced, whatever the races did to the counts (EjfatServer.cpp:808-863).
SyncCatchesUp ==
    \A s \in Sources : [](<>(ticks[s] \in {0, announced[s]}) \/ <>(endThreads \/ ~alive))
=============================================================================
