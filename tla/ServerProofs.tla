---------------------------- MODULE ServerProofs ----------------------------
(***************************************************************************)
(* Theorems about the two halves of an EjfatServer: ServerRegistry for     *)
(* every set of consumers, number of messages and choice of failures, and  *)
(* ServerSync for every set of sources and ticks and number of packets.    *)
(***************************************************************************)
EXTENDS ServerRegistry, ServerSync, FiniteSetTheorems, TLAPS

-----------------------------------------------------------------------------
(* ServerRegistry: the inductive invariant.                                *)

Opened == Cardinality(DOMAIN sessions)

\* Sessions are numbered from 1 without gaps, so that the number of the next
\* one is new.
SessionsNumbered == Opened \in Nat /\ DOMAIN sessions = 1 .. Opened

\* The client object of a consumer holds a session of that consumer.
ClientsOwnSessions ==
    \A k \in Keys : LbClients[k] # NoSession => sessions[LbClients[k]] = k

Inv ==
    /\ TypeOK
    /\ SessionsNumbered
    /\ ClientsOwnSessions
    /\ NewestSessionServes
    /\ ReportsFromOwner

LEMMA InitInv == Init => Inv
<1> SUFFICES ASSUME Init PROVE Inv
  OBVIOUS
<1>1. /\ DOMAIN sessions = {}
      /\ Opened = 0
      /\ sessions \in [1 .. 0 -> Keys]
  BY FS_EmptySet DEF Init, Opened
<1> QED
  BY <1>1, RegistryAssumption
  DEF Init, Inv, TypeOK, SessionsNumbered, ClientsOwnSessions,
      NewestSessionServes, ReportsFromOwner, Opened

-----------------------------------------------------------------------------
(* ServerRegistry: steps.                                                  *)

\* Sending a message keeps the types of the messages.
LEMMA SendType ==
  ASSUME TypeOK, NEW cmd \in {"REGISTER", "UPDATE", "DEREGISTER"}, NEW k \in Keys,
         Send(cmd, k)
  PROVE  net' \subseteq Message /\ msgs' \in 0 .. MaxMsgs
<1>1. msgs' \in 1 .. MaxMsgs
  BY RegistryAssumption DEF TypeOK, Send
<1> QED BY <1>1 DEF TypeOK, Send, Message

\* Nothing a consumer or the network does touches the server.
LEMMA OutsideStep ==
  ASSUME Inv, net' \subseteq Message, msgs' \in 0 .. MaxMsgs,
         consumer' \in [Keys -> [state : {"none", "started", "constructed", "ended"},
                                 thread : {"none", "check", "sample"}]],
         UNCHANGED serverSide
  PROVE  Inv'
BY DEF Inv, TypeOK, SessionsNumbered, ClientsOwnSessions, NewestSessionServes,
       ReportsFromOwner, Opened, serverSide, cpVars

LEMMA ConsumerInv ==
  ASSUME Inv, NEW k \in Keys, ConsumerStep(k)
  PROVE  Inv'
<1> USE DEF Inv, TypeOK
<1>1. CASE CreateConsumer(k)
  BY <1>1, OutsideStep DEF CreateConsumer
<1>2. CASE RegisterWithSimpleServer(k)
  BY <1>2, OutsideStep, SendType DEF RegisterWithSimpleServer
<1>3. CASE CheckEndThreads(k)
  BY <1>3, OutsideStep DEF CheckEndThreads
<1>4. CASE UpdateSimpleServer(k)
  BY <1>4, OutsideStep, SendType DEF UpdateSimpleServer
<1>5. CASE DestroyConsumer(k)
  BY <1>5, OutsideStep, SendType DEF DestroyConsumer
<1>6. CASE EndProcess(k)
  BY <1>6, OutsideStep DEF EndProcess
<1> QED BY <1>1, <1>2, <1>3, <1>4, <1>5, <1>6 DEF ConsumerStep

\* An UPDATE of a registered consumer reports to the session of its client.
LEMMA ReceiveUpdateInv ==
  ASSUME Inv, NEW m \in net, ReceiveUpdate(m)
  PROVE  Inv'
<1> USE DEF ReceiveUpdate, Receive, UpdateKey, HasClient, GrpcOutcome
<1>1. m.key \in Keys /\ LbClients[m.key] \in DOMAIN sessions
  BY DEF Inv, TypeOK, Message, NoSession
<1>2. sessions[LbClients[m.key]] = m.key
  BY <1>1 DEF Inv, ClientsOwnSessions
<1>3. TypeOK'
  <2>1. \A r \in reports' : r.session \in DOMAIN sessions /\ r.by \in Keys
    BY <1>1 DEF Inv, TypeOK
  <2>2. key' \in Keys /\ running' \in BOOLEAN /\ net' \subseteq net
    BY <1>1, RegistryAssumption
  <2> QED BY <2>1, <2>2 DEF Inv, TypeOK
<1>4. ReportsFromOwner'
  BY <1>2 DEF Inv, ReportsFromOwner
<1> QED
  BY <1>3, <1>4
  DEF Inv, SessionsNumbered, ClientsOwnSessions, NewestSessionServes, Opened

\* REGISTER opens the next session and makes it the one of the client.
LEMMA ReceiveRegisterInv ==
  ASSUME Inv, NEW m \in net, ReceiveRegister(m)
  PROVE  Inv'
<1> DEFINE session == Opened + 1
<1>1. m.key \in Keys
  BY DEF Inv, TypeOK, Message
<1>2. /\ session \in Nat \ {0}
      /\ DOMAIN sessions = 1 .. session - 1
  BY DEF Inv, SessionsNumbered
<1>3. /\ sessions' = [s \in 1 .. session |-> IF s = session THEN m.key ELSE sessions[s]]
      /\ LbClients' = [LbClients EXCEPT ![m.key] = session]
      /\ UNCHANGED <<consumer, msgs, ended, reports>>
      /\ net' \subseteq net /\ key' = m.key /\ running' \in BOOLEAN
  BY RegistryAssumption DEF ReceiveRegister, Receive, ClientsWith, GrpcOutcome, Opened
<1>4. Opened' = session
  <2>1. Cardinality(1 .. session) = session
    BY <1>2, FS_Interval
  <2> QED BY <2>1, <1>3 DEF Opened
<1> HIDE DEF session
<1>5. SessionsNumbered'
  BY <1>2, <1>3, <1>4 DEF SessionsNumbered
<1>6. /\ sessions'[session] = m.key
      /\ \A s \in DOMAIN sessions : sessions'[s] = sessions[s] /\ s < session
      /\ DOMAIN sessions \subseteq DOMAIN sessions'
      /\ DOMAIN sessions' = 1 .. session
      /\ \A s \in DOMAIN sessions' : s = session \/ s \in DOMAIN sessions
  BY <1>2, <1>3
<1>7. TypeOK'
  <2>1. sessions' \in [1 .. session -> Keys]
    <3>1. \A s \in DOMAIN sessions : sessions[s] \in Keys
      BY DEF Inv, TypeOK
    <3> QED BY <3>1, <1>1, <1>2, <1>3
  <2>2. LbClients' \in [Keys -> {NoSession} \cup DOMAIN sessions']
    <3>1. LbClients \in [Keys -> {NoSession} \cup DOMAIN sessions]
      BY DEF Inv, TypeOK
    <3>2. session \in DOMAIN sessions'
      BY <1>2, <1>6
    <3> QED BY <3>1, <3>2, <1>3, <1>6, Zenon
  <2>3. ended' \subseteq DOMAIN sessions'
    BY <1>3, <1>6 DEF Inv, TypeOK
  <2>4. \A r \in reports' : r.session \in DOMAIN sessions' /\ r.by \in Keys
    BY <1>3, <1>6 DEF Inv, TypeOK
  <2> QED BY <2>1, <2>2, <2>3, <2>4, <1>1, <1>3, <1>4 DEF Inv, TypeOK, Opened
<1>8. ClientsOwnSessions'
  <2> SUFFICES ASSUME NEW k \in Keys, LbClients'[k] # NoSession
               PROVE  sessions'[LbClients'[k]] = k
    BY DEF ClientsOwnSessions
  <2>1. CASE k = m.key
    BY <2>1, <1>3, <1>6 DEF Inv, TypeOK
  <2>2. CASE k # m.key
    <3>1. LbClients'[k] = LbClients[k] /\ LbClients[k] \in DOMAIN sessions
      BY <2>2, <1>3 DEF Inv, TypeOK, NoSession
    <3> QED BY <3>1, <1>6 DEF Inv, ClientsOwnSessions
  <2> QED BY <2>1, <2>2
<1>9. NewestSessionServes'
  <2> SUFFICES ASSUME NEW s \in DOMAIN sessions'
               PROVE  s <= LbClients'[sessions'[s]]
    BY DEF NewestSessionServes
  <2>1. CASE s = session
    BY <2>1, <1>1, <1>2, <1>3, <1>6 DEF Inv, TypeOK
  <2>2. CASE s \in DOMAIN sessions /\ sessions[s] = m.key
    BY <2>2, <1>1, <1>2, <1>3, <1>6 DEF Inv, TypeOK
  <2>3. CASE s \in DOMAIN sessions /\ sessions[s] # m.key
    <3>1. sessions[s] \in Keys
      BY <2>3 DEF Inv, TypeOK
    <3>2. LbClients'[sessions'[s]] = LbClients[sessions[s]]
      BY <3>1, <2>3, <1>3, <1>6 DEF Inv, TypeOK
    <3> QED BY <3>2, <2>3 DEF Inv, NewestSessionServes
  <2> QED BY <2>1, <2>2, <2>3, <1>6
<1>10. ReportsFromOwner'
  BY <1>3, <1>6 DEF Inv, TypeOK, ReportsFromOwner
<1> QED BY <1>5, <1>7, <1>8, <1>9, <1>10 DEF Inv

\* DEREGISTER ends a session but leaves its client in the map.
LEMMA ReceiveDeregisterInv ==
  ASSUME Inv, NEW m \in net, ReceiveDeregister(m)
  PROVE  Inv'
<1> USE DEF ReceiveDeregister, Receive, HasClient, GrpcOutcome
<1>1. LbClients[key] \in DOMAIN sessions
  BY DEF Inv, TypeOK
<1>2. TypeOK'
  BY <1>1, RegistryAssumption DEF Inv, TypeOK
<1> QED
  BY <1>2
  DEF Inv, SessionsNumbered, ClientsOwnSessions, NewestSessionServes,
      ReportsFromOwner, Opened

LEMMA ServerInv ==
  ASSUME Inv, NEW m \in net, ConsumerThread(m)
  PROVE  Inv'
<1>1. m.key \in Keys
  BY DEF Inv, TypeOK, Message
<1>2. CASE ReceiveUnknownUpdate(m)
  BY <1>1, <1>2 
  DEF ReceiveUnknownUpdate, Receive, UpdateKey, Inv, TypeOK, SessionsNumbered,
      ClientsOwnSessions, NewestSessionServes, ReportsFromOwner, Opened, cpVars
<1>3. CASE ReceiveUnknownDeregister(m)
  BY <1>3 
  DEF ReceiveUnknownDeregister, Receive, Inv, TypeOK, SessionsNumbered,
      ClientsOwnSessions, NewestSessionServes, ReportsFromOwner, Opened, cpVars
<1> QED
  BY <1>2, <1>3, ReceiveUpdateInv, ReceiveRegisterInv, ReceiveDeregisterInv
  DEF ConsumerThread

LEMMA NextInv == Inv /\ [Next]_vars => Inv'
<1> SUFFICES ASSUME Inv, [Next]_vars PROVE Inv'
  OBVIOUS
<1>1. CASE \E k \in Keys : ConsumerStep(k)
  BY <1>1, ConsumerInv
<1>2. CASE \E m \in net : ConsumerThread(m)
  BY <1>2, ServerInv
<1>3. ASSUME NEW m \in net, LoseMessage(m) PROVE Inv'
  BY <1>3, OutsideStep DEF LoseMessage, Inv, TypeOK
<1>4. CASE UNCHANGED vars
  BY <1>4
  DEF vars, cpVars, Inv, TypeOK, SessionsNumbered, ClientsOwnSessions,
      NewestSessionServes, ReportsFromOwner, Opened
<1> QED BY <1>1, <1>2, <1>3, <1>4 DEF Next, Finished

-----------------------------------------------------------------------------
(* ServerRegistry: theorems.                                               *)

LEMMA SpecInv == Spec => []Inv
BY InitInv, NextInv, PTL DEF Spec

\* The variables have their types in every reachable state.
THEOREM TypeCorrect == Spec => []TypeOK
<1>1. Inv => TypeOK
  BY DEF Inv
<1> QED BY <1>1, SpecInv, PTL

\* Whatever consumers come and go and whatever messages are lost or overtake
\* others, the client object of a consumer is that of its last REGISTER.
THEOREM NewestServes == Spec => []NewestSessionServes
<1>1. Inv => NewestSessionServes
  BY DEF Inv
<1> QED BY <1>1, SpecInv, PTL

\* No report is ever made under the session of another consumer.
THEOREM ReportsOwn == Spec => []ReportsFromOwner
<1>1. Inv => ReportsFromOwner
  BY DEF Inv
<1> QED BY <1>1, SpecInv, PTL

-----------------------------------------------------------------------------
(* ServerSync: the inductive invariant.                                    *)

Sends == [pc : {"recv", "forward", "insert", "tick", "load", "store"},
          src : Int, tick : Int, count : Int]
Syncs == [pc : {"sleep", "next", "count", "send", "zero"},
          src : Int, tick : Int, count : Int]

\* Types of all variables, the locals of the threads only while they are used.
Types ==
    /\ ids \subseteq Sources
    /\ ticks \in [Sources -> Ticks \cup {0}]
    /\ bufsSent \in [Sources -> Nat]
    /\ snd \in Sends /\ syn \in Syncs
    /\ snd.pc # "recv" => snd.src \in Sources /\ snd.tick \in Ticks
    /\ syn.pc \in {"count", "send", "zero"} =>
          syn.src \in Sources /\ syn.tick \in Ticks \cup {0}
    /\ endThreads \in BOOLEAN /\ alive \in BOOLEAN
    /\ packets \in 0 .. MaxPackets
    /\ announced \in [Sources -> Ticks \cup {0}]

\* No count is above the number of packets whose handling is over, and none
\* about to be stored above the number of packets, however the threads race.
Handled == IF snd.pc = "recv" THEN packets ELSE packets - 1
CountsBounded ==
    /\ \A s \in Sources : bufsSent[s] <= Handled
    /\ snd.pc = "store" => snd.count \in 0 .. Handled

\* Every tick on its way to a message is that of a forwarded packet: in the map,
\* in the locals of the forwarding thread after its send(), and in the locals of
\* the announcing thread after it read the map.
MapForwarded == \A s \in Sources : ticks[s] # 0 => <<s, ticks[s]>> \in forwarded
SentForwarded == snd.pc \in {"insert", "tick"} => <<snd.src, snd.tick>> \in forwarded
ReadForwarded ==
    syn.pc \in {"count", "send"} /\ syn.tick # 0 => <<syn.src, syn.tick>> \in forwarded

SyncInv ==
    /\ Types
    /\ CountsBounded
    /\ MapForwarded /\ SentForwarded /\ ReadForwarded
    /\ AnnouncedWasForwarded

LEMMA SyncInitInv == SyncInit => SyncInv
<1> SUFFICES ASSUME SyncInit PROVE SyncInv
  OBVIOUS
<1>1. Types
  <2>1. snd \in Sends /\ syn \in Syncs /\ snd.pc = "recv" /\ syn.pc = "sleep"
    BY DEF SyncInit, Sends, Syncs, Receiving, Sleeping
  <2>2. /\ ticks \in [Sources -> Ticks \cup {0}] /\ bufsSent \in [Sources -> Nat]
        /\ announced \in [Sources -> Ticks \cup {0}]
    BY DEF SyncInit
  <2>3. endThreads \in BOOLEAN /\ alive \in BOOLEAN
    BY Zenon DEF SyncInit
  <2>4. ids = {} /\ packets = 0 /\ 0 \in 0 .. MaxPackets
    BY SyncAssumption DEF SyncInit
  <2> QED BY <2>1, <2>2, <2>3, <2>4 DEF Types
<1> QED
  BY <1>1, SyncAssumption
  DEF SyncInit, SyncInv, CountsBounded, Handled, MapForwarded, SentForwarded, ReadForwarded,
      AnnouncedWasForwarded, Receiving, Sleeping

-----------------------------------------------------------------------------
(* ServerSync: steps.                                                      *)

\* What every step keeps: nothing forwarded is forgotten, and a step that leaves
\* a thread alone leaves what is known of its locals.
LEMMA SendThreadInv ==
  ASSUME SyncInv, SendThread \/ \E s \in Sources, t \in Ticks : ReceivePacket(s, t)
  PROVE  SyncInv'
<1> USE SyncAssumption DEF SyncInv, Types, SendAt, sharedVars, history
<1>1. ASSUME NEW s \in Sources, NEW t \in Ticks, ReceivePacket(s, t) PROVE SyncInv'
  <2> USE <1>1 DEF ReceivePacket
  <2>1. Types'
    BY DEF Sends
  <2>2. CountsBounded'
    BY DEF CountsBounded, Handled, Sends
  <2> QED
    BY <2>1, <2>2
    DEF MapForwarded, SentForwarded, ReadForwarded, AnnouncedWasForwarded
<1>2. CASE ForwardPacket
  <2> USE <1>2 DEF ForwardPacket
  <2>1. Types'
    BY DEF Sends
  <2>2. CountsBounded'
    BY DEF CountsBounded, Handled, Sends
  <2>3. MapForwarded' /\ SentForwarded' /\ ReadForwarded' /\ AnnouncedWasForwarded'
    BY DEF MapForwarded, SentForwarded, ReadForwarded, AnnouncedWasForwarded, Sends
  <2> QED BY <2>1, <2>2, <2>3
<1>3. CASE InsertId
  <2> USE <1>3 DEF InsertId
  <2>1. Types'
    BY DEF Sends
  <2>2. CountsBounded'
    BY DEF CountsBounded, Handled, Sends
  <2>3. MapForwarded' /\ SentForwarded' /\ ReadForwarded' /\ AnnouncedWasForwarded'
    BY DEF MapForwarded, SentForwarded, ReadForwarded, AnnouncedWasForwarded, Sends
  <2> QED BY <2>1, <2>2, <2>3
<1>4. CASE RecordTick
  <2> USE <1>4 DEF RecordTick
  <2>1. Types'
    BY DEF Sends, Receiving
  <2>2. CountsBounded'
    BY DEF CountsBounded, Handled, Sends, Receiving
  <2>3. MapForwarded'
    BY DEF MapForwarded, SentForwarded
  <2>4. SentForwarded' /\ ReadForwarded' /\ AnnouncedWasForwarded'
    BY DEF SentForwarded, ReadForwarded, AnnouncedWasForwarded, Sends, Receiving
  <2> QED BY <2>1, <2>2, <2>3, <2>4
<1>5. CASE LoadCount
  <2> USE <1>5 DEF LoadCount
  <2>1. Types'
    <3>1. bufsSent[snd.src] \in Int
      OBVIOUS
    <3>2. /\ snd' \in Sends
          /\ snd'.src = snd.src /\ snd'.tick = snd.tick /\ snd'.pc = "store"
      BY <3>1 DEF Sends
    <3> QED BY <3>2
  <2>2. CountsBounded'
    BY DEF CountsBounded, Handled, Sends
  <2>3. MapForwarded' /\ SentForwarded' /\ ReadForwarded' /\ AnnouncedWasForwarded'
    BY DEF MapForwarded, SentForwarded, ReadForwarded, AnnouncedWasForwarded, Sends
  <2> QED BY <2>1, <2>2, <2>3
<1>6. CASE StoreCount
  <2> USE <1>6 DEF StoreCount
  <2>1. snd.count + 1 \in 1 .. packets
    BY DEF CountsBounded, Handled
  <2>2. Types'
    BY <2>1 DEF Sends, Receiving
  <2>3. CountsBounded'
    BY <2>1 DEF CountsBounded, Handled, Receiving
  <2>4. MapForwarded' /\ SentForwarded' /\ ReadForwarded' /\ AnnouncedWasForwarded'
    BY DEF MapForwarded, SentForwarded, ReadForwarded, AnnouncedWasForwarded, Receiving
  <2> QED BY <2>2, <2>3, <2>4
<1> QED BY <1>1, <1>2, <1>3, <1>4, <1>5, <1>6 DEF SendThread

LEMMA SyncThreadInv ==
  ASSUME SyncInv, SyncThread
  PROVE  SyncInv'
<1> USE SyncAssumption DEF SyncInv, Types, SyncAt, sharedVars, history
<1>1. CASE WakeUp \/ EndRound
  <2> USE <1>1 DEF WakeUp, EndRound, Sleeping
  <2>1. Types'
    BY DEF Syncs
  <2>2. CountsBounded' /\ ReadForwarded'
    BY DEF CountsBounded, Handled, ReadForwarded
  <2> QED
    BY <2>1, <2>2 DEF MapForwarded, SentForwarded, AnnouncedWasForwarded
<1>2. ASSUME NEW s \in Sources, ReadTick(s) PROVE SyncInv'
  <2> USE <1>2 DEF ReadTick
  <2>1. Types'
    <3>1. ticks[s] \in Ticks \cup {0} /\ ticks[s] \in Int /\ s \in Int
      OBVIOUS
    <3>2. /\ syn' \in Syncs
          /\ syn'.src = s /\ syn'.tick = ticks[s] /\ syn'.pc = "count"
      BY <3>1 DEF Syncs
    <3> QED BY <3>1, <3>2
  <2>2. CountsBounded'
    BY DEF CountsBounded, Handled
  <2>3. ReadForwarded'
    BY DEF ReadForwarded, MapForwarded, Syncs
  <2> QED
    BY <2>1, <2>2, <2>3 DEF MapForwarded, SentForwarded, AnnouncedWasForwarded
<1>3. CASE ReadCount
  <2> USE <1>3 DEF ReadCount
  <2>1. Types'
    <3>1. bufsSent[syn.src] \in Int
      OBVIOUS
    <3>2. /\ syn' \in Syncs
          /\ syn'.src = syn.src /\ syn'.tick = syn.tick
      BY <3>1 DEF Syncs
    <3> QED BY <3>2
  <2>2. CountsBounded' /\ ReadForwarded'
    BY DEF CountsBounded, Handled, ReadForwarded, Syncs
  <2> QED
    BY <2>1, <2>2 DEF MapForwarded, SentForwarded, AnnouncedWasForwarded
<1>4. CASE SendSync
  <2> USE <1>4 DEF SendSync
  <2>1. Types'
    BY DEF Syncs
  <2>2. CountsBounded' /\ ReadForwarded'
    BY DEF CountsBounded, Handled, ReadForwarded, Syncs
  <2>3. AnnouncedWasForwarded'
    BY DEF ReadForwarded, AnnouncedWasForwarded
  <2> QED BY <2>1, <2>2, <2>3 DEF MapForwarded, SentForwarded
<1>5. CASE ZeroCount
  <2> USE <1>5 DEF ZeroCount
  <2>1. Types'
    BY DEF Syncs
  <2>2. 0 <= Handled
    BY DEF CountsBounded, Handled
  <2>3. CountsBounded' /\ ReadForwarded'
    BY <2>2 DEF CountsBounded, Handled, ReadForwarded, Syncs
  <2> QED
    BY <2>1, <2>3 DEF MapForwarded, SentForwarded, AnnouncedWasForwarded
<1> QED BY <1>1, <1>2, <1>3, <1>4, <1>5 DEF SyncThread

\* Failures, the destructor and the end of the history change no data.
LEMMA OtherInv ==
  ASSUME SyncInv, SendThreadFails \/ SyncFails \/ Destroy \/ UNCHANGED syncVars
  PROVE  SyncInv'
<1>1. /\ UNCHANGED <<ids, ticks, bufsSent, snd, syn, packets, forwarded, announced>>
      /\ endThreads' \in BOOLEAN /\ alive' \in BOOLEAN
  BY DEF SendThreadFails, SyncFails, Destroy, syncVars, sharedVars, history, SyncInv, Types
<1> QED
  BY <1>1
  DEF SyncInv, Types, CountsBounded, Handled, MapForwarded, SentForwarded, ReadForwarded,
      AnnouncedWasForwarded

LEMMA SyncNextInv == SyncInv /\ [SyncNext]_syncVars => SyncInv'
BY SendThreadInv, SyncThreadInv, OtherInv DEF SyncNext, Stopped

-----------------------------------------------------------------------------
(* ServerSync: theorems.                                                   *)

LEMMA SyncSpecInv == SyncSpec => []SyncInv
BY SyncInitInv, SyncNextInv, PTL DEF SyncSpec

\* The variables have their types in every reachable state.  That a count never
\* exceeds the number of packets takes the whole of CountsBounded: the two halves
\* of bufsSent[srcId]++ race with the announcing thread's zero.
THEOREM SyncTypeCorrect == SyncSpec => []SyncTypeOK
<1>1. SyncInv => SyncTypeOK
  BY SyncAssumption
  DEF SyncInv, Types, SyncTypeOK, CountsBounded, Handled, Sends, Syncs
<1> QED BY <1>1, SyncSpecInv, PTL

\* In every interleaving of the two threads with no lock between them, a tick
\* that the control plane is told belongs to a packet already forwarded.
THEOREM AnnouncedForwarded == SyncSpec => []AnnouncedWasForwarded
<1>1. SyncInv => AnnouncedWasForwarded
  BY DEF SyncInv
<1> QED BY <1>1, SyncSpecInv, PTL
=============================================================================
