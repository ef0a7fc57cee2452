--------------------------- MODULE ServerRegistry ---------------------------
(***************************************************************************)
(* How consumers reach the control plane through an EjfatServer: every     *)
(* serverConsumer (simpleAPI/serverConsumer.cpp) sends REGISTER, UPDATE    *)
(* and DEREGISTER messages over UDP, and consumerThreadFunc of             *)
(* simpleAPI/EjfatServer.cpp turns them into calls of the client object it *)
(* keeps for that consumer.  A consumer is named by its key, "ip:port".    *)
(***************************************************************************)
EXTENDS Naturals, FiniteSets

CONSTANTS
    Keys,       \* addresses consumers may run at
    MaxMsgs,    \* bound: messages sent
    CanLose,    \* may the network lose a message?
    CanFail     \* may a call of the control plane fail?

NoKey == "none"    \* port and ipAddr before the first message is parsed
NoSession == 0

ASSUME RegistryAssumption ==
    /\ NoKey \notin Keys
    /\ MaxMsgs \in Nat
    /\ CanLose \in BOOLEAN
    /\ CanFail \in BOOLEAN

VARIABLES
    consumer,   \* key -> life of the serverConsumer there, and its thread
    net,        \* messages on the way; n tells them apart
    msgs,       \* messages sent so far
    key,        \* consumerThreadFunc's port and ipAddr
    LbClients,  \* key -> the session of the client object in the map
    sessions,   \* control plane: session -> the key it is for
    ended,      \* control plane: sessions ended by Deregister calls
    reports,    \* control plane: [session, by] of the SendState calls
    running     \* the server has not called exit(1)

cpVars == <<sessions, ended, reports>>
vars == <<consumer, net, msgs, key, LbClients, cpVars, running>>

Message == [cmd : {"REGISTER", "UPDATE", "DEREGISTER"}, key : Keys, n : 1 .. MaxMsgs]

Init ==
    /\ consumer = [k \in Keys |-> [state |-> "none", thread |-> "none"]]
    /\ net = {}
    /\ msgs = 0
    /\ key = NoKey
    /\ LbClients = [k \in Keys |-> NoSession]
    /\ sessions = << >>
    /\ ended = {}
    /\ reports = {}
    /\ running = TRUE

(***************************************************************************)
(* serverConsumer.                                                         *)
(***************************************************************************)
Send(cmd, k) ==
    /\ msgs < MaxMsgs
    /\ msgs' = msgs + 1
    /\ net' = net \cup {[cmd |-> cmd, key |-> k, n |-> msgs']}

serverSide == <<key, LbClients, cpVars, running>>

\* The constructor starts the thread that talks to the server ...
CreateConsumer(k) ==
    /\ consumer[k].state = "none"
    /\ consumer' = [consumer EXCEPT ![k] = [state |-> "started", thread |-> "check"]]
    /\ UNCHANGED <<net, msgs, serverSide>>

\* ... and only then registers.
RegisterWithSimpleServer(k) ==
    /\ consumer[k].state = "started"
    /\ consumer' = [consumer EXCEPT ![k].state = "constructed"]
    /\ Send("REGISTER", k)
    /\ UNCHANGED serverSide

\* serverThreadFunc looks at endThreads, then sleeps and samples ...
CheckEndThreads(k) ==
    /\ consumer[k].thread = "check"
    /\ consumer' = [consumer EXCEPT ![k].thread =
                       IF consumer[k].state = "ended" THEN "none" ELSE "sample"]
    /\ UNCHANGED <<net, msgs, serverSide>>

\* ... and reports, whether or not endThreads was set meanwhile.
UpdateSimpleServer(k) ==
    /\ consumer[k].thread = "sample"
    /\ consumer' = [consumer EXCEPT ![k].thread = "check"]
    /\ Send("UPDATE", k)
    /\ UNCHANGED serverSide

\* The destructor sets endThreads and deregisters.
DestroyConsumer(k) ==
    /\ consumer[k].state = "constructed"
    /\ consumer' = [consumer EXCEPT ![k].state = "ended"]
    /\ Send("DEREGISTER", k)
    /\ UNCHANGED serverSide

\* The thread objects are destroyed without join(), which ends the process;
\* a new one may use the same address.
EndProcess(k) ==
    /\ consumer[k].state = "ended"
    /\ consumer' = [consumer EXCEPT ![k] = [state |-> "none", thread |-> "none"]]
    /\ UNCHANGED <<net, msgs, serverSide>>

\* External: the network loses a message.
LoseMessage(m) ==
    /\ CanLose
    /\ net' = net \ {m}
    /\ UNCHANGED <<consumer, msgs, serverSide>>

(***************************************************************************)
(* consumerThreadFunc.                                                     *)
(***************************************************************************)
\* recvfrom() gives the server message m with this command.
Receive(m, cmd) ==
    /\ running
    /\ m.cmd = cmd
    /\ net' = net \ {m}
    /\ UNCHANGED <<consumer, msgs>>

\* A call of the control plane fails and the server calls exit(1).
GrpcOutcome == running' \in {TRUE, ~CanFail}

\* LbClients.at(k) finds a client object.
HasClient(k) == k \in Keys /\ LbClients[k] # NoSession

\* Mutant of UpdateKey: the message is not parsed.
UpdateKeyUnparsed(m) == key

\* parseUpdateStatusData() puts the sender's address into port and ipAddr.
UpdateKey(m) == m.key

\* UPDATE of a consumer that is not in the map: "register first!".
ReceiveUnknownUpdate(m) ==
    /\ Receive(m, "UPDATE")
    /\ key' = UpdateKey(m)
    /\ ~HasClient(key')
    /\ UNCHANGED <<LbClients, cpVars, running>>

ReceiveUpdate(m) ==
    /\ Receive(m, "UPDATE")
    /\ key' = UpdateKey(m)
    /\ HasClient(key')
    /\ reports' = reports \cup {[session |-> LbClients[key'], by |-> m.key]}
    /\ GrpcOutcome
    /\ UNCHANGED <<LbClients, sessions, ended>>

\* Mutant of ClientsWith: emplace() does not replace the client of the key.
ClientsWithFirst(k, session) ==
    IF LbClients[k] = NoSession THEN [LbClients EXCEPT ![k] = session] ELSE LbClients

ClientsWith(k, session) == [LbClients EXCEPT ![k] = session]

\* REGISTER: a new client object replaces the one in the map, and the control
\* plane opens a session for it.
ReceiveRegister(m) ==
    LET session == Cardinality(DOMAIN sessions) + 1
    IN  /\ Receive(m, "REGISTER")
        /\ key' = m.key
        /\ LbClients' = ClientsWith(m.key, session)
        /\ sessions' = [s \in 1 .. session |->
                           IF s = session THEN m.key ELSE sessions[s]]
        /\ GrpcOutcome
        /\ UNCHANGED <<ended, reports>>

\* DEREGISTER is not parsed: port and ipAddr are those of the message before.
ReceiveUnknownDeregister(m) ==
    /\ Receive(m, "DEREGISTER")
    /\ ~HasClient(key)
    /\ UNCHANGED <<key, LbClients, cpVars, running>>

ReceiveDeregister(m) ==
    /\ Receive(m, "DEREGISTER")
    /\ HasClient(key)
    /\ ended' = ended \cup {LbClients[key]}
    /\ GrpcOutcome
    /\ UNCHANGED <<key, LbClients, sessions, reports>>

ConsumerThread(m) ==
    \/ ReceiveUnknownUpdate(m) \/ ReceiveUpdate(m)
    \/ ReceiveRegister(m)
    \/ ReceiveUnknownDeregister(m) \/ ReceiveDeregister(m)

ConsumerStep(k) ==
    \/ CreateConsumer(k) \/ RegisterWithSimpleServer(k)
    \/ CheckEndThreads(k) \/ UpdateSimpleServer(k)
    \/ DestroyConsumer(k) \/ EndProcess(k)

\* The end of a bounded history.
Finished ==
    /\ msgs = MaxMsgs
    /\ net = {} \/ ~running
    /\ UNCHANGED vars

Next ==
    \/ \E k \in Keys : ConsumerStep(k)
    \/ \E m \in net : ConsumerThread(m) \/ LoseMessage(m)
    \/ Finished

Spec == Init /\ [][Next]_vars

-----------------------------------------------------------------------------
\* Types of the variables.
TypeOK ==
    /\ consumer \in [Keys -> 
          [state : {"none", "started", "constructed", "ended"},
           thread : {"none", "check", "sample"}]]
    /\ net \subseteq Message
    /\ msgs \in 0 .. MaxMsgs
    /\ key \in Keys \cup {NoKey}
    /\ LbClients \in [Keys -> {NoSession} \cup DOMAIN sessions]
    /\ sessions \in [1 .. Cardinality(DOMAIN sessions) -> Keys]
    /\ ended \subseteq DOMAIN sessions
    /\ \A r \in reports : r.session \in DOMAIN sessions /\ r.by \in Keys
    /\ running \in BOOLEAN

\* The client object in the map is the one of the consumer's last REGISTER, so
\* that a consumer that comes back reports to its new session
\* (EjfatServer.cpp:577).
NewestSessionServes ==
    \A s \in DOMAIN sessions : s <= LbClients[sessions[s]]

\* What a consumer reports reaches the control plane as that consumer's state,
\* never as another's, in whatever order messages arrive (EjfatServer.cpp:527-556).
ReportsFromOwner == \A r \in reports : sessions[r.session] = r.by
=============================================================================
