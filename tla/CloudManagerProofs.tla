------------------------- MODULE CloudManagerProofs -------------------------
(* What holds of CloudManager for every value of its constants.            *)
EXTENDS CloudManager, TLAPS

-----------------------------------------------------------------------------
(* TypeOK.                                                                 *)

\* Queues of messages.
LEMMA QueueType ==
  ASSUME NEW S, NEW q \in Seq(S)
  PROVE  /\ <<>> \in Seq(S) /\ \A m \in S : Append(q, m) \in Seq(S)
         /\ q # <<>> => Head(q) \in S /\ Tail(q) \in Seq(S)
  OBVIOUS

\* What a client's state says of the fields beside it.
LEMMA ClientFields ==
  ASSUME NEW s \in Client
  PROVE  /\ s.at = "queued" =>
              /\ s.op \in {"sync", "unsync"} => s.id \in Keys
              /\ s.op \in {"expose", "unexpose"} => s.port \in Ports
         /\ s.at = "exposing" => s.port \in Ports
  BY DEF Client

LEMMA ClientTypes ==
  /\ Idle \in Client /\ [at |-> "served"] \in Client
  /\ \A op \in {"sync", "unsync"}, k \in Keys :
       [at |-> "queued", op |-> op, id |-> k] \in Client
  /\ \A op \in {"expose", "unexpose"}, p \in Ports :
       [at |-> "queued", op |-> op, port |-> p] \in Client
  /\ \A p \in Ports : [at |-> "exposing", port |-> p] \in Client
  BY DEF Client, Idle

LEMMA ActorFields ==
  ASSUME NEW a \in Actor, a.at \in {"send", "await"}, a.op \in {"sync", "unsync"}
  PROVE  /\ a.id \in Keys /\ a.client \in Clients \cup {"web"}
         /\ [a EXCEPT !.at = "await"] \in Actor
         /\ [a EXCEPT !.at = "await"].op = a.op /\ [a EXCEPT !.at = "await"].id = a.id
         /\ [a EXCEPT !.at = "await"].client = a.client
         /\ [a EXCEPT !.at = "await"].at = "await"
  BY DEF Actor

\* Only syncs and unsyncs wait for a confirmation.
LEMMA AwaitsSyncs ==
  ASSUME NEW a \in Actor, a.at = "await"
  PROVE  a.op \in {"sync", "unsync"}
  BY DEF Actor

LEMMA PortFields ==
  ASSUME NEW a \in Actor, a.at = "send", a.op \in {"expose", "unexpose"}
  PROVE  a.port \in Ports /\ a.client \in Clients
  BY DEF Actor

LEMMA ActorTypes ==
  /\ Idle \in Actor /\ Sending \in Actor
  /\ \A op \in {"expose", "unexpose"}, p \in Ports, c \in Clients :
       [at |-> "send", op |-> op, port |-> p, client |-> c] \in Actor
  /\ \A op \in {"sync", "unsync"}, k \in Keys, c \in Clients \cup {"web"} :
       [at |-> "send", op |-> op, id |-> k, client |-> c] \in Actor
  BY DEF Actor, Idle, Sending

\* The sync or unsync the manager is at when it sends one, and when it waits.
Requests == actor.at \in {"send", "await"} /\ actor.op \in {"sync", "unsync"}

LEMMA RequestIsSync ==
  TypeOK /\ (SendRequest \/ Confirmation) => Requests
  BY AwaitsSyncs DEF TypeOK, SendRequest, Confirmation, ReceiveConfirmation,
     ConfirmationTimeout, Requests

\* The messages the two sides send.
LEMMA MessageTypes ==
  /\ \A t \in {"sync", "unsync", "exited"}, k \in Keys : [type |-> t, id |-> k] \in ToCloud
  /\ \A t \in {"expose", "unexpose"}, p \in Ports : [type |-> t, port |-> p] \in ToCloud
  /\ [type |-> "ping"] \in ToCloud
  /\ \A T \in SUBSET Keys, P \in SUBSET Ports :
       [type |-> "status", terms |-> T, ports |-> P] \in ToCloud
  /\ \A t \in {"ok", "error"}, op \in {"sync", "unsync"}, k \in Keys :
       [type |-> t, op |-> op, id |-> k] \in FromCloud
  /\ \A t \in {"web_create", "web_kill"}, k \in Keys : [type |-> t, id |-> k] \in FromCloud
  /\ \A t \in {"expose.ok", "expose.error"}, p \in Ports :
       [type |-> t, port |-> p] \in FromCloud
  /\ [type |-> "nontext"] \in FromCloud /\ [type |-> "other"] \in FromCloud
  BY DEF ToCloud, FromCloud

\* What the type of a message says of its fields.
LEMMA ToCloudFields ==
  ASSUME NEW m \in ToCloud
  PROVE  /\ m.type \in {"sync", "unsync", "exited"} => m.id \in Keys
         /\ m.type \in {"expose", "unexpose"} => m.port \in Ports
         /\ m.type = "status" => m.terms \in SUBSET Keys /\ m.ports \in SUBSET Ports
  BY DEF ToCloud

LEMMA FromCloudFields ==
  ASSUME NEW m \in FromCloud
  PROVE  /\ m.type \in {"web_create", "web_kill"} => m.id \in Keys
         /\ m.type \in {"expose.ok", "expose.error"} => m.port \in Ports
  BY DEF FromCloud

\* The parts of the type invariant, named by what moves together.
LinkType  == /\ conn \in {"none", "up", "broken"}
             /\ toCloud \in Seq(ToCloud) /\ fromCloud \in Seq(FromCloud)
             /\ crossed \in BOOLEAN
TermsType == terminals \subseteq Keys /\ synced \subseteq Keys /\ readers \in [Keys -> Nat]
TaskType  == client \in [Clients -> Client] /\ actor \in Actor
PortsType == /\ exposed_ports \subseteq Ports
             /\ pending_expose \in [Ports -> Clients \cup {None}]

LEMMA TypeParts ==
  TypeOK <=> /\ LinkType /\ TermsType /\ TaskType /\ PortsType
             /\ shell \in [Keys -> {"unused", "running", "ended"}]
             /\ disconnect_at \in BOOLEAN
             /\ cloudTerms \subseteq Keys /\ cloudPorts \subseteq Ports
  BY Zenon DEF TypeOK, LinkType, TermsType, TaskType, PortsType

\* Dropping the connection, and sending on it.
LEMMA DropConnType == DropConn => LinkType'
<1> SUFFICES ASSUME DropConn PROVE LinkType'
  OBVIOUS
<1>1. crossed' \in BOOLEAN
  BY Zenon DEF DropConn
<1>2. QED
  BY <1>1 DEF DropConn, LinkType

LEMMA TransmitType ==
  ASSUME TypeOK, NEW m \in ToCloud, Transmit(m)
  PROVE  LinkType'
<1>1. DeviceStatus \in ToCloud
  BY MessageTypes DEF DeviceStatus, TypeOK
<1>2. <<DeviceStatus, m>> \in Seq(ToCloud)
  BY <1>1
<1>3. QED
  BY <1>2, QueueType DEF Transmit, Put, TypeOK, LinkType

\* The end of a sync or unsync.
LEMMA ReplyType ==
  ASSUME TypeOK, Requests, Reply
  PROVE  client' \in [Clients -> Client] /\ shell' \in [Keys -> {"unused", "running", "ended"}]
  BY ActorFields, ClientTypes DEF Reply, Answered, TypeOK, Requests

LEMMA SucceedType ==
  ASSUME TypeOK, Requests, Succeed
  PROVE  /\ TermsType' /\ TaskType' /\ disconnect_at' \in BOOLEAN
         /\ shell' \in [Keys -> {"unused", "running", "ended"}]
<1>1. TaskType' /\ shell' \in [Keys -> {"unused", "running", "ended"}]
  BY ReplyType, ActorTypes DEF Succeed, TaskType
<1>2. TermsType'
  <2>1. actor \in Actor /\ actor.id \in Keys
    BY ActorFields DEF TypeOK, Requests
  <2>2. terminals' \subseteq Keys /\ synced' \subseteq Keys
    BY <2>1 DEF Succeed, Release, TypeOK
  <2>3. readers' = readers \/ readers' = [readers EXCEPT ![actor.id] = @ + 1]
    BY Zenon DEF Succeed
  <2>4. readers \in [Keys -> Nat] /\ readers[actor.id] + 1 \in Nat
    BY <2>1 DEF TypeOK
  <2>5. readers' \in [Keys -> Nat]
    BY <2>1, <2>3, <2>4
  <2>6. QED
    BY <2>2, <2>5 DEF TermsType
<1>3. disconnect_at' \in BOOLEAN
  BY Zenon DEF Succeed, Release, TypeOK
<1>4. QED
  BY <1>1, <1>2, <1>3

LEMMA FailType ==
  ASSUME TypeOK, Requests, Fail
  PROVE  /\ TermsType' /\ TaskType' /\ disconnect_at' \in BOOLEAN
         /\ shell' \in [Keys -> {"unused", "running", "ended"}]
<1>1. TaskType' /\ shell' \in [Keys -> {"unused", "running", "ended"}]
  BY ReplyType, ActorTypes DEF Fail, TaskType
<1>2. TermsType' /\ disconnect_at' \in BOOLEAN
  BY DEF Fail, TypeOK, TermsType
<1>3. QED
  BY <1>1, <1>2

LEMMA RequestType == TypeOK /\ (SendRequest \/ Confirmation) => TypeOK'
<1> SUFFICES ASSUME TypeOK, SendRequest \/ Confirmation PROVE TypeOK'
  OBVIOUS
<1>1. Requests /\ actor.at \in {"send", "await"} /\ actor.op \in {"sync", "unsync"}
  BY RequestIsSync DEF Requests
<1>2. CASE SendRequest
  <2>1. CASE /\ Transmit([type |-> actor.op, id |-> actor.id])
             /\ actor' = [actor EXCEPT !.at = "await"]
             /\ UNCHANGED <<shell, client, terms, disconnect_at>>
    <3>1. LinkType'
      BY <1>1, <2>1, ActorFields, MessageTypes, TransmitType DEF TypeOK
    <3>2. QED
      BY <1>1, <1>2, <2>1, <3>1, ActorFields
         DEF SendRequest, LinkType, TypeOK, terms, ports, cloud
  <2>2. CASE (CannotConnect \/ (CannotSend /\ DropConn)) /\ Fail
    <3>1. LinkType'
      BY <2>2, DropConnType DEF CannotConnect, link, LinkType, TypeOK
    <3>2. QED
      BY <1>1, <1>2, <2>2, <3>1, FailType
         DEF SendRequest, LinkType, TermsType, TaskType, TypeOK, ports, cloud
  <2>3. QED
    BY <1>2, <2>1, <2>2 DEF SendRequest
<1>3. CASE ReceiveConfirmation
  <2>1. LinkType'
    <3>1. CASE DropConn
      BY <3>1, DropConnType
    <3>2. CASE /\ fromCloud' = Tail(fromCloud) /\ UNCHANGED <<conn, toCloud>>
               /\ crossed' \in BOOLEAN
      BY <1>3, <3>2, QueueType DEF ReceiveConfirmation, LinkType, TypeOK
    <3>3. fromCloud' = Tail(fromCloud) => crossed' \in BOOLEAN \/ DropConn
      BY <1>3, Zenon DEF ReceiveConfirmation, TypeOK
    <3>4. QED
      BY <1>3, <3>1, <3>2, <3>3 DEF ReceiveConfirmation
  <2>2. Succeed \/ Fail
    BY <1>3 DEF ReceiveConfirmation
  <2>3. QED
    BY <1>1, <1>3, <2>1, <2>2, FailType, SucceedType
       DEF ReceiveConfirmation, LinkType, TermsType, TaskType, TypeOK, ports, cloud
<1>4. CASE ConfirmationTimeout
  BY <1>1, <1>4, FailType, DropConnType
     DEF ConfirmationTimeout, LinkType, TermsType, TaskType, TypeOK, ports, cloud
<1>5. QED
  BY <1>2, <1>3, <1>4 DEF Confirmation

\* A command for a port.
LEMMA TakePortType ==
  ASSUME TypeOK, NEW c \in Clients, TakeExpose(c) \/ TakeUnexpose(c)
  PROVE  TypeOK'
<1>1. /\ client[c] \in Client /\ client[c].at = "queued"
      /\ client[c].op \in {"expose", "unexpose"}
  BY DEF TypeOK, Takes, TakeExpose, TakeUnexpose
<1>2. client[c].port \in Ports
  BY <1>1, ClientFields
<1>3. /\ client' = [client EXCEPT ![c] = Idle] \/ client' = [client EXCEPT ![c] = [at |-> "served"]]
      /\ \/ actor' = actor
         \/ actor' = [at |-> "send", op |-> client[c].op, port |-> client[c].port, client |-> c]
  BY Zenon DEF TakeExpose, TakeUnexpose, BeginPort, Answered, Served
<1>4. TaskType'
  BY <1>1, <1>2, <1>3, ClientTypes, ActorTypes DEF TypeOK, TaskType
<1>5. QED
  BY <1>4 DEF TakeExpose, TakeUnexpose, TypeOK, TaskType, terms, ports, link, cloud

\* What is sent for a port.
LEMMA SendPortType ==
  ASSUME TypeOK, SendExpose \/ SendUnexpose
  PROVE  TypeOK'
<1> DEFINE p == actor.port
           c == actor.client
<1>1. p \in Ports /\ c \in Clients
  BY PortFields DEF TypeOK, SendExpose, SendUnexpose
<1>2. LinkType'
  BY <1>1, TransmitType, DropConnType, MessageTypes
     DEF SendExpose, SendUnexpose, CannotConnect, LinkType, TypeOK, link
<1>3. client' \in [Clients -> Client]
  <2>1. CASE SendExpose
    <3>1. \A d \in Clients : client'[d] \in {client[d], Idle, [at |-> "exposing", port |-> p]}
      BY <1>1, <2>1 DEF SendExpose, Answered, Freed, TypeOK
    <3>2. client' = [d \in Clients |-> client'[d]]
      BY <2>1 DEF SendExpose, Answered, Freed, TypeOK
    <3>3. QED
      BY <1>1, <3>1, <3>2, ClientTypes DEF TypeOK
  <2>2. CASE SendUnexpose
    BY <2>2, ClientTypes DEF SendUnexpose, Answered, TypeOK
  <2>3. QED
    BY <2>1, <2>2
<1>4. PortsType'
  <2>1. /\ pending_expose' \in {pending_expose, [pending_expose EXCEPT ![p] = c],
                                [pending_expose EXCEPT ![p] = None]}
        /\ exposed_ports' \in {exposed_ports, exposed_ports \cup {p}, exposed_ports \ {p}}
    BY DEF SendExpose, SendUnexpose, ports
  <2>2. QED
    BY <1>1, <2>1 DEF PortsType, TypeOK
<1>5. TaskType'
  BY <1>3, ActorTypes DEF TaskType, SendExpose, SendUnexpose
<1>6. QED
  BY <1>2, <1>4, <1>5
     DEF SendExpose, SendUnexpose, LinkType, PortsType, TaskType, TypeOK, terms, cloud

LEMMA CommandType ==
  ASSUME TypeOK, NEW c \in Clients, TakeSync(c) \/ TakeUnsync(c)
  PROVE  TypeOK'
<1> USE DEF terms, ports, link, cloud
<1>1. client[c] \in Client /\ client[c].at = "queued"
  BY DEF TypeOK, Takes, TakeSync, TakeUnsync
<1>2. CASE TakeSync(c)
  <2>1. client[c].id \in Keys
    BY <1>1, <1>2, ClientFields DEF TakeSync, Takes
  <2>2. TaskType'
    <3>1. /\ client' = [client EXCEPT ![c] = Idle] \/ client' = [client EXCEPT ![c] = [at |-> "served"]]
          /\ \/ actor' = actor
             \/ actor' = [at |-> "send", op |-> "sync", id |-> client[c].id, client |-> c]
      BY <1>2, Zenon DEF TakeSync, BeginSync, Answered, Served
    <3>2. [at |-> "send", op |-> "sync", id |-> client[c].id, client |-> c] \in Actor
      BY <2>1 DEF Actor
    <3>3. QED
      BY <3>1, <3>2, ClientTypes DEF TypeOK, TaskType
  <2>3. disconnect_at' \in BOOLEAN
    BY <1>2, Zenon DEF TakeSync, BeginSync, TypeOK
  <2>4. synced' \subseteq Keys /\ UNCHANGED <<terminals, readers>>
    BY <1>2, <2>1 DEF TakeSync, BeginSync, TypeOK
  <2>5. QED
    BY <1>2, <2>2, <2>3, <2>4 DEF TakeSync, TypeOK, TaskType
<1>3. CASE TakeUnsync(c)
  <2>1. client[c].id \in Keys
    BY <1>1, <1>3, ClientFields DEF TakeUnsync, Takes
  <2>2. TaskType'
    <3>1. /\ client' = [client EXCEPT ![c] = Idle] \/ client' = [client EXCEPT ![c] = [at |-> "served"]]
          /\ \/ actor' = actor
             \/ actor' = [at |-> "send", op |-> "unsync", id |-> client[c].id, client |-> c]
      BY <1>3, Zenon DEF TakeUnsync, BeginUnsync, Answered, Served
    <3>2. [at |-> "send", op |-> "unsync", id |-> client[c].id, client |-> c] \in Actor
      BY <2>1 DEF Actor
    <3>3. QED
      BY <3>1, <3>2, ClientTypes DEF TypeOK, TaskType
  <2>3. UNCHANGED <<terminals, synced, readers, disconnect_at>>
    BY <1>3, Zenon DEF TakeUnsync, BeginUnsync
  <2>4. QED
    BY <1>3, <2>2, <2>3 DEF TakeUnsync, TypeOK, TaskType
<1>4. QED
  BY <1>2, <1>3

LEMMA ArrivalType ==
  TypeOK /\ (Message \/ ConnLost \/ Disconnect \/ Heartbeat \/ SlowSend \/ SendEnds) => TypeOK'
<1> SUFFICES ASSUME TypeOK, Message \/ ConnLost \/ Disconnect \/ Heartbeat \/ SlowSend \/ SendEnds
             PROVE  TypeOK'
  OBVIOUS
<1> USE DEF terms, ports, link, cloud
<1>1. CASE Message
  <2> DEFINE m == Head(fromCloud)
  <2>1. m \in FromCloud /\ fromCloud' \in Seq(FromCloud)
    BY <1>1, QueueType DEF Message, TypeOK
  <2>2. CASE m.type = "web_create" /\ WebCreate(m.id)
    <3>1. m.id \in Keys
      BY <2>1, <2>2, FromCloudFields
    <3>2. TermsType' /\ TaskType' /\ shell' \in [Keys -> {"unused", "running", "ended"}]
      BY <2>2, <3>1, ActorTypes DEF WebCreate, BeginSync, TypeOK, TermsType, TaskType
    <3>3. disconnect_at' \in BOOLEAN
      BY <2>2, Zenon DEF WebCreate, BeginSync, TypeOK
    <3>4. QED
      BY <1>1, <2>1, <2>2, <3>2, <3>3
         DEF Message, WebCreate, TypeOK, TermsType, TaskType
  <2>3. CASE m.type = "web_kill" /\ WebKill(m.id)
    BY <1>1, <2>1, <2>3, FromCloudFields, ActorTypes DEF Message, WebKill, BeginUnsync, TypeOK
  <2>4. CASE m.type \in {"expose.ok", "expose.error"} /\ ExposeAnswer(m)
    BY <1>1, <2>1, <2>4, FromCloudFields, ClientTypes
       DEF Message, ExposeAnswer, Freed, TypeOK
  <2>5. CASE UNCHANGED <<shell, client, actor, terms, ports, disconnect_at>>
    BY <1>1, <2>1, <2>5 DEF Message, TypeOK
  <2>6. QED
    BY <1>1, <2>2, <2>3, <2>4, <2>5 DEF Message
<1>2. CASE ConnLost
  BY <1>2, DropConnType DEF ConnLost, LinkType, TypeOK
<1>3. CASE Disconnect
  <2>1. disconnect_at' \in BOOLEAN
    BY <1>3, Zenon DEF Disconnect
  <2>2. LinkType'
    BY <1>3, DropConnType DEF Disconnect
  <2>3. QED
    BY <1>3, <2>1, <2>2, ActorTypes DEF Disconnect, TypeOK, LinkType
<1>4. CASE Heartbeat
  <2>1. LinkType'
    BY <1>4, DropConnType, QueueType, MessageTypes DEF Heartbeat, Put, TypeOK, LinkType
  <2>2. QED
    BY <1>4, <2>1 DEF Heartbeat, TypeOK, LinkType
<1>5. CASE SlowSend \/ SendEnds
  BY <1>5, ActorTypes DEF SlowSend, SendEnds, TypeOK
<1>6. QED
  BY <1>1, <1>2, <1>3, <1>4, <1>5

LEMMA ExitedType ==
  ASSUME TypeOK, NEW k \in Keys, TerminalExited(k)
  PROVE  TypeOK'
<1>1. readers' \in [Keys -> Nat]
  BY DEF TerminalExited, TypeOK
<1>2. toCloud' \in Seq(ToCloud)
  BY QueueType, MessageTypes DEF TerminalExited, Put, TypeOK
<1>3. QED
  BY <1>1, <1>2 DEF TerminalExited, Release, TypeOK, ports, cloud

\* Clients, shells and the cloud.
LEMMA OutsideType ==
  /\ TypeOK
  /\ \/ \E c \in Clients : ClientStep(c)
     \/ \E k \in Keys : ShellStarts(k) \/ ShellEnds(k)
     \/ CloudStep \/ ConnFails
     \/ \E k \in Keys : WebRequest("web_create", k) \/ WebRequest("web_kill", k)
     \/ WebTraffic("other") \/ WebTraffic("nontext")
  => TypeOK'
<1> USE DEF terms, ports, link, cloud
<1>1. ASSUME TypeOK, NEW c \in Clients, ClientStep(c) PROVE TypeOK'
  <2>1. ASSUME NEW k \in Keys, CommandTerminal(c, "sync", k) \/ CommandTerminal(c, "unsync", k)
        PROVE  TypeOK'
    BY <2>1, <1>1, ClientTypes DEF CommandTerminal, TypeOK
  <2>2. ASSUME NEW p \in Ports, CommandPort(c, "expose", p) \/ CommandPort(c, "unexpose", p)
        PROVE  TypeOK'
    BY <2>2, <1>1, ClientTypes DEF CommandPort, TypeOK
  <2>3. QED
    BY <1>1, <2>1, <2>2 DEF ClientStep
<1>2. ASSUME TypeOK, NEW k \in Keys, ShellStarts(k) \/ ShellEnds(k) PROVE TypeOK'
  BY <1>2 DEF ShellStarts, ShellEnds, TypeOK
<1>3. ASSUME TypeOK, CloudStep PROVE TypeOK'
  <2> DEFINE m == Head(toCloud)
  <2>1. m \in ToCloud /\ toCloud' \in Seq(ToCloud)
    BY <1>3, QueueType DEF CloudStep, TypeOK
  <2>2. cloudTerms' \subseteq Keys /\ cloudPorts' \subseteq Ports
    BY <1>3, <2>1, ToCloudFields DEF CloudStep, CloudTakes, TypeOK
  <2>3. fromCloud' \in Seq(FromCloud)
    <3>1. \/ UNCHANGED fromCloud
          \/ \E a \in FromCloud : fromCloud' = Append(fromCloud, a)
      BY <1>3, <2>1, ToCloudFields, MessageTypes DEF CloudStep, CloudTakes, Sends
    <3>2. QED
      BY <1>3, <3>1, QueueType DEF TypeOK
  <2>4. QED
    BY <1>3, <2>1, <2>2, <2>3 DEF CloudStep, TypeOK
<1>4. ASSUME TypeOK, ConnFails PROVE TypeOK'
  BY <1>4 DEF ConnFails, TypeOK
<1>5. ASSUME TypeOK, NEW k \in Keys, WebRequest("web_create", k) \/ WebRequest("web_kill", k)
      PROVE  TypeOK'
  <2>1. PICK op \in {"web_create", "web_kill"} : WebRequest(op, k)
    BY <1>5
  <2>2. fromCloud' \in Seq(FromCloud)
    <3>1. [type |-> op, id |-> k] \in FromCloud
      BY MessageTypes
    <3>2. fromCloud' = Append(fromCloud, [type |-> op, id |-> k])
      BY <2>1 DEF WebRequest, Sends
    <3>3. QED
      BY <1>5, <3>1, <3>2, QueueType DEF TypeOK
  <2>3. QED
    BY <1>5, <2>2 DEF WebRequest, TypeOK
<1>6. ASSUME TypeOK, WebTraffic("other") \/ WebTraffic("nontext") PROVE TypeOK'
  <2>1. PICK t \in {"other", "nontext"} : WebTraffic(t)
    BY <1>6
  <2>2. fromCloud' = Append(fromCloud, [type |-> t])
    BY <2>1 DEF WebTraffic, Sends
  <2>3. fromCloud' \in Seq(FromCloud)
    BY <1>6, <2>2, MessageTypes, QueueType DEF TypeOK
  <2>4. QED
    BY <1>6, <2>1, <2>3 DEF WebTraffic, TypeOK
<1>7. QED
  BY <1>1, <1>2, <1>3, <1>4, <1>5, <1>6

LEMMA InitType == Init => TypeOK
<1> SUFFICES ASSUME Init PROVE TypeOK
  OBVIOUS
<1>1. disconnect_at \in BOOLEAN /\ crossed \in BOOLEAN
  BY Zenon DEF Init
<1>2. LinkType /\ TermsType /\ TaskType /\ PortsType
  BY <1>1, ClientTypes, ActorTypes DEF Init, LinkType, TermsType, TaskType, PortsType
<1>3. QED
  BY <1>1, <1>2 DEF Init, TypeOK, LinkType, TermsType, TaskType, PortsType

LEMMA NextType == TypeOK /\ [Next]_vars => TypeOK'
<1>1. TypeOK /\ UNCHANGED vars => TypeOK'
  BY DEF TypeOK, vars, terms, ports, link, cloud
<1>2. QED
  BY <1>1, RequestType, CommandType, TakePortType, SendPortType, ArrivalType, ExitedType,
     OutsideType DEF Next, Take

\* Every variable of the cloud manager's task, its connection and the cloud
\* keeps its type.
THEOREM TypeCorrect == Spec => []TypeOK
  BY InitType, NextType, PTL DEF Spec

-----------------------------------------------------------------------------
(* The delayed disconnect.                                                 *)

\* A terminal released while the task is idle or ends an unsync.
LEMMA ReleaseTimer ==
  ASSUME TypeOK, TimerIsIdle, NEW k \in Keys, Release(k), actor' = Idle
  PROVE  TimerIsIdle'
<1>1. disconnect_at' => disconnect_at \/ terminals \subseteq {k}
  BY Zenon DEF Release
<1>2. QED
  BY <1>1 DEF TimerIsIdle, Release, At, Idle

\* A sync that begins takes the timer back.
LEMMA BeginSyncTimer ==
  ASSUME NEW k, NEW who, BeginSync(k, who)
  PROVE  ~disconnect_at'
  BY Zenon DEF BeginSync

LEMMA RequestTimer == TypeOK /\ TimerIsIdle /\ (SendRequest \/ Confirmation) => TimerIsIdle'
<1> SUFFICES ASSUME TypeOK, TimerIsIdle, SendRequest \/ Confirmation PROVE TimerIsIdle'
  OBVIOUS
<1>1. /\ actor \in Actor /\ actor # Idle /\ actor.at \in {"send", "await"}
      /\ actor.op \in {"sync", "unsync"}
  BY RequestIsSync DEF Requests, TypeOK, Idle
<1>2. CASE actor' = [actor EXCEPT !.at = "await"] /\ UNCHANGED <<terms, disconnect_at>>
  <2>1. actor'.op = actor.op
    BY <1>1, <1>2, ActorFields
  <2>2. QED
    BY <1>1, <1>2, <2>1 DEF TimerIsIdle, At, terms
<1>3. CASE Fail
  BY <1>3 DEF Fail, TimerIsIdle, At, Idle
<1>4. CASE Succeed
  <2>1. CASE actor.op = "sync" /\ UNCHANGED disconnect_at
    BY <1>1, <2>1 DEF TimerIsIdle, At
  <2>2. CASE Release(actor.id)
    BY <1>1, <1>4, <2>2, ActorFields, ReleaseTimer DEF Succeed
  <2>3. QED
    BY <1>4, <2>1, <2>2 DEF Succeed
<1>5. QED
  BY <1>2, <1>3, <1>4 DEF Confirmation, SendRequest, ReceiveConfirmation, ConfirmationTimeout

LEMMA TimerStep == TypeOK /\ TimerIsIdle /\ [Next]_vars => TimerIsIdle'
<1> SUFFICES ASSUME TypeOK, TimerIsIdle, [Next]_vars PROVE TimerIsIdle'
  OBVIOUS
<1>1. ASSUME UNCHANGED <<terms, disconnect_at, actor>> PROVE TimerIsIdle'
  BY <1>1 DEF TimerIsIdle, At, terms
<1>2. ASSUME NEW k, NEW who, BeginUnsync(k, who) PROVE TimerIsIdle'
  BY <1>2 DEF TimerIsIdle, At, BeginUnsync, terms
<1>3. ASSUME NEW k, NEW who, BeginSync(k, who) PROVE TimerIsIdle'
  BY <1>3, BeginSyncTimer DEF TimerIsIdle
<1>4. ASSUME NEW c \in Clients, ClientStep(c) PROVE TimerIsIdle'
  BY <1>1, <1>4 DEF ClientStep, CommandTerminal, CommandPort
<1>5. ASSUME NEW c \in Clients, TakeSync(c) \/ TakeUnsync(c) PROVE TimerIsIdle'
  BY <1>1, <1>2, <1>3, <1>5 DEF TakeSync, TakeUnsync
<1>6. ASSUME \/ \E c \in Clients : TakeExpose(c) \/ TakeUnexpose(c)
             \/ SendExpose \/ SendUnexpose \/ SlowSend \/ SendEnds
      PROVE  TimerIsIdle'
  <2>1. /\ actor.at # "await" /\ UNCHANGED <<terms, disconnect_at>>
        /\ actor' = actor \/ actor'.at \in {"idle", "sending"}
             \/ actor'.op \in {"expose", "unexpose"}
    BY <1>6 DEF TakeExpose, TakeUnexpose, Takes, BeginPort, SendExpose, SendUnexpose,
       SlowSend, SendEnds, Polls, Idle, Sending
  <2>2. QED
    BY <2>1 DEF TimerIsIdle, At, terms
<1>7. ASSUME NEW k \in Keys, TerminalExited(k) PROVE TimerIsIdle'
  <2>1. CASE UNCHANGED <<terminals, disconnect_at>>
    BY <1>7, <2>1 DEF TerminalExited, TimerIsIdle, At
  <2>2. CASE Release(k)
    BY <1>7, <2>2, ReleaseTimer DEF TerminalExited, Polls
  <2>3. QED
    BY <1>7, <2>1, <2>2 DEF TerminalExited
<1>8. CASE Message
  BY <1>1, <1>2, <1>3, <1>8 DEF Message, WebCreate, WebKill, ExposeAnswer
<1>9. CASE Disconnect
  <2>1. ~disconnect_at'
    BY <1>9, Zenon DEF Disconnect
  <2>2. QED
    BY <2>1 DEF TimerIsIdle
<1>10. CASE \/ ConnLost \/ Heartbeat \/ CloudStep \/ ConnFails \/ UNCHANGED vars
            \/ \E k \in Keys : \/ ShellStarts(k) \/ ShellEnds(k)
                             \/ WebRequest("web_create", k) \/ WebRequest("web_kill", k)
            \/ \E t \in {"other", "nontext"} : WebTraffic(t)
  BY <1>1, <1>10 DEF ConnLost, Heartbeat, CloudStep, ConnFails, vars, ShellStarts,
     ShellEnds, WebRequest, WebTraffic
<1>11. QED
  BY <1>4, <1>5, <1>6, <1>7, <1>8, <1>9, <1>10, RequestTimer DEF Next, Take

\* The delayed disconnect never closes the connection of a synced terminal or
\* of a sync under way (cloud/manager.rs handle_sync, handle_unsync,
\* handle_terminal_exited and the timer of run).
THEOREM TimerCorrect == Spec => []TimerIsIdle
<1>1. Init => TimerIsIdle
  BY DEF Init, TimerIsIdle
<1>2. QED
  BY <1>1, TypeCorrect, TimerStep, PTL DEF Spec

-----------------------------------------------------------------------------
(* Readers.                                                                *)

LEMMA ReadersStep == TypeOK /\ ServedIsRead /\ [Next]_vars => ServedIsRead'
<1> SUFFICES ASSUME TypeOK, ServedIsRead, [Next]_vars PROVE ServedIsRead'
  OBVIOUS
<1>1. ASSUME UNCHANGED <<terminals, readers>> PROVE ServedIsRead'
  BY <1>1 DEF ServedIsRead
<1>2. ASSUME NEW c \in Clients, ClientStep(c) PROVE ServedIsRead'
  BY <1>1, <1>2 DEF ClientStep, CommandTerminal, CommandPort, terms
<1>3. ASSUME NEW c \in Clients, Take(c) PROVE ServedIsRead'
  BY <1>1, <1>3 DEF Take, TakeSync, TakeUnsync, TakeExpose, TakeUnexpose, BeginSync,
     BeginUnsync, terms
<1>4. CASE SendRequest \/ Confirmation
  <2>1. actor \in Actor /\ actor.at \in {"send", "await"} /\ actor.op \in {"sync", "unsync"}
    BY <1>4, RequestIsSync DEF Requests, TypeOK
  <2>2. CASE Succeed
    <3>1. actor.id \in Keys
      BY <2>1, ActorFields
    <3>2. QED
      BY <2>2, <3>1 DEF Succeed, Release, ServedIsRead, TypeOK
  <2>3. CASE Fail
    BY <1>1, <2>3 DEF Fail
  <2>4. QED
    BY <1>1, <1>4, <2>2, <2>3
       DEF Confirmation, SendRequest, ReceiveConfirmation, ConfirmationTimeout, terms
<1>5. ASSUME NEW k \in Keys, TerminalExited(k) PROVE ServedIsRead'
  <2>1. \A j \in terminals' : j # k /\ j \in terminals
    BY <1>5 DEF TerminalExited, Release
  <2>2. QED
    BY <1>5, <2>1 DEF TerminalExited, ServedIsRead, TypeOK
<1>6. CASE Message
  BY <1>1, <1>6 DEF Message, WebCreate, WebKill, BeginSync, BeginUnsync, ExposeAnswer, terms
<1>7. CASE \/ ConnLost \/ Disconnect \/ Heartbeat \/ CloudStep \/ ConnFails \/ UNCHANGED vars
           \/ \E k \in Keys : \/ ShellStarts(k) \/ ShellEnds(k)
                            \/ WebRequest("web_create", k) \/ WebRequest("web_kill", k)
           \/ \E t \in {"other", "nontext"} : WebTraffic(t)
           \/ SendExpose \/ SendUnexpose \/ SlowSend \/ SendEnds
  BY <1>1, <1>7 DEF ConnLost, Disconnect, Heartbeat, CloudStep, ConnFails, vars,
     ShellStarts, ShellEnds, WebRequest, WebTraffic, SendExpose, SendUnexpose, SlowSend,
     SendEnds, terms
<1>8. QED
  BY <1>2, <1>3, <1>4, <1>5, <1>6, <1>7 DEF Next

\* A terminal the manager serves never runs out of readers, so the end of its
\* shell is always reported (cloud/manager.rs spawn_pty_reader, handle_sync,
\* handle_terminal_exited).
THEOREM ReadersCorrect == Spec => []ServedIsRead
<1>1. Init => ServedIsRead
  BY DEF Init, ServedIsRead
<1>2. QED
  BY <1>1, TypeCorrect, ReadersStep, PTL DEF Spec

-----------------------------------------------------------------------------
(* Who waits for what.  ExposeIsPending is inductive given the types.      *)

\* Its two halves.
ExposingIsPending ==
  \A c \in Clients, p \in Ports :
    client[c].at = "exposing" /\ client[c].port = p <=> pending_expose[p] = c

Serving(c)    == actor.at \in {"send", "await"} /\ actor.client = c
ServedIsActor == \A c \in Clients : client[c].at = "served" <=> Serving(c)

\* A task that waits for nothing, or sends what nobody waits for.
Alone(a) == a.at \in {"idle", "sending"}

LEMMA AloneStates == Alone(Idle) /\ Alone(Sending)
  BY DEF Alone, Idle, Sending

LEMMA WaitFrame ==
  ASSUME ExposeIsPending, UNCHANGED <<client, pending_expose>>,
         actor' = actor \/ (Alone(actor) /\ Alone(actor'))
  PROVE  ExposeIsPending'
  BY DEF ExposeIsPending, Alone

\* A connection that was neither served nor exposing, and is neither now.
LEMMA WaitElsewhere ==
  ASSUME TypeOK, ExposeIsPending, NEW c \in Clients,
         NEW s \in Client, s.at \notin {"exposing", "served"},
         client[c].at \notin {"exposing", "served"},
         client' = [client EXCEPT ![c] = s], UNCHANGED <<pending_expose, actor>>
  PROVE  ExposeIsPending'
  BY DEF ExposeIsPending, TypeOK

\* The web is no connection; a request of its own concerns nobody.
LEMMA WaitWeb ==
  ASSUME TypeOK, ExposeIsPending, actor = Idle, actor'.client = "web",
         UNCHANGED <<client, pending_expose>>
  PROVE  ExposeIsPending'
  BY WebAssumption DEF ExposeIsPending, Idle

\* The manager takes a command of connection c.
LEMMA WaitServed ==
  ASSUME TypeOK, ExposeIsPending, actor = Idle, NEW c \in Clients, client[c].at = "queued",
         Served(c), actor'.at = "send", actor'.client = c, UNCHANGED pending_expose
  PROVE  ExposeIsPending'
<1>1. ExposingIsPending'
  BY DEF ExposeIsPending, ExposingIsPending, Served, TypeOK
<1>2. ServedIsActor'
  BY DEF ExposeIsPending, ServedIsActor, Serving, Served, Idle, TypeOK
<1>3. QED
  BY <1>1, <1>2 DEF ExposeIsPending, ExposingIsPending, ServedIsActor, Serving

\* Whoever was served is idle now, and nobody else changes.
LEMMA WaitEnds ==
  ASSUME TypeOK, ExposeIsPending, NEW c \in Clients, Serving(c), Answered(c),
         actor' = Idle, UNCHANGED pending_expose
  PROVE  ExposeIsPending'
<1>1. client' = [client EXCEPT ![c] = Idle] /\ client[c].at = "served"
  BY DEF Answered, ExposeIsPending, Serving
<1>2. ExposingIsPending'
  BY <1>1 DEF ExposeIsPending, ExposingIsPending, Idle, TypeOK
<1>3. \A d \in Clients : d # c => client[d].at # "served"
  BY DEF ExposeIsPending, Serving
<1>4. ServedIsActor'
  BY <1>1, <1>3 DEF ServedIsActor, Serving, Idle, TypeOK
<1>5. QED
  BY <1>2, <1>4 DEF ExposeIsPending, ExposingIsPending, ServedIsActor, Serving

\* The task ends a request and answers whoever asked.
LEMMA WaitReply ==
  ASSUME TypeOK, ExposeIsPending, Requests, Reply, actor' = Idle, UNCHANGED pending_expose
  PROVE  ExposeIsPending'
<1>1. actor.at \in {"send", "await"} /\ actor.client \in Clients \cup {"web"}
  BY ActorFields DEF TypeOK, Requests
<1>2. CASE actor.client = "web"
  BY <1>1, <1>2, WebAssumption DEF ExposeIsPending, Reply, Idle
<1>3. CASE actor.client \in Clients /\ actor.client # "web"
  BY <1>1, <1>3, WaitEnds DEF Reply, Serving
<1>4. QED
  BY <1>1, <1>2, <1>3

\* An expose is sent: the connection that waited before is freed.
LEMMA ExposeWait ==
  ASSUME TypeOK, ExposeIsPending, SendExpose
  PROVE  ExposeIsPending'
<1> DEFINE p == actor.port
           c == actor.client
<1>1. p \in Ports /\ c \in Clients /\ Serving(c) /\ client[c].at = "served" /\ actor' = Idle
  BY PortFields DEF SendExpose, TypeOK, ExposeIsPending, Serving
<1>2. \A d \in Clients : d # c => client[d].at # "served"
  BY <1>1 DEF ExposeIsPending
<1>3. \A q \in Ports : pending_expose[q] # c
  BY <1>1 DEF ExposeIsPending
<1>4. CASE Answered(c) /\ UNCHANGED pending_expose
  BY <1>1, <1>4, WaitEnds
<1>5. CASE /\ pending_expose' = [pending_expose EXCEPT ![p] = c]
           /\ client' = [d \in Clients |->
                           IF d = c THEN [at |-> "exposing", port |-> p]
                           ELSE IF d = pending_expose[p] THEN Idle ELSE client[d]]
  <2>1. ASSUME NEW d \in Clients, NEW q \in Ports
        PROVE  client'[d].at = "exposing" /\ client'[d].port = q <=> pending_expose'[q] = d
    <3>1. CASE d = c
      BY <1>1, <1>3, <1>5, <3>1 DEF TypeOK
    <3>2. CASE d # c
      BY <1>1, <1>5, <3>2 DEF TypeOK, ExposeIsPending, Idle
    <3>3. QED
      BY <3>1, <3>2
  <2>2. \A d \in Clients : client'[d].at # "served"
    BY <1>2, <1>5 DEF Idle
  <2>3. QED
    BY <1>1, <2>1, <2>2 DEF ExposeIsPending, Idle
<1>6. CASE /\ pending_expose' = [pending_expose EXCEPT ![p] = None]
           /\ Freed({c, pending_expose[p]})
  <2>1. ASSUME NEW d \in Clients, NEW q \in Ports
        PROVE  client'[d].at = "exposing" /\ client'[d].port = q <=> pending_expose'[q] = d
    BY <1>1, <1>3, <1>6, NoneAssumption DEF TypeOK, ExposeIsPending, Freed, Idle
  <2>2. \A d \in Clients : client'[d].at # "served"
    BY <1>2, <1>6 DEF Idle, Freed
  <2>3. QED
    BY <1>1, <2>1, <2>2 DEF ExposeIsPending, Idle
<1>7. QED
  BY <1>4, <1>5, <1>6 DEF SendExpose, ports

\* The answer to an expose.
LEMMA AnswerWait ==
  ASSUME TypeOK, ExposeIsPending, actor = Idle, NEW m, m.port \in Ports, ExposeAnswer(m)
  PROVE  ExposeIsPending'
<1>1. ASSUME NEW d \in Clients, NEW q \in Ports
      PROVE  client'[d].at = "exposing" /\ client'[d].port = q <=> pending_expose'[q] = d
  BY NoneAssumption DEF TypeOK, ExposeIsPending, ExposeAnswer, Freed, Idle
<1>2. \A d \in Clients : client'[d].at # "served"
  BY DEF ExposeIsPending, ExposeAnswer, Freed, Idle
<1>3. QED
  BY <1>1, <1>2 DEF ExposeIsPending, ExposeAnswer, Idle

LEMMA ExposeStep == TypeOK /\ ExposeIsPending /\ [Next]_vars => ExposeIsPending'
<1> SUFFICES ASSUME TypeOK, ExposeIsPending, [Next]_vars PROVE ExposeIsPending'
  OBVIOUS
<1>1. ASSUME NEW c \in Clients, ClientStep(c) PROVE ExposeIsPending'
  <2>1. /\ client[c] = Idle /\ UNCHANGED <<pending_expose, actor>>
        /\ \E s \in Client : s.at = "queued" /\ client' = [client EXCEPT ![c] = s]
    BY <1>1, ClientTypes DEF ClientStep, CommandTerminal, CommandPort, ports
  <2>2. PICK s \in Client : s.at = "queued" /\ client' = [client EXCEPT ![c] = s]
    BY <2>1
  <2>3. client[c].at = "idle"
    BY <2>1 DEF Idle
  <2>4. QED
    BY <2>1, <2>2, <2>3, WaitElsewhere
<1>2. ASSUME NEW c \in Clients, Take(c) PROVE ExposeIsPending'
  <2>1. actor = Idle /\ client[c].at = "queued" /\ UNCHANGED pending_expose
    BY <1>2 DEF Take, TakeSync, TakeUnsync, TakeExpose, TakeUnexpose, Takes, ports
  <2>2. CASE Answered(c) /\ UNCHANGED actor
    BY <2>1, <2>2, WaitElsewhere, ClientTypes DEF Answered, Idle
  <2>3. CASE Served(c) /\ (BeginSync(client[c].id, c) \/ BeginUnsync(client[c].id, c))
    <3>1. actor'.at = "send" /\ actor'.client = c
      BY <2>3 DEF BeginSync, BeginUnsync
    <3>2. QED
      BY <2>1, <2>3, <3>1, WaitServed
  <2>4. CASE BeginPort(c)
    BY <2>1, <2>4, WaitServed DEF BeginPort
  <2>5. QED
    BY <1>2, <2>2, <2>3, <2>4 DEF Take, TakeSync, TakeUnsync, TakeExpose, TakeUnexpose
<1>3. CASE SendUnexpose
  <2>1. actor.client \in Clients /\ Serving(actor.client)
    BY <1>3, PortFields DEF SendUnexpose, Serving, TypeOK
  <2>2. QED
    BY <1>3, <2>1, WaitEnds DEF SendUnexpose
<1>4. CASE SendRequest \/ Confirmation
  <2>1. Requests /\ actor \in Actor /\ UNCHANGED pending_expose
    BY <1>4, RequestIsSync
       DEF SendRequest, Confirmation, ReceiveConfirmation, ConfirmationTimeout, TypeOK, ports
  <2>2. CASE actor' = [actor EXCEPT !.at = "await"] /\ UNCHANGED client
    <3>1. actor.at \in {"send", "await"} /\ actor'.at = "await" /\ actor'.client = actor.client
      BY <2>1, <2>2, ActorFields DEF Requests
    <3>2. QED
      BY <2>1, <2>2, <3>1 DEF ExposeIsPending
  <2>3. CASE Reply /\ actor' = Idle
    BY <2>1, <2>3, WaitReply
  <2>4. QED
    BY <1>4, <2>2, <2>3
       DEF SendRequest, Confirmation, ReceiveConfirmation, ConfirmationTimeout, Succeed, Fail
<1>5. CASE Message
  <2> DEFINE m == Head(fromCloud)
  <2>1. m \in FromCloud /\ actor = Idle
    BY <1>5, QueueType DEF Message, Polls, TypeOK
  <2>2. CASE m.type = "web_create" /\ WebCreate(m.id)
    BY <2>1, <2>2, WaitFrame, WaitWeb DEF WebCreate, BeginSync, ports
  <2>3. CASE m.type = "web_kill" /\ WebKill(m.id)
    BY <2>1, <2>3, WaitFrame, WaitWeb DEF WebKill, BeginUnsync, ports
  <2>4. CASE m.type \in {"expose.ok", "expose.error"} /\ ExposeAnswer(m)
    BY <2>1, <2>4, FromCloudFields, AnswerWait
  <2>5. CASE UNCHANGED <<client, actor, ports>>
    BY <2>5, WaitFrame DEF ports
  <2>6. QED
    BY <1>5, <2>2, <2>3, <2>4, <2>5 DEF Message
<1>6. CASE \/ \E k \in Keys : \/ ShellStarts(k) \/ ShellEnds(k) \/ TerminalExited(k)
                            \/ WebRequest("web_create", k) \/ WebRequest("web_kill", k)
           \/ \E t \in {"other", "nontext"} : WebTraffic(t)
           \/ ConnLost \/ Heartbeat \/ CloudStep \/ ConnFails \/ UNCHANGED vars
  BY <1>6, WaitFrame DEF ConnLost, Heartbeat, CloudStep, ConnFails, vars,
     ShellStarts, ShellEnds, TerminalExited, WebRequest, WebTraffic, ports
<1>7. CASE Disconnect \/ SlowSend \/ SendEnds
  <2>1. UNCHANGED <<client, pending_expose>> /\ Alone(actor) /\ Alone(actor')
    BY <1>7, AloneStates DEF Disconnect, SlowSend, SendEnds, Polls, ports
  <2>2. QED
    BY <2>1, WaitFrame
<1>8. QED
  BY <1>1, <1>2, <1>3, <1>4, <1>5, <1>6, <1>7, ExposeWait DEF Next

\* However many connections expose one port, the pending slot belongs to the
\* connection that waits, and to nobody else (cloud/manager.rs
\* handle_proxy_expose, handle_ws_text).
THEOREM ExposesCorrect == Spec => []ExposeIsPending
<1>1. Init => ExposeIsPending
  BY NoneAssumption DEF Init, ExposeIsPending, Idle
<1>2. QED
  BY <1>1, TypeCorrect, ExposeStep, PTL DEF Spec

-----------------------------------------------------------------------------
(* The refinement.                                                         *)

\* What the abstract manager sees.
LEMMA SyncsFrame ==
  ASSUME UNCHANGED <<terminals, synced>>, actor' = actor \/ (~At("sync") /\ ~At("sync")')
  PROVE  UNCHANGED Abstract!vars
  BY DEF Abstract!vars, At

LEMMA BeginSyncRefines ==
  ASSUME NEW k \in Keys, NEW who, actor = Idle, BeginSync(k, who)
  PROVE  Abstract!Next
<1>1. Abstract!Begin(k)
  BY DEF BeginSync, Idle, At, Abstract!Begin
<1>2. QED
  BY <1>1 DEF Abstract!Next

LEMMA BeginUnsyncRefines ==
  ASSUME NEW k, NEW who, actor = Idle, BeginUnsync(k, who)
  PROVE  UNCHANGED Abstract!vars
  BY SyncsFrame DEF BeginUnsync, Idle, terms, At

LEMMA ReleaseRefines ==
  ASSUME NEW k \in Keys, k \in terminals, Release(k), actor' = Idle, ~At("sync")
  PROVE  Abstract!Next
<1>1. Abstract!Release(k)
  BY DEF Release, Idle, At, Abstract!Release
<1>2. QED
  BY <1>1 DEF Abstract!Next

\* The end of a request, which may be an unsync of a terminal the manager
\* serves only (UnsyncOfServed).
UnsyncOfServed == At("unsync") => actor.id \in terminals

LEMMA RequestRefines ==
  TypeOK /\ UnsyncOfServed /\ (SendRequest \/ Confirmation) => [Abstract!Next]_Abstract!vars
<1> SUFFICES ASSUME TypeOK, UnsyncOfServed, SendRequest \/ Confirmation
             PROVE  [Abstract!Next]_Abstract!vars
  OBVIOUS
<1>1. actor \in Actor /\ actor.at \in {"send", "await"} /\ actor.op \in {"sync", "unsync"}
  BY RequestIsSync DEF Requests, TypeOK
<1>2. actor.id \in Keys /\ actor.id # None /\ (actor.op = "sync" <=> At("sync"))
  BY <1>1, ActorFields, NoneAssumption DEF At
<1>3. actor' = Idle => ~At("sync")'
  BY DEF At, Idle
<1>4. CASE actor' = [actor EXCEPT !.at = "await"] /\ UNCHANGED <<terms, disconnect_at>>
  <2>1. actor'.op = actor.op /\ actor'.id = actor.id /\ actor'.at = "await"
    BY <1>1, <1>4, ActorFields
  <2>2. QED
    BY <1>1, <1>4, <2>1 DEF Abstract!vars, terms, At
<1>5. CASE Fail
  BY <1>2, <1>3, <1>5 DEF Fail, Abstract!Refuse, Abstract!Next, Abstract!vars
<1>6. CASE Succeed
  <2>1. CASE /\ actor.op = "sync" /\ terminals' = terminals \cup {actor.id}
             /\ UNCHANGED synced
    BY <1>2, <1>3, <1>6, <2>1 DEF Succeed, Abstract!Accept, Abstract!Next
  <2>2. CASE actor.op = "unsync" /\ Release(actor.id)
    <3>1. ~At("sync") /\ actor.id \in terminals
      BY <1>1, <2>2 DEF At, UnsyncOfServed
    <3>2. QED
      BY <1>2, <1>6, <2>2, <3>1, ReleaseRefines DEF Succeed
  <2>3. QED
    BY <1>6, <2>1, <2>2 DEF Succeed
<1>7. QED
  BY <1>4, <1>5, <1>6 DEF Confirmation, SendRequest, ReceiveConfirmation, ConfirmationTimeout

\* Exposes, and sends that change nothing here.
PortStep == \/ \E c \in Clients : TakeExpose(c) \/ TakeUnexpose(c)
            \/ SendExpose \/ SendUnexpose \/ SlowSend \/ SendEnds

LEMMA PortFrame ==
  ASSUME PortStep
  PROVE  /\ UNCHANGED <<terminals, synced>>
         /\ ~At("sync") /\ ~At("unsync")
         /\ actor' = actor \/ (~At("sync")' /\ ~At("unsync")')
<1>1. /\ actor.at # "await" /\ (actor.at = "send" => actor.op \in {"expose", "unexpose"})
      /\ UNCHANGED terms
      /\ actor' = actor \/ actor'.at \in {"idle", "sending"} \/ actor'.op \in {"expose", "unexpose"}
  BY DEF PortStep, TakeExpose, TakeUnexpose, Takes, BeginPort, SendExpose, SendUnexpose,
     SlowSend, SendEnds, Polls, Idle, Sending
<1>2. QED
  BY <1>1 DEF At, terms

LEMMA RefinementStep ==
  TypeOK /\ UnsyncOfServed /\ [Next]_vars => [Abstract!Next]_Abstract!vars
<1> SUFFICES ASSUME TypeOK, UnsyncOfServed, [Next]_vars
             PROVE  [Abstract!Next]_Abstract!vars
  OBVIOUS
<1>1. ASSUME NEW c \in Clients, ClientStep(c) PROVE UNCHANGED Abstract!vars
  BY <1>1, SyncsFrame DEF ClientStep, CommandTerminal, CommandPort, terms
<1>2. ASSUME PortStep PROVE UNCHANGED Abstract!vars
  BY <1>2, PortFrame, SyncsFrame
<1>3. ASSUME NEW c \in Clients, TakeSync(c) \/ TakeUnsync(c)
      PROVE  [Abstract!Next]_Abstract!vars
  <2>1. actor = Idle /\ client[c].id \in Keys
    BY <1>3, ClientFields DEF TakeSync, TakeUnsync, Takes, TypeOK
  <2>2. QED
    BY <1>3, <2>1, SyncsFrame, BeginSyncRefines, BeginUnsyncRefines
       DEF TakeSync, TakeUnsync, terms
<1>4. ASSUME NEW k \in Keys, TerminalExited(k) PROVE [Abstract!Next]_Abstract!vars
  <2>1. CASE UNCHANGED <<terminals, synced>>
    BY <1>4, <2>1, SyncsFrame DEF TerminalExited
  <2>2. CASE k \in terminals /\ Release(k)
    <3>1. actor = Idle /\ ~At("sync") /\ actor' = Idle
      BY <1>4 DEF TerminalExited, Polls, At, Idle
    <3>2. QED
      BY <2>2, <3>1, ReleaseRefines
  <2>3. QED
    BY <1>4, <2>1, <2>2 DEF TerminalExited
<1>5. CASE Message
  <2> DEFINE m == Head(fromCloud)
  <2>1. m \in FromCloud /\ actor = Idle
    BY <1>5, QueueType DEF Message, Polls, TypeOK
  <2>2. CASE m.type = "web_create" /\ WebCreate(m.id)
    BY <2>1, <2>2, FromCloudFields, SyncsFrame, BeginSyncRefines DEF WebCreate, terms
  <2>3. CASE m.type = "web_kill" /\ WebKill(m.id)
    BY <2>1, <2>3, SyncsFrame, BeginUnsyncRefines DEF WebKill, terms
  <2>4. CASE UNCHANGED <<actor, terms>>
    BY <2>4, SyncsFrame DEF terms
  <2>5. QED
    BY <1>5, <2>2, <2>3, <2>4 DEF Message, ExposeAnswer
<1>6. CASE \/ \E k \in Keys : \/ ShellStarts(k) \/ ShellEnds(k)
                            \/ WebRequest("web_create", k) \/ WebRequest("web_kill", k)
           \/ \E t \in {"other", "nontext"} : WebTraffic(t)
           \/ ConnLost \/ Heartbeat \/ CloudStep \/ ConnFails \/ UNCHANGED vars
  BY <1>6, SyncsFrame DEF ConnLost, Heartbeat, CloudStep, ConnFails, vars,
     ShellStarts, ShellEnds, WebRequest, WebTraffic, terms
<1>7. CASE Disconnect
  <2>1. UNCHANGED <<terminals, synced>> /\ ~At("sync") /\ ~At("sync")'
    BY <1>7 DEF Disconnect, Polls, Idle, Sending, At, terms
  <2>2. QED
    BY <2>1, SyncsFrame
<1>8. QED
  BY <1>1, <1>2, <1>3, <1>4, <1>5, <1>6, <1>7, RequestRefines DEF Next, Take, PortStep

\* While the manager waits for the confirmation of an unsync it handles
\* nothing else, so the terminal is still served when the answer comes.
LEMMA UnsyncStep == TypeOK /\ UnsyncOfServed /\ [Next]_vars => UnsyncOfServed'
<1> SUFFICES ASSUME TypeOK, UnsyncOfServed, [Next]_vars PROVE UnsyncOfServed'
  OBVIOUS
<1>1. ASSUME UNCHANGED <<actor, terminals>> PROVE UnsyncOfServed'
  BY <1>1 DEF UnsyncOfServed, At
<1>2. ASSUME actor' = Idle \/ actor' = Sending PROVE UnsyncOfServed'
  BY <1>2 DEF UnsyncOfServed, At, Idle, Sending
<1>3. ASSUME NEW k, NEW who, BeginSync(k, who) PROVE UnsyncOfServed'
  BY <1>3 DEF UnsyncOfServed, At, BeginSync
<1>4. ASSUME NEW k \in terminals, NEW who, BeginUnsync(k, who) PROVE UnsyncOfServed'
  BY <1>4 DEF UnsyncOfServed, At, BeginUnsync, terms
<1>5. ASSUME NEW c \in Clients, ClientStep(c) \/ TakeSync(c) \/ TakeUnsync(c)
      PROVE  UnsyncOfServed'
  BY <1>1, <1>3, <1>4, <1>5 DEF ClientStep, CommandTerminal, CommandPort, TakeSync,
     TakeUnsync, terms
<1>6. CASE SendRequest \/ Confirmation
  <2>1. CASE SendRequest /\ actor' = [actor EXCEPT !.at = "await"] /\ UNCHANGED terms
    <3>1. actor \in Actor /\ actor.at = "send" /\ actor.op \in {"sync", "unsync"}
      BY <2>1 DEF SendRequest, TypeOK
    <3>2. actor'.op = actor.op /\ actor'.id = actor.id
      BY <2>1, <3>1, ActorFields
    <3>3. QED
      BY <2>1, <3>1, <3>2 DEF UnsyncOfServed, At, terms
  <2>2. QED
    BY <1>2, <1>6, <2>1
       DEF SendRequest, Confirmation, ReceiveConfirmation, ConfirmationTimeout, Succeed, Fail
<1>7. ASSUME NEW k \in Keys, TerminalExited(k) PROVE UnsyncOfServed'
  BY <1>2, <1>7 DEF TerminalExited, Polls
<1>8. CASE Message
  BY <1>1, <1>3, <1>4, <1>8 DEF Message, WebCreate, WebKill, ExposeAnswer, terms
<1>9. CASE \/ \E k \in Keys : \/ ShellStarts(k) \/ ShellEnds(k)
                            \/ WebRequest("web_create", k) \/ WebRequest("web_kill", k)
           \/ \E t \in {"other", "nontext"} : WebTraffic(t)
           \/ ConnLost \/ Heartbeat \/ CloudStep \/ ConnFails \/ UNCHANGED vars
  BY <1>1, <1>9 DEF ConnLost, Heartbeat, CloudStep, ConnFails, vars,
     ShellStarts, ShellEnds, WebRequest, WebTraffic, terms
<1>10. CASE Disconnect
  BY <1>2, <1>10 DEF Disconnect
<1>11. CASE PortStep
  BY <1>1, <1>11, PortFrame DEF UnsyncOfServed
<1>12. QED
  BY <1>5, <1>6, <1>7, <1>8, <1>9, <1>10, <1>11 DEF Next, Take, PortStep

\* Whatever the connection does, the manager changes the synced set and the
\* terminals it serves only as SyncedTerminals promises.
THEOREM SyncsImplemented == Spec => ImplementsSyncs
<1>1. Init => UnsyncOfServed /\ Abstract!Init
  BY DEF Init, UnsyncOfServed, Abstract!Init, Idle, At
<1>2. Spec => []UnsyncOfServed
  BY <1>1, TypeCorrect, UnsyncStep, PTL DEF Spec
<1>3. QED
  BY <1>1, <1>2, TypeCorrect, RefinementStep, PTL DEF Spec, ImplementsSyncs, Abstract!Spec

-----------------------------------------------------------------------------
(* Why the two sides agree.  A confirmation does not say of which request it *)
(* is, and the manager takes any text for it.  As long as it took none that  *)
(* was about something else, the one confirmation that is under way is the   *)
(* answer to the one request the manager waits for, and what the cloud holds *)
(* is what the manager serves once the exits under way have been taken.      *)

\* All of q, or all but its last message, are of these types.
AllOf(q, types)  == \A n \in 1 .. Len(q) : q[n].type \in types
Before(q, types) == q # <<>> /\ \A n \in 1 .. Len(q) - 1 : q[n].type \in types

\* What the manager sends without waiting for a confirmation, and what the cloud
\* sends that is none.
Notices == {"exited", "ping", "expose", "unexpose", "status"}
Others  == {"nontext", "other", "web_create", "web_kill", "expose.ok", "expose.error"}

\* A device's status comes first on a connection, and holds for what follows.
StatusFirst(q) == \A n \in 2 .. Len(q) : q[n].type # "status"
Stated(q, T)   == IF q # <<>> /\ q[1].type = "status" THEN q[1].terms ELSE T

\* The cloud holds what the manager serves, but for the exits under way.
IsExit(m, k) == m.type = "exited" /\ m.id = k
Exited(q, k) == \E n \in 1 .. Len(q) : IsExit(q[n], k)
Settled ==
  \A k \in Keys : k \in terminals <=> k \in Stated(toCloud, cloudTerms) /\ ~ Exited(toCloud, k)

\* Nothing is asked.
Quiet == AllOf(toCloud, Notices) /\ AllOf(fromCloud, Others) /\ Settled

IsRequest(m) == m.type = actor.op /\ m.id = actor.id

\* The request is on its way, behind notices.
Asked ==
  /\ Before(toCloud, Notices) /\ IsRequest(toCloud[Len(toCloud)])
  /\ AllOf(fromCloud, Others) /\ Settled

\* What the cloud holds once it has accepted the request.
Accepted == IF actor.op = "sync" THEN terminals \cup {actor.id} ELSE terminals \ {actor.id}

\* The answer is on its way, the only one among other messages.
IsAnswer(m) == \/ m.type = "ok" /\ cloudTerms = Accepted
               \/ m.type = "error" /\ cloudTerms = terminals
AnswerAt(q, n) == /\ n \in 1 .. Len(q) /\ IsAnswer(q[n])
                  /\ \A j \in 1 .. Len(q) : j # n => q[j].type \in Others
AnswerComes == toCloud = <<>> /\ \E n \in Nat : AnswerAt(fromCloud, n)

\* What is under way, by the state of the connection and of the manager.
UnderWay ==
  /\ StatusFirst(toCloud)
  /\ actor.at = "await" => conn # "none"
  /\ conn = "up" /\ ~crossed => IF actor.at = "await" THEN Asked \/ AnswerComes ELSE Quiet
  /\ conn = "broken" /\ ~crossed =>
       AllOf(fromCloud, Others) \/ (actor.at = "await" /\ AnswerComes)

\* Messages that are added to a queue, and taken from it.
LEMMA AppendFacts ==
  ASSUME NEW S, NEW q \in Seq(S), NEW m
  PROVE  /\ Append(q, m) # <<>> /\ Append(q, m)[Len(Append(q, m))] = m
         /\ \A types : AllOf(q, types) => /\ Before(Append(q, m), types)
                                          /\ m.type \in types => AllOf(Append(q, m), types)
         /\ \A k : Exited(Append(q, m), k) <=> Exited(q, k) \/ IsExit(m, k)
         /\ m.type # "status" => /\ StatusFirst(q) => StatusFirst(Append(q, m))
                                 /\ \A T : Stated(Append(q, m), T) = Stated(q, T)
<1> DEFINE r == Append(q, m)
<1>1. /\ Len(q) \in Nat /\ Len(r) = Len(q) + 1 /\ r[Len(q) + 1] = m /\ r # <<>>
      /\ \A n \in 1 .. Len(q) : r[n] = q[n]
  <2>1. q \in Seq(S \cup {m}) /\ m \in S \cup {m}
    OBVIOUS
  <2>2. \A T, s, e : s \in Seq(T) /\ e \in T =>
           /\ Len(s) \in Nat
           /\ Len(Append(s, e)) = Len(s) + 1 /\ Append(s, e)[Len(s) + 1] = e
           /\ \A n \in 1 .. Len(s) : Append(s, e)[n] = s[n]
           /\ Append(s, e) # <<>>
    OBVIOUS
  <2>3. QED
    BY <2>1, <2>2
<1>2. q # <<>> <=> Len(q) >= 1
  OBVIOUS
<1> HIDE DEF r
<1>3. \A n \in 1 .. Len(r) : n \in 1 .. Len(q) \/ n = Len(q) + 1
  BY <1>1
<1>4. Len(r) \in 1 .. Len(r) /\ \A n \in 1 .. Len(q) : n \in 1 .. Len(r)
  BY <1>1
<1>5. ASSUME NEW types, AllOf(q, types)
      PROVE  Before(r, types) /\ (m.type \in types => AllOf(r, types))
  BY <1>1, <1>3, <1>5 DEF AllOf, Before
<1>6. \A k : Exited(r, k) <=> Exited(q, k) \/ IsExit(m, k)
  BY <1>1, <1>3, <1>4 DEF Exited
<1>7. ASSUME m.type # "status", StatusFirst(q) PROVE StatusFirst(r)
  <2>1. \A n \in 2 .. Len(r) : n \in 2 .. Len(q) \/ n = Len(q) + 1
    BY <1>1
  <2>2. \A n \in 2 .. Len(q) : r[n] = q[n]
    BY <1>1
  <2>3. QED
    BY <1>1, <1>7, <2>1, <2>2 DEF StatusFirst
<1>8. ASSUME m.type # "status", NEW T PROVE Stated(r, T) = Stated(q, T)
  <2>1. CASE q = <<>>
    <3>1. r[1] = m
      BY <1>1, <2>1
    <3>2. QED
      BY <1>8, <2>1, <3>1 DEF Stated
  <2>2. CASE q # <<>>
    <3>1. r[1] = q[1]
      BY <1>1, <1>2, <2>2
    <3>2. QED
      BY <1>1, <2>2, <3>1 DEF Stated
  <2>3. QED
    BY <2>1, <2>2
<1>9. QED
  BY <1>1, <1>5, <1>6, <1>7, <1>8 DEF r

LEMMA TailFacts ==
  ASSUME NEW S, NEW q \in Seq(S), q # <<>>
  PROVE  /\ Head(q) = q[1] /\ Tail(q) \in Seq(S)
         /\ \A types : AllOf(q, types) => Head(q).type \in types /\ AllOf(Tail(q), types)
         /\ \A k : Exited(q, k) <=> IsExit(Head(q), k) \/ Exited(Tail(q), k)
         /\ StatusFirst(q) => /\ StatusFirst(Tail(q))
                              /\ \A T : Stated(Tail(q), T) = T
         /\ Len(q) = 1 => Tail(q) = <<>> /\ Head(q) = q[Len(q)]
         /\ \A types : Before(q, types) /\ Len(q) # 1 =>
              /\ Head(q).type \in types /\ Before(Tail(q), types)
              /\ Tail(q)[Len(Tail(q))] = q[Len(q)]
         /\ \A types, n : (n \in 1 .. Len(q) /\ \A j \in 1 .. Len(q) : j # n => q[j].type \in types)
              => IF n = 1 THEN AllOf(Tail(q), types) ELSE Head(q).type \in types
<1> DEFINE r == Tail(q)
           h == Head(q)
<1>1. /\ Len(q) \in Nat /\ Len(q) >= 1 /\ h = q[1] /\ Len(r) = Len(q) - 1
      /\ \A n \in 1 .. Len(q) - 1 : r[n] = q[n + 1]
      /\ r \in Seq(S)
  OBVIOUS
<1> HIDE DEF r, h
<1>0. r = <<>> <=> Len(r) = 0
  BY <1>1
<1>2. \A n \in 1 .. Len(q) : n = 1 \/ (n - 1 \in 1 .. Len(r) /\ q[n] = r[n - 1])
  BY <1>1
<1>3. 1 \in 1 .. Len(q) /\ \A n \in 1 .. Len(r) : n + 1 \in 2 .. Len(q) /\ r[n] = q[n + 1]
  BY <1>1
<1>4. \A n \in 1 .. Len(r) : n + 1 \in 1 .. Len(q) /\ n + 1 # 1
  BY <1>1
<1>5. ASSUME NEW types, AllOf(q, types) PROVE h.type \in types /\ AllOf(r, types)
  BY <1>1, <1>3, <1>4, <1>5 DEF AllOf
<1>6. \A k : Exited(q, k) <=> IsExit(h, k) \/ Exited(r, k)
  BY <1>1, <1>2, <1>3, <1>4 DEF Exited
<1>7. ASSUME StatusFirst(q) PROVE StatusFirst(r) /\ \A T : Stated(r, T) = T
  <2>1. \A n \in 1 .. Len(r) : r[n].type # "status"
    BY <1>3, <1>7 DEF StatusFirst
  <2>2. StatusFirst(r)
    <3>1. \A n \in 2 .. Len(r) : n \in 1 .. Len(r)
      BY <1>1
    <3>2. QED
      BY <2>1, <3>1 DEF StatusFirst
  <2>3. r # <<>> => 1 \in 1 .. Len(r)
    BY <1>0, <1>1
  <2>4. QED
    BY <2>1, <2>2, <2>3 DEF Stated
<1>8. Len(q) = 1 => r = <<>> /\ h = q[Len(q)]
  BY <1>0, <1>1
<1>9. ASSUME NEW types, Before(q, types), Len(q) # 1
      PROVE  h.type \in types /\ Before(r, types) /\ r[Len(r)] = q[Len(q)]
  <2>1. /\ 1 \in 1 .. Len(q) - 1 /\ Len(r) \in 1 .. Len(q) - 1 /\ Len(r) + 1 = Len(q)
        /\ \A n \in 1 .. Len(r) - 1 : n + 1 \in 1 .. Len(q) - 1 /\ r[n] = q[n + 1]
    BY <1>1, <1>9
  <2>2. h.type \in types /\ \A n \in 1 .. Len(r) - 1 : r[n].type \in types
    BY <1>1, <1>9, <2>1 DEF Before
  <2>3. r[Len(r)] = q[Len(q)] /\ r # <<>>
    BY <1>0, <1>1, <1>9, <2>1
  <2>4. QED
    BY <2>2, <2>3 DEF Before
<1>10. ASSUME NEW types, NEW n \in 1 .. Len(q),
              \A j \in 1 .. Len(q) : j # n => q[j].type \in types
       PROVE  IF n = 1 THEN AllOf(r, types) ELSE h.type \in types
  BY <1>1, <1>3, <1>4, <1>10 DEF AllOf
<1>11. QED
  BY <1>1, <1>5, <1>6, <1>7, <1>8, <1>9, <1>10 DEF r, h

LEMMA EmptyFacts ==
  /\ \A types : AllOf(<<>>, types) /\ \A k : ~ Exited(<<>>, k)
  /\ StatusFirst(<<>>) /\ \A T : Stated(<<>>, T) = T
  BY DEF AllOf, Exited, StatusFirst, Stated

\* The parts of what is under way, after a step.
LEMMA QuietRule ==
  ASSUME conn' = "up" \/ conn' = "broken", actor'.at # "await", StatusFirst(toCloud'),
         ~crossed' => AllOf(fromCloud', Others),
         conn' = "up" /\ ~crossed' => AllOf(toCloud', Notices) /\ Settled'
  PROVE  UnderWay'
  BY DEF UnderWay, Quiet

\* A step that drops the connection, or leaves it dropped.
LEMMA DroppedRule ==
  ASSUME conn' = "none", actor'.at # "await", toCloud' = <<>>
  PROVE  UnderWay'
  BY EmptyFacts DEF UnderWay

\* A step of others.
LEMMA UnderWayFrame ==
  ASSUME UnderWay, UNCHANGED <<terminals, link, cloudTerms>>,
         actor' = actor \/ (actor.at # "await" /\ actor'.at # "await")
  PROVE  UnderWay'
<1>1. UNCHANGED <<terminals, conn, toCloud, fromCloud, crossed, cloudTerms>>
  BY DEF link
<1>2. Settled <=> Settled'
  BY <1>1 DEF Settled
<1>3. Quiet <=> Quiet'
  BY <1>1, <1>2 DEF Quiet
<1>4. CASE actor' = actor
  <2>1. Asked <=> Asked'
    BY <1>1, <1>2, <1>4 DEF Asked, IsRequest
  <2>2. AnswerComes <=> AnswerComes'
    BY <1>1, <1>4 DEF AnswerComes, AnswerAt, IsAnswer, Accepted
  <2>3. QED
    BY <1>1, <1>3, <1>4, <2>1, <2>2 DEF UnderWay
<1>5. CASE actor.at # "await" /\ actor'.at # "await"
  BY <1>1, <1>3, <1>5 DEF UnderWay
<1>6. QED
  BY <1>4, <1>5

\* Sending to a cloud that is not waited for, on a connection that is there or
\* on a new one: m comes last, and what the cloud will hold stays the same.
LEMMA SentFacts ==
  ASSUME TypeOK, UnderWay, actor.at # "await", NEW m, m.type # "status",
         \A k : ~ IsExit(m, k), Transmit(m), UNCHANGED <<terminals, cloudTerms>>
  PROVE  /\ conn' \in {"up", "broken"} /\ StatusFirst(toCloud')
         /\ ~crossed' => AllOf(fromCloud', Others)
         /\ conn' = "up" /\ ~crossed' =>
              /\ Before(toCloud', Notices) /\ toCloud'[Len(toCloud')] = m
              /\ m.type \in Notices => AllOf(toCloud', Notices)
              /\ Settled'
<1>1. CASE conn = "none" /\ conn' = "up" /\ toCloud' = <<DeviceStatus, m>> /\ fromCloud' = <<>>
  <2>1. /\ Len(toCloud') = 2 /\ toCloud'[1] = DeviceStatus /\ toCloud'[2] = m
        /\ toCloud' # <<>>
    BY <1>1
  <2>2. DeviceStatus.type = "status" /\ DeviceStatus.terms = terminals
    BY DEF DeviceStatus
  <2>3. \A n \in 1 .. 2 : n = 1 \/ n = 2
    OBVIOUS
  <2>4. StatusFirst(toCloud')
    BY <2>1 DEF StatusFirst
  <2>5. Stated(toCloud', cloudTerms') = terminals /\ \A k : ~ Exited(toCloud', k)
    BY <2>1, <2>2, <2>3 DEF Stated, Exited, IsExit
  <2>6. Settled'
    BY <2>5 DEF Settled
  <2>7. /\ Before(toCloud', Notices) /\ toCloud'[Len(toCloud')] = m
        /\ m.type \in Notices => AllOf(toCloud', Notices)
    BY <2>1, <2>2, <2>3 DEF Before, AllOf, Notices
  <2>8. QED
    BY <1>1, <2>4, <2>6, <2>7, EmptyFacts
<1>2. CASE conn # "none" /\ Put(m) /\ UNCHANGED <<conn, fromCloud, crossed>>
  <2>1. toCloud \in Seq(ToCloud) /\ conn' \in {"up", "broken"}
    BY <1>2 DEF TypeOK
  <2>2. StatusFirst(toCloud) /\ (conn = "up" /\ ~crossed => Quiet)
    BY DEF UnderWay
  <2>3. ~crossed => AllOf(fromCloud, Others)
    BY <1>2, <2>1, <2>2 DEF UnderWay, Quiet
  <2>4. CASE conn = "up"
    <3>1. toCloud' = Append(toCloud, m)
      BY <1>2, <2>4 DEF Put
    <3>2. StatusFirst(toCloud')
      BY <2>1, <2>2, <3>1, AppendFacts
    <3>3. /\ toCloud'[Len(toCloud')] = m
          /\ \A k : Exited(toCloud', k) <=> Exited(toCloud, k)
          /\ Stated(toCloud', cloudTerms') = Stated(toCloud, cloudTerms)
      BY <2>1, <3>1, AppendFacts
    <3>4. Settled => Settled'
      BY <3>3 DEF Settled
    <3>5. ~crossed => /\ Before(toCloud', Notices)
                      /\ m.type \in Notices => AllOf(toCloud', Notices)
      BY <2>1, <2>2, <2>4, <3>1, AppendFacts DEF Quiet
    <3>6. QED
      BY <1>2, <2>1, <2>2, <2>3, <2>4, <3>2, <3>3, <3>4, <3>5 DEF Quiet
  <2>5. CASE conn # "up"
    BY <1>2, <2>1, <2>2, <2>3, <2>5 DEF Put
  <2>6. QED
    BY <2>4, <2>5
<1>3. QED
  BY <1>1, <1>2 DEF Transmit

\* Sending a request: the manager waits for no other.
LEMMA SendUnderWay ==
  ASSUME TypeOK, UnderWay, SendRequest
  PROVE  UnderWay'
<1> DEFINE m == [type |-> actor.op, id |-> actor.id]
<1>1. actor.at = "send" /\ actor.op \in {"sync", "unsync"} /\ cloudTerms' = cloudTerms
  BY DEF SendRequest, cloud
<1>2. CASE Transmit(m) /\ actor' = [actor EXCEPT !.at = "await"] /\ UNCHANGED terms
  <2>1. /\ actor'.at = "await" /\ actor'.op = actor.op /\ actor'.id = actor.id
    BY <1>1, <1>2, ActorFields DEF TypeOK
  <2>2. terminals' = terminals
    BY <1>2 DEF terms
  <2>3. m.type = actor.op /\ m.id = actor.id
    OBVIOUS
  <2>4. m.type # "status" /\ \A k : ~ IsExit(m, k)
    BY <1>1, <2>3 DEF IsExit
  <2> HIDE DEF m
  <2>5. /\ conn' \in {"up", "broken"} /\ StatusFirst(toCloud')
        /\ ~crossed' => AllOf(fromCloud', Others)
        /\ conn' = "up" /\ ~crossed' =>
             /\ Before(toCloud', Notices) /\ toCloud'[Len(toCloud')] = m
             /\ Settled'
    BY <1>1, <1>2, <2>2, <2>4, SentFacts
  <2>7. conn' = "up" /\ ~crossed' => Asked'
    BY <2>1, <2>3, <2>5 DEF Asked, IsRequest
  <2>8. QED
    BY <2>1, <2>5, <2>7 DEF UnderWay
<1>3. CASE (CannotConnect \/ (CannotSend /\ DropConn)) /\ Fail
  <2>1. CASE CannotConnect
    BY <1>1, <1>3, <2>1, DroppedRule, EmptyFacts DEF CannotConnect, Fail, Idle, link, UnderWay
  <2>2. CASE DropConn
    BY <1>3, <2>2, DroppedRule DEF DropConn, Fail, Idle
  <2>3. QED
    BY <1>3, <2>1, <2>2
<1>4. QED
  BY <1>2, <1>3 DEF SendRequest

\* What comes to a manager that waits is its answer, or is about something else.
LEMMA AnswerIsNext ==
  ASSUME TypeOK, UnderWay, ~crossed, actor.at = "await", fromCloud # <<>>
  PROVE  \/ Head(fromCloud).type \in Others
         \/ /\ toCloud = <<>> /\ AllOf(Tail(fromCloud), Others)
            /\ IsAnswer(Head(fromCloud))
<1>1. fromCloud \in Seq(FromCloud) /\ conn \in {"up", "broken"}
  BY DEF TypeOK, UnderWay
<1>2. AllOf(fromCloud, Others) \/ AnswerComes
  BY <1>1 DEF UnderWay, Asked
<1>3. CASE AllOf(fromCloud, Others)
  BY <1>1, <1>3, TailFacts
<1>4. CASE AnswerComes
  <2>1. PICK n \in Nat : AnswerAt(fromCloud, n)
    BY <1>4 DEF AnswerComes
  <2>2. IF n = 1 THEN AllOf(Tail(fromCloud), Others) ELSE Head(fromCloud).type \in Others
    BY <1>1, <2>1, TailFacts DEF AnswerAt
  <2>3. n = 1 => IsAnswer(Head(fromCloud))
    BY <1>1, <2>1, TailFacts DEF AnswerAt
  <2>4. QED
    BY <1>4, <2>2, <2>3 DEF AnswerComes
<1>5. QED
  BY <1>2, <1>3, <1>4

\* The answer makes the manager serve what the cloud holds.
LEMMA AnswerSettles ==
  ASSUME actor.op \in {"sync", "unsync"}, NEW m, IsAnswer(m),
         IF m.type = "error" THEN Fail ELSE Succeed, cloudTerms' = cloudTerms
  PROVE  cloudTerms' = terminals'
<1>1. CASE m.type = "ok" /\ cloudTerms = Accepted
  <2>1. terminals' = Accepted
    BY <1>1 DEF Succeed, Release, Accepted
  <2>2. QED
    BY <1>1, <2>1
<1>2. CASE m.type = "error" /\ cloudTerms = terminals
  BY <1>2 DEF Fail
<1>3. QED
  BY <1>1, <1>2 DEF IsAnswer

LEMMA ReceiveUnderWay ==
  ASSUME TypeOK, UnderWay, ReceiveConfirmation
  PROVE  UnderWay'
<1> DEFINE m == Head(fromCloud)
<1>1. /\ actor.at = "await" /\ fromCloud # <<>> /\ cloudTerms' = cloudTerms
      /\ actor.op \in {"sync", "unsync"} /\ conn \in {"up", "broken"}
      /\ StatusFirst(toCloud)
  BY AwaitsSyncs DEF ReceiveConfirmation, TypeOK, cloud, UnderWay
<1>2. actor'.at # "await"
  BY DEF ReceiveConfirmation, Succeed, Fail, Idle
<1>3. CASE DropConn
  BY <1>2, <1>3, DroppedRule DEF DropConn
<1>4. CASE /\ fromCloud' = Tail(fromCloud) /\ UNCHANGED <<conn, toCloud>>
           /\ m.type # "nontext" /\ (IF m.type = "error" THEN Fail ELSE Succeed)
           /\ (crossed => crossed') /\ (~crossed' => m.type \in {"ok", "error"})
  <2>1. CASE crossed'
    BY <1>1, <1>2, <1>4, <2>1, QuietRule
  <2>2. CASE ~crossed'
    <3>1. m.type \notin Others
      BY <1>4, <2>2 DEF Others
    <3>2. toCloud = <<>> /\ AllOf(fromCloud', Others) /\ IsAnswer(m)
      BY <1>1, <1>4, <2>2, <3>1, AnswerIsNext
    <3>3. cloudTerms' = terminals'
      BY <1>1, <1>4, <3>2, AnswerSettles
    <3>4. toCloud' = <<>> /\ Settled'
      BY <1>4, <3>2, <3>3, EmptyFacts DEF Settled
    <3>5. QED
      BY <1>1, <1>2, <1>4, <3>2, <3>4, EmptyFacts, QuietRule
  <2>3. QED
    BY <2>1, <2>2
<1>5. DropConn \/ /\ fromCloud' = Tail(fromCloud) /\ UNCHANGED <<conn, toCloud>>
                  /\ m.type # "nontext" /\ (IF m.type = "error" THEN Fail ELSE Succeed)
  BY DEF ReceiveConfirmation, IsText, IsError
<1>6. DropConn \/ ((crossed => crossed') /\ (~crossed' => m.type \in {"ok", "error"}))
  <2>1. \/ DropConn \/ crossed' = (crossed \/ ~Confirms(m))
        \/ (crossed' = crossed /\ IsError(m))
    BY Zenon DEF ReceiveConfirmation
  <2>2. IsError(m) => Confirms(m)
    BY DEF IsError, Confirms
  <2>3. DropConn \/ ((crossed => crossed') /\ (~crossed' => Confirms(m)))
    BY <2>1, <2>2, Zenon
  <2>4. QED
    BY <2>3 DEF Confirms
<1>7. QED
  BY <1>3, <1>4, <1>5, <1>6

\* An exit is announced behind what was sent before.
LEMMA ExitedUnderWay ==
  ASSUME TypeOK, UnderWay, NEW k \in Keys, TerminalExited(k)
  PROVE  UnderWay'
<1>1. /\ actor.at # "await" /\ UNCHANGED <<actor, conn, fromCloud, crossed, cloudTerms>>
      /\ toCloud \in Seq(ToCloud) /\ conn \in {"none", "up", "broken"}
      /\ StatusFirst(toCloud)
  BY DEF TerminalExited, Polls, Idle, cloud, TypeOK, UnderWay
<1>2. CASE terminals' = terminals /\ toCloud' = toCloud
  BY <1>1, <1>2, UnderWayFrame DEF link
<1>3. CASE k \in terminals /\ Release(k) /\ Put([type |-> "exited", id |-> k])
  <2> DEFINE m == [type |-> "exited", id |-> k]
  <2>1. m.type \in Notices /\ m.type # "status" /\ \A j : IsExit(m, j) <=> j = k
    BY DEF Notices, IsExit
  <2>2. /\ toCloud' = (IF conn = "up" THEN Append(toCloud, m) ELSE toCloud)
        /\ terminals' = terminals \ {k}
    BY <1>3 DEF Put, Release
  <2> HIDE DEF m
  <2>3. CASE conn = "up"
    <3>1. toCloud' = Append(toCloud, m) /\ (~crossed => Quiet)
      BY <1>1, <2>2, <2>3 DEF UnderWay
    <3>2. StatusFirst(toCloud')
      BY <1>1, <2>1, <3>1, AppendFacts
    <3>3. /\ \A j : Exited(toCloud', j) <=> Exited(toCloud, j) \/ j = k
          /\ Stated(toCloud', cloudTerms') = Stated(toCloud, cloudTerms)
      BY <1>1, <2>1, <3>1, AppendFacts
    <3>4. ~crossed => AllOf(toCloud', Notices)
      BY <1>1, <2>1, <3>1, AppendFacts DEF Quiet
    <3>5. ~crossed => Settled'
      BY <1>1, <2>2, <3>1, <3>3 DEF Settled, Quiet
    <3>6. QED
      BY <1>1, <2>3, <3>1, <3>2, <3>4, <3>5, QuietRule DEF Quiet
  <2>4. CASE conn # "up"
    BY <1>1, <2>2, <2>4 DEF UnderWay
  <2>5. QED
    BY <2>3, <2>4
<1>4. QED
  BY <1>2, <1>3 DEF TerminalExited

\* A message to a manager that waits for none.
LEMMA MessageUnderWay ==
  ASSUME TypeOK, UnderWay, Message
  PROVE  UnderWay'
<1>1. /\ actor.at # "await" /\ conn # "none" /\ fromCloud # <<>>
      /\ UNCHANGED <<conn, toCloud, crossed, cloudTerms>> /\ fromCloud' = Tail(fromCloud)
      /\ fromCloud \in Seq(FromCloud) /\ conn \in {"none", "up", "broken"}
      /\ StatusFirst(toCloud)
  BY DEF Message, Polls, Idle, cloud, TypeOK, UnderWay
<1>2. terminals' = terminals /\ actor'.at # "await"
  BY <1>1 DEF Message, WebCreate, WebKill, BeginSync, BeginUnsync, ExposeAnswer, terms
<1>3. ~crossed => AllOf(fromCloud, Others) /\ (conn = "up" => Quiet)
  BY <1>1 DEF UnderWay, Quiet
<1>4. ~crossed => AllOf(fromCloud', Others)
  BY <1>1, <1>3, TailFacts
<1>5. conn = "up" /\ ~crossed => Settled'
  BY <1>1, <1>2, <1>3 DEF Quiet, Settled
<1>6. QED
  BY <1>1, <1>2, <1>3, <1>4, <1>5, QuietRule DEF Quiet

\* A ping, an expose or an unexpose.
LEMMA NoticeUnderWay ==
  ASSUME TypeOK, UnderWay, actor.at # "await", actor'.at # "await",
         NEW m, m.type \in {"ping", "expose", "unexpose"}, Transmit(m),
         UNCHANGED <<terminals, cloudTerms>>
  PROVE  UnderWay'
<1>1. m.type # "status" /\ m.type \in Notices /\ \A k : ~ IsExit(m, k)
  BY DEF Notices, IsExit
<1>2. QED
  BY <1>1, SentFacts, QuietRule

LEMMA HeartbeatUnderWay ==
  ASSUME TypeOK, UnderWay, Heartbeat
  PROVE  UnderWay'
<1>1. /\ actor.at # "await" /\ actor' = actor /\ cloudTerms' = cloudTerms /\ terminals' = terminals
  BY DEF Heartbeat, Polls, Idle, cloud, terms
<1>2. CASE conn = "up" /\ Put([type |-> "ping"]) /\ UNCHANGED <<conn, fromCloud, crossed>>
  <2>1. Transmit([type |-> "ping"])
    BY <1>2 DEF Transmit
  <2>2. QED
    BY <1>1, <2>1, NoticeUnderWay
<1>3. CASE DropConn
  BY <1>1, <1>3, DroppedRule DEF DropConn
<1>4. QED
  BY <1>2, <1>3 DEF Heartbeat

LEMMA PortUnderWay ==
  ASSUME TypeOK, UnderWay, SendExpose \/ SendUnexpose
  PROVE  UnderWay'
<1>1. /\ actor.at # "await" /\ actor'.at # "await" /\ UNCHANGED <<terminals, cloudTerms>>
  BY DEF SendExpose, SendUnexpose, Idle, cloud, terms
<1>2. ASSUME NEW op \in {"expose", "unexpose"}, Transmit([type |-> op, port |-> actor.port])
      PROVE  UnderWay'
  BY <1>1, <1>2, NoticeUnderWay
<1>3. CASE DropConn
  BY <1>1, <1>3, DroppedRule DEF DropConn
<1>4. CASE UNCHANGED link
  BY <1>1, <1>4, UnderWayFrame
<1>5. QED
  BY <1>2, <1>3, <1>4 DEF SendExpose, SendUnexpose, CannotConnect

\* The cloud takes a notice, and may send something that is no confirmation.
LEMMA NoticeTaken ==
  ASSUME TypeOK, StatusFirst(toCloud), Settled, AllOf(fromCloud, Others), toCloud # <<>>,
         Head(toCloud).type \in Notices, CloudTakes(Head(toCloud)),
         toCloud' = Tail(toCloud), terminals' = terminals
  PROVE  Settled' /\ AllOf(fromCloud', Others)
<1> DEFINE m == Head(toCloud)
<1>1. /\ \A k : Exited(toCloud, k) <=> IsExit(m, k) \/ Exited(toCloud', k)
      /\ Stated(toCloud', cloudTerms') = cloudTerms' /\ m = toCloud[1]
  BY TailFacts DEF TypeOK
<1>2. fromCloud \in Seq(FromCloud)
  BY DEF TypeOK
<1>3. CASE m.type = "exited"
  <2>1. cloudTerms' = cloudTerms \ {m.id} /\ fromCloud' = fromCloud
    BY <1>3 DEF CloudTakes
  <2>2. /\ \A k : IsExit(m, k) <=> k = m.id
        /\ Stated(toCloud, cloudTerms) = cloudTerms
    BY <1>1, <1>3 DEF IsExit, Stated
  <2> HIDE DEF m
  <2>3. QED
    BY <1>1, <2>1, <2>2 DEF Settled
<1>4. CASE m.type = "status"
  <2>1. cloudTerms' = m.terms /\ fromCloud' = fromCloud
    BY <1>4 DEF CloudTakes
  <2>2. /\ \A k : ~ IsExit(m, k)
        /\ Stated(toCloud, cloudTerms) = m.terms
    BY <1>1, <1>4 DEF IsExit, Stated
  <2> HIDE DEF m
  <2>3. QED
    BY <1>1, <2>1, <2>2 DEF Settled
<1>5. CASE m.type \in {"ping", "expose", "unexpose"}
  <2>1. /\ \A k : ~ IsExit(m, k)
        /\ Stated(toCloud, cloudTerms) = cloudTerms
    BY <1>1, <1>5 DEF IsExit, Stated
  <2>2. /\ cloudTerms' = cloudTerms
        /\ fromCloud' = fromCloud \/ \E a : a.type \in Others /\ fromCloud' = Append(fromCloud, a)
    BY <1>5 DEF CloudTakes, Sends, cloud, Others
  <2>3. AllOf(fromCloud', Others)
    <3>1. ASSUME NEW a, a.type \in Others, fromCloud' = Append(fromCloud, a)
          PROVE  AllOf(fromCloud', Others)
      <4>1. AllOf(Append(fromCloud, a), Others)
        BY <1>2, <3>1, AppendFacts, Zenon
      <4>2. QED
        BY <3>1, <4>1
    <3>2. CASE fromCloud' = fromCloud
      BY <3>2
    <3>3. QED
      BY <2>2, <3>1, <3>2, Zenon
  <2> HIDE DEF m
  <2>4. QED
    BY <1>1, <2>1, <2>2, <2>3 DEF Settled
<1>6. QED
  BY <1>3, <1>4, <1>5 DEF Notices

\* The cloud takes the request, and answers it.
LEMMA RequestTaken ==
  ASSUME TypeOK, Settled, AllOf(fromCloud, Others), actor.at = "await", Len(toCloud) = 1,
         IsRequest(Head(toCloud)), toCloud[1] = Head(toCloud), CloudTakes(Head(toCloud)),
         toCloud' = <<>>, UNCHANGED <<actor, terminals>>
  PROVE  AnswerComes'
<1> DEFINE m == Head(toCloud)
           answer(t) == [type |-> t, op |-> m.type, id |-> m.id]
<1>1. actor.op \in {"sync", "unsync"} /\ m.type = actor.op /\ m.id = actor.id
  BY AwaitsSyncs DEF TypeOK, IsRequest
<1>2. (\A k : ~ Exited(toCloud, k)) /\ Stated(toCloud, cloudTerms) = cloudTerms
  BY <1>1 DEF Exited, IsExit, Stated
<1>3. cloudTerms = terminals
  BY <1>2 DEF Settled, TypeOK
<1>4. \/ cloudTerms' = Accepted /\ fromCloud' = Append(fromCloud, answer("ok"))
      \/ cloudTerms' = cloudTerms /\ fromCloud' = Append(fromCloud, answer("error"))
  BY <1>1, <1>3 DEF CloudTakes, Sends, Accepted
<1>5. answer("ok").type = "ok" /\ answer("error").type = "error"
  OBVIOUS
<1>6. Accepted' = Accepted /\ fromCloud \in Seq(FromCloud)
  BY DEF Accepted, TypeOK
<1> HIDE DEF answer, m
<1>7. PICK a : fromCloud' = Append(fromCloud, a) /\ IsAnswer(a)'
  BY <1>3, <1>4, <1>5, <1>6 DEF IsAnswer
<1>8. /\ Len(fromCloud) + 1 \in 1 .. Len(fromCloud') /\ fromCloud'[Len(fromCloud) + 1] = a
      /\ \A j \in 1 .. Len(fromCloud') : j # Len(fromCloud) + 1 =>
           j \in 1 .. Len(fromCloud) /\ fromCloud'[j] = fromCloud[j]
      /\ Len(fromCloud) + 1 \in Nat
  <2>1. fromCloud \in Seq(FromCloud \cup {a}) /\ a \in FromCloud \cup {a}
    BY <1>6
  <2>2. \A S, s, e : s \in Seq(S) /\ e \in S =>
           /\ Len(s) + 1 \in 1 .. Len(Append(s, e)) /\ Append(s, e)[Len(s) + 1] = e
           /\ \A j \in 1 .. Len(Append(s, e)) : j # Len(s) + 1 =>
                j \in 1 .. Len(s) /\ Append(s, e)[j] = s[j]
           /\ Len(s) + 1 \in Nat
    OBVIOUS
  <2>3. QED
    BY <1>7, <2>1, <2>2
<1>10. QED
  BY <1>7, <1>8 DEF AnswerComes, AnswerAt, AllOf, IsAnswer

\* A step of the cloud.
LEMMA CloudUnderWay ==
  ASSUME TypeOK, UnderWay, CloudStep
  PROVE  UnderWay'
<1> DEFINE m == Head(toCloud)
           rest == Tail(toCloud)
<1>1. /\ conn = "up" /\ conn' = "up" /\ toCloud # <<>> /\ CloudTakes(m) /\ toCloud' = rest
      /\ UNCHANGED <<actor, terminals, crossed>> /\ toCloud \in Seq(ToCloud)
      /\ StatusFirst(toCloud)
  BY DEF CloudStep, TypeOK, terms, UnderWay
<1>2. StatusFirst(rest) /\ m = toCloud[1]
  BY <1>1, TailFacts
<1>3. CASE crossed
  BY <1>1, <1>2, <1>3 DEF UnderWay
<1>4. CASE actor.at # "await" /\ ~crossed
  <2>1. Quiet
    BY <1>1, <1>4 DEF UnderWay
  <2>2. m.type \in Notices /\ AllOf(toCloud', Notices)
    BY <1>1, <2>1, TailFacts DEF Quiet
  <2>3. Settled' /\ AllOf(fromCloud', Others)
    BY <1>1, <2>1, <2>2, NoticeTaken DEF Quiet
  <2>4. QED
    BY <1>1, <1>2, <1>4, <2>2, <2>3, QuietRule
<1>5. CASE actor.at = "await" /\ Asked /\ Len(toCloud) # 1 /\ ~crossed
  <2>1. m.type \in Notices /\ Before(rest, Notices) /\ rest[Len(rest)] = toCloud[Len(toCloud)]
    BY <1>1, <1>5, TailFacts DEF Asked
  <2>2. Settled' /\ AllOf(fromCloud', Others)
    BY <1>1, <1>5, <2>1, NoticeTaken DEF Asked
  <2>3. IsRequest(rest[Len(rest)])
    BY <1>5, <2>1 DEF Asked
  <2>4. Asked'
    BY <1>1, <2>1, <2>2, <2>3 DEF Asked, IsRequest
  <2>5. QED
    BY <1>1, <1>2, <1>5, <2>4 DEF UnderWay
<1>6. CASE actor.at = "await" /\ Asked /\ Len(toCloud) = 1 /\ ~crossed
  <2>1. toCloud' = <<>> /\ m = toCloud[Len(toCloud)]
    BY <1>1, <1>6, TailFacts
  <2>2. AnswerComes'
    BY <1>1, <1>2, <1>6, <2>1, RequestTaken DEF Asked
  <2>3. QED
    BY <1>1, <1>2, <1>6, <2>2 DEF UnderWay
<1>7. QED
  BY <1>1, <1>3, <1>4, <1>5, <1>6 DEF UnderWay, AnswerComes

\* A message that is no confirmation comes behind the others.
LEMMA WebUnderWay ==
  ASSUME TypeOK, UnderWay, NEW m, m.type \in Others, conn = "up", Sends(m),
         UNCHANGED <<terminals, actor, conn, toCloud, crossed, cloudTerms>>
  PROVE  UnderWay'
<1>1. fromCloud \in Seq(FromCloud) /\ fromCloud' = Append(fromCloud, m)
  BY DEF TypeOK, Sends
<1>2. AllOf(fromCloud, Others) => AllOf(fromCloud', Others)
  BY <1>1, AppendFacts
<1>3. Settled => Settled'
  BY DEF Settled
<1>4. ASSUME NEW n \in Nat, AnswerAt(fromCloud, n), toCloud = <<>> PROVE AnswerComes'
  <2>1. \A j \in 1 .. Len(fromCloud') :
          \/ j \in 1 .. Len(fromCloud) /\ fromCloud'[j] = fromCloud[j]
          \/ j # n /\ fromCloud'[j] = m
    <3>1. fromCloud \in Seq(FromCloud \cup {m}) /\ m \in FromCloud \cup {m}
      BY <1>1
    <3>2. \A S, s, e : s \in Seq(S) /\ e \in S =>
             \A i \in 1 .. Len(s), j \in 1 .. Len(Append(s, e)) :
                \/ j \in 1 .. Len(s) /\ Append(s, e)[j] = s[j]
                \/ j # i /\ Append(s, e)[j] = e
      OBVIOUS
    <3>3. n \in 1 .. Len(fromCloud)
      BY <1>4 DEF AnswerAt
    <3>4. \A i \in 1 .. Len(fromCloud), j \in 1 .. Len(Append(fromCloud, m)) :
                \/ j \in 1 .. Len(fromCloud) /\ Append(fromCloud, m)[j] = fromCloud[j]
                \/ j # i /\ Append(fromCloud, m)[j] = m
      BY <3>1, <3>2, Zenon
    <3>5. QED
      BY <1>1, <3>3, <3>4
  <2>2. n \in 1 .. Len(fromCloud') /\ fromCloud'[n] = fromCloud[n]
    <3>1. n \in 1 .. Len(fromCloud)
      BY <1>4 DEF AnswerAt
    <3>2. fromCloud \in Seq(FromCloud \cup {m}) /\ m \in FromCloud \cup {m}
      BY <1>1
    <3>3. \A S, s, e : s \in Seq(S) /\ e \in S =>
             \A i \in 1 .. Len(s) : i \in 1 .. Len(Append(s, e)) /\ Append(s, e)[i] = s[i]
      OBVIOUS
    <3>4. QED
      BY <1>1, <3>1, <3>2, <3>3
  <2>3. \A j \in 1 .. Len(fromCloud') : j # n => fromCloud'[j].type \in Others
    BY <1>4, <2>1 DEF AnswerAt
  <2>5. QED
    BY <1>4, <2>2, <2>3 DEF AnswerComes, AnswerAt, IsAnswer, Accepted
<1>5. AnswerComes => AnswerComes'
  BY <1>4 DEF AnswerComes
<1>6. Asked => Asked'
  BY <1>2, <1>3 DEF Asked, IsRequest
<1>7. Quiet => Quiet'
  BY <1>2, <1>3 DEF Quiet
<1>8. QED
  BY <1>5, <1>6, <1>7 DEF UnderWay

\* The connection fails: what the cloud has taken stays taken.
LEMMA FailsUnderWay ==
  ASSUME TypeOK, UnderWay, ConnFails
  PROVE  UnderWay'
<1>1. /\ conn = "up" /\ conn' = "broken" /\ toCloud' = <<>>
      /\ UNCHANGED <<actor, terminals, fromCloud, crossed, cloudTerms>>
  BY DEF ConnFails, terms, cloud
<1>2. AnswerComes => AnswerComes'
  BY <1>1 DEF AnswerComes, AnswerAt, IsAnswer, Accepted
<1>3. CASE actor.at = "await"
  BY <1>1, <1>2, <1>3, EmptyFacts DEF UnderWay, Asked
<1>4. CASE actor.at # "await"
  BY <1>1, <1>4, EmptyFacts DEF UnderWay, Quiet
<1>5. QED
  BY <1>3, <1>4

\* Every step keeps it.
LEMMA UnderWayStep ==
  ASSUME TypeOK, UnderWay, [Next]_vars
  PROVE  UnderWay'
<1>1. ASSUME NEW c \in Clients, ClientStep(c) PROVE UnderWay'
  BY <1>1, UnderWayFrame DEF ClientStep, CommandTerminal, CommandPort, terms, cloud
<1>2. ASSUME (\E c \in Clients : Take(c)) \/ SlowSend \/ SendEnds PROVE UnderWay'
  <2>1. actor.at # "await" /\ UNCHANGED <<link, cloudTerms>>
    BY <1>2 DEF Take, TakeSync, TakeUnsync, TakeExpose, TakeUnexpose, Takes, SlowSend,
       SendEnds, Polls, Idle, Sending, cloud
  <2>2. terminals' = terminals
    BY <1>2 DEF Take, TakeSync, TakeUnsync, TakeExpose, TakeUnexpose, BeginSync, BeginUnsync,
       SlowSend, SendEnds, terms
  <2>3. actor' = actor \/ actor'.at \in {"send", "idle", "sending"}
    BY <1>2 DEF Take, TakeSync, TakeUnsync, TakeExpose, TakeUnexpose, BeginSync, BeginUnsync,
       BeginPort, SlowSend, SendEnds, Idle, Sending
  <2>4. QED
    BY <2>1, <2>2, <2>3, UnderWayFrame
<1>3. CASE ConfirmationTimeout
  <2>1. conn' = "none" /\ actor'.at # "await" /\ toCloud' = <<>>
    BY <1>3 DEF ConfirmationTimeout, DropConn, Fail, Idle
  <2>2. QED
    BY <2>1, DroppedRule
<1>4. ASSUME NEW k \in Keys, TerminalExited(k) \/ ShellStarts(k) \/ ShellEnds(k) PROVE UnderWay'
  <2>1. CASE ShellStarts(k) \/ ShellEnds(k)
    BY <2>1, UnderWayFrame DEF ShellStarts, ShellEnds, terms, cloud
  <2>2. QED
    BY <1>4, <2>1, ExitedUnderWay
<1>5. CASE ConnLost \/ Disconnect
  <2>1. conn' = "none" /\ actor'.at # "await" /\ toCloud' = <<>>
    BY <1>5 DEF ConnLost, Disconnect, DropConn, Polls, Idle, Sending
  <2>2. QED
    BY <2>1, DroppedRule
<1>6. ASSUME NEW k \in Keys, NEW op \in {"web_create", "web_kill"}, WebRequest(op, k)
      PROVE  UnderWay'
  <2>1. [type |-> op, id |-> k].type \in Others
    BY DEF Others
  <2>2. QED
    BY <1>6, <2>1, WebUnderWay DEF WebRequest, terms, cloud
<1>7. ASSUME NEW t \in {"other", "nontext"}, WebTraffic(t) PROVE UnderWay'
  <2>1. [type |-> t].type \in Others
    BY DEF Others
  <2>2. QED
    BY <1>7, <2>1, WebUnderWay DEF WebTraffic, terms, cloud
<1>8. CASE UNCHANGED vars
  BY <1>8, UnderWayFrame DEF vars, terms, cloud
<1>9. QED
  BY <1>1, <1>2, <1>3, <1>4, <1>5, <1>6, <1>7, <1>8, SendUnderWay, ReceiveUnderWay,
     MessageUnderWay, HeartbeatUnderWay, PortUnderWay, CloudUnderWay, FailsUnderWay
     DEF Next, Confirmation

\* What is under way accounts for every difference between the two sides.
LEMMA AlwaysUnderWay == Spec => [](TypeOK /\ UnderWay)
<1>1. Init => UnderWay
  BY EmptyFacts DEF Init, UnderWay, Idle
<1>2. QED
  BY <1>1, TypeCorrect, UnderWayStep, PTL DEF Spec

\* SidesAgree: once nothing is under way on a connection, the cloud holds what the
\* manager serves, whatever the cloud refused, whatever the web asked for and
\* whenever the connection failed before; unless on this connection a text about
\* something else was taken for a confirmation (handle_sync, handle_unsync,
\* send_and_confirm, ensure_connected).
THEOREM SidesCorrect == Spec => []SidesAgree
<1>1. TypeOK /\ UnderWay => SidesAgree
  <2> SUFFICES ASSUME TypeOK, UnderWay, actor = Idle, conn = "up", toCloud = <<>>, ~crossed
               PROVE  cloudTerms = terminals
    BY DEF SidesAgree
  <2>1. Settled
    BY DEF UnderWay, Quiet, Idle
  <2>2. QED
    BY <2>1, EmptyFacts DEF Settled, TypeOK
<1>2. QED
  BY <1>1, AlwaysUnderWay, PTL

\* WithoutCrossingConfirmed: as long as each text that was taken for a confirmation
\* on a connection was one, the manager begins to serve a terminal only when the
\* cloud has accepted it (send_and_confirm, handle_sync).
THEOREM ConfirmedCorrect == Spec => WithoutCrossingConfirmed
<1>1. ASSUME TypeOK, UnderWay, [Next]_vars, ~crossed'
      PROVE  terminals' \ terminals \subseteq cloudTerms
  <2>1. CASE ReceiveConfirmation
    <3>1. actor.at = "await" /\ fromCloud # <<>> /\ actor.op \in {"sync", "unsync"}
      BY <1>1, <2>1, AwaitsSyncs DEF ReceiveConfirmation, TypeOK
    <3>2. CASE Fail
      BY <3>2 DEF Fail
    <3>3. CASE /\ Succeed /\ ~ IsError(Head(fromCloud))
               /\ crossed' = (crossed \/ ~Confirms(Head(fromCloud)))
      <4>1. ~crossed /\ Confirms(Head(fromCloud))
        BY <1>1, <3>3, Zenon
      <4>2. IsAnswer(Head(fromCloud)) /\ Head(fromCloud).type = "ok"
        BY <1>1, <3>1, <3>3, <4>1, AnswerIsNext DEF Confirms, IsError, Others
      <4>3. cloudTerms = Accepted
        BY <4>2 DEF IsAnswer
      <4>4. terminals' = Accepted
        BY <3>1, <3>3 DEF Succeed, Release, Accepted
      <4>5. QED
        BY <4>3, <4>4
    <3>4. QED
      BY <2>1, <3>2, <3>3 DEF ReceiveConfirmation
  <2>2. CASE SendRequest \/ ConfirmationTimeout
    BY <2>2 DEF SendRequest, ConfirmationTimeout, Fail, terms
  <2>3. ASSUME NEW k \in Keys, TerminalExited(k) PROVE terminals' \subseteq terminals
    BY <2>3 DEF TerminalExited, Release
  <2>4. CASE UNCHANGED terminals
    BY <2>4
  <2>5. ASSUME NEW c \in Clients, ClientStep(c) \/ Take(c) PROVE UNCHANGED terminals
    BY <2>5 DEF ClientStep, CommandTerminal, CommandPort, Take, TakeSync, TakeUnsync,
       TakeExpose, TakeUnexpose, BeginSync, BeginUnsync, terms
  <2>6. CASE Message
    BY <2>6 DEF Message, WebCreate, WebKill, BeginSync, BeginUnsync, ExposeAnswer, terms
  <2>7. CASE \/ \E k \in Keys : \/ ShellStarts(k) \/ ShellEnds(k)
                                \/ WebRequest("web_create", k) \/ WebRequest("web_kill", k)
             \/ \E t \in {"other", "nontext"} : WebTraffic(t)
             \/ SendExpose \/ SendUnexpose \/ SlowSend \/ SendEnds
             \/ ConnLost \/ Disconnect \/ Heartbeat \/ CloudStep \/ ConnFails \/ UNCHANGED vars
    BY <2>7 DEF ConnLost, Disconnect, Heartbeat, CloudStep, ConnFails, vars, SendExpose,
       SendUnexpose, SlowSend, SendEnds, ShellStarts, ShellEnds, WebRequest, WebTraffic, terms
  <2>8. QED
    BY <1>1, <2>1, <2>2, <2>3, <2>4, <2>5, <2>6, <2>7 DEF Next, Confirmation
<1>2. TypeOK /\ UnderWay /\ [Next]_vars
        => [~crossed' => terminals' \ terminals \subseteq cloudTerms]_vars
  BY <1>1
<1>3. QED
  BY <1>2, AlwaysUnderWay, PTL DEF Spec, WithoutCrossingConfirmed

=============================================================================
