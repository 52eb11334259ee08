-------------------------- MODULE ProxyTasksProofs --------------------------
(* Theorems about ProxyTasks, for any requests, WebSockets and capacities. *)
EXTENDS ProxyTasks, TLAPS

-----------------------------------------------------------------------------
(* Why the cloud hears of each request in order. *)

\* The events of a request in the channel: the first one first, the last last.
EventsInOrder ==
  \A j, k \in DOMAIN events :
    j < k /\ events[j].id = events[k].id
      => events[j].kind # "last" /\ events[k].kind # "first"

\* A task with an event in the channel has sent its first; with its last event
\* there it is done.
EventsAreSent ==
  \A j \in DOMAIN events :
    LET t == task[events[j].id] IN
      /\ t.at \notin {"none", "connecting"}
      /\ t.at = "sending" => t.event # "first"
      /\ events[j].kind = "last" => t.at = "done"

\* Nothing is heard of a request the cloud has not made.
UnknownIsSilent == \A i \in Ids : task[i].at = "none" => told[i] = "silent"

InChannel(i, kind) == \E j \in DOMAIN events : events[j].id = i /\ events[j].kind = kind

\* The task has sent its first event, and goes on.
Begun(i) ==
  \/ task[i].at = "streaming"
  \/ task[i].at = "sending" /\ task[i].event = "data"

\* What was heard on this connection, what is in the channel and what the
\* task is about to send follow each other.
HeardSoFar ==
  conn => \A i \in Ids :
    /\ told[i] = "silent" /\ (Begun(i) \/ InChannel(i, "data")) => InChannel(i, "first")
    /\ told[i] = "open" =>
         /\ ~InChannel(i, "first")
         /\ task[i].at \notin {"none", "connecting"}
         /\ task[i].at = "sending" => task[i].event # "first"
    /\ told[i] = "over" => task[i].at = "done" /\ \A j \in DOMAIN events : events[j].id # i

OrderInv == ToldInOrder /\ EventsInOrder /\ EventsAreSent /\ UnknownIsSilent /\ HeardSoFar

\* A manager that is gone tells nothing, and nothing reaches it.
GoneIsSilent == manager = "gone" => ~conn /\ events = <<>>

-----------------------------------------------------------------------------
(* Lemmas *)

\* Appending to a sequence, and taking its head.
LEMMA AppendFacts ==
  ASSUME NEW S, NEW s \in Seq(S), NEW e \in S
  PROVE  /\ Append(s, e) \in Seq(S) /\ Len(Append(s, e)) = Len(s) + 1
         /\ DOMAIN s = 1..Len(s) /\ DOMAIN Append(s, e) = 1..(Len(s) + 1)
         /\ \A j \in 1..Len(s) : Append(s, e)[j] = s[j]
         /\ Append(s, e)[Len(s) + 1] = e
         /\ Len(s) \in Nat
  OBVIOUS

LEMMA TailFacts ==
  ASSUME NEW S, NEW s \in Seq(S), s # <<>>
  PROVE  /\ Tail(s) \in Seq(S) /\ Len(Tail(s)) = Len(s) - 1
         /\ Len(s) \in Nat \ {0}
         /\ DOMAIN s = 1..Len(s) /\ DOMAIN Tail(s) = 1..(Len(s) - 1)
         /\ \A j \in 1..(Len(s) - 1) : Tail(s)[j] = s[j + 1]
         /\ Head(s) = s[1] /\ Head(s) \in S
  OBVIOUS

\* What a task's position says of its fields.
LEMMA TaskFields ==
  /\ \A l \in {"none", "connecting", "streaming", "done"} : At(l) \in Task /\ At(l).at = l
  /\ \A t \in Task :
       /\ t.at \in {"none", "connecting", "streaming", "done", "sending"}
       /\ t.at = "sending" =>
            /\ t.event \in {"first", "data", "last"}
            /\ t.then = IF t.event = "last" THEN "done" ELSE "streaming"
  BY DEF Task, At, Sending

LEMMA SendingFields ==
  \A e, l : Sending(e, l).at = "sending" /\ Sending(e, l).event = e /\ Sending(e, l).then = l
  BY DEF Sending

\* The steps in which a task gets ready to send an event.
Prepares(i) ==
  /\ \/ task[i].at = "connecting" /\ Moves(i, Sending("first", "streaming"))
     \/ task[i].at = "streaming" /\ Moves(i, Sending("data", "streaming"))
     \/ task[i].at \in {"connecting", "streaming"} /\ Moves(i, Sending("last", "done"))
  /\ UNCHANGED <<conn, manager, tables, aborted, writers, events, told>>

\* The steps that change neither tasks nor what is told nor the channel.
Elsewhere == UNCHANGED <<task, events, told, conn>>

\* The steps of Next, those that do alike taken together.
LEMMA NextCases ==
  ASSUME Next
  PROVE  \/ \E i \in Ids : Prepares(i) \/ Send(i) \/ SendFails(i) \/ Stop(i)
         \/ \E r \in Requests : RequestHead(r) \/ RequestCancel(r)
         \/ \E w \in Sockets : WriterTakes(w) \/ WriterWrites(w) \/ WriterEnds(w)
                              \/ WsUpgrade(w) \/ WsData(w) \/ WsClose(w)
         \/ HandleEvent \/ WsClosed \/ DropConn \/ Disconnect \/ Reconnect
         \/ UpgradePanics \/ TurnsAway \/ Returns
<1>1. ASSUME NEW r \in Requests, Fetch(r) \/ Stream(r) PROVE r \in Ids /\ Prepares(r)
  BY <1>1 DEF Fetch, Stream, Prepares, Ids
<1>2. ASSUME NEW w \in Sockets, Connect(w) \/ Read(w) PROVE w \in Ids /\ Prepares(w)
  BY <1>2 DEF Connect, Read, Prepares, Ids
<1>3. QED
  BY <1>1, <1>2 DEF Next, TaskStep, RequestStep, SocketStep, WriterStep, ManagerStep

-----------------------------------------------------------------------------
(* Typing *)

LEMMA InitType == Init => TypeOK
<1> SUFFICES ASSUME Init PROVE TypeOK
  OBVIOUS
<1>1. <<>> \in Seq(Event) /\ Len(<<>>) = 0
  OBVIOUS
<1>2. QED
  BY <1>1, TaskFields, CapAssumption DEF Init, TypeOK, Places

LEMMA CancelType ==
  ASSUME TypeOK, NEW I \in SUBSET Ids, Cancel(I)
  PROVE  pending_requests' \subseteq Requests /\ pending_ws' \subseteq Sockets /\ aborted' \subseteq Ids
  BY DEF Cancel, TypeOK

LEMMA HeardType ==
  ASSUME NEW t \in {"silent", "open", "over", "broken", "stale", "late"}, NEW k
  PROVE  Heard(t, k) \in {"silent", "open", "over", "broken", "stale", "late"}
  BY DEF Heard

\* Every step of a task keeps the types.
LEMMA TaskType ==
  ASSUME TypeOK, NEW i \in Ids, Prepares(i) \/ Send(i) \/ SendFails(i) \/ Stop(i)
  PROVE  TypeOK'
<1> USE DEF tables, writers
<1>1. CASE Prepares(i)
  <2>1. task' \in [Ids -> Task]
    BY <1>1 DEF Prepares, Moves, TypeOK, Task
  <2>2. QED
    BY <1>1, <2>1, Zenon DEF Prepares, TypeOK
<1>2. CASE Send(i)
  <2>1. task[i] \in Task /\ task[i].at = "sending"
    BY <1>2 DEF Send, TypeOK
  <2>2. [id |-> i, kind |-> task[i].event] \in Event
    BY <2>1, TaskFields DEF Event
  <2>3. events' \in Seq(Event) /\ Len(events') <= EventCap
    BY <1>2, <2>2, AppendFacts, CapAssumption DEF Send, TypeOK
  <2>4. task' \in [Ids -> Task]
    BY <1>2, <2>1, TaskFields DEF Send, Moves, TypeOK
  <2>5. writer' \in [Sockets -> {"none", "waiting", "ready", "writing", "done"}]
    BY <1>2 DEF Send, HandsOver, TypeOK
  <2>6. QED
    BY <1>2, <2>3, <2>4, <2>5, Zenon DEF Send, TypeOK
<1>3. CASE Stop(i)
  <2>1. task' \in [Ids -> Task]
    BY <1>3, TaskFields DEF Stop, Moves, TypeOK
  <2>2. QED
    BY <1>3, <2>1, Zenon DEF Stop, TypeOK
<1>4. CASE SendFails(i)
  <2>1. task[i] \in Task /\ task[i].at = "sending"
    BY <1>4 DEF SendFails, TypeOK
  <2>2. task' \in [Ids -> Task]
    BY <1>4, <2>1, TaskFields DEF SendFails, Moves, TypeOK
  <2>3. writer' \in [Sockets -> {"none", "waiting", "ready", "writing", "done"}]
    BY <1>4 DEF SendFails, HandsOver, TypeOK
  <2>4. QED
    BY <1>4, <2>2, <2>3, Zenon DEF SendFails, TypeOK
<1>5. QED
  BY <1>1, <1>2, <1>3, <1>4

\* Every step of a writer keeps the types.
LEMMA WriterType ==
  ASSUME TypeOK, NEW w \in Sockets, WriterTakes(w) \/ WriterWrites(w) \/ WriterEnds(w)
  PROVE  TypeOK'
<1> USE DEF tables, writers
<1>1. writer' \in [Sockets -> {"none", "waiting", "ready", "writing", "done"}]
  BY DEF WriterTakes, WriterWrites, WriterEnds, Ends, TypeOK
<1>2. queue' \in [Sockets -> 0..WriterCap]
  <2>1. queue[w] \in 0..WriterCap
    BY DEF TypeOK
  <2>2. \/ queue' = queue
        \/ queue[w] > 0 /\ queue' = [queue EXCEPT ![w] = @ - 1]
        \/ queue' = [queue EXCEPT ![w] = 0]
    BY DEF WriterTakes, WriterWrites, WriterEnds, Ends
  <2>3. QED
    BY <2>1, <2>2, CapAssumption DEF TypeOK
<1>3. UNCHANGED <<conn, manager, tables, task, aborted, events, told>>
  BY Zenon DEF WriterTakes, WriterWrites, WriterEnds
<1>4. QED
  BY <1>1, <1>2, <1>3, Zenon DEF TypeOK

\* So does every step of the manager.
LEMMA ManagerType ==
  ASSUME TypeOK,
         \/ HandleEvent \/ WsClosed \/ DropConn \/ Disconnect \/ Reconnect
         \/ UpgradePanics \/ TurnsAway \/ Returns
  PROVE  TypeOK'
<1> USE DEF tables, writers
<1>1. CASE HandleEvent
  <2> DEFINE e == Head(events)
  <2>1. e \in Event /\ events' \in Seq(Event) /\ Len(events') <= EventCap
    BY <1>1, TailFacts, CapAssumption DEF HandleEvent, TypeOK
  <2>2. e.id \in Ids
    BY <2>1 DEF Event
  <2>3. pending_requests' \subseteq Requests /\ pending_ws' \subseteq Sockets /\ aborted' \subseteq Ids
    BY <1>1, <2>2, CancelType DEF HandleEvent, TypeOK
  <2>4. told' \in [Ids -> {"silent", "open", "over", "broken", "stale", "late"}]
    <3>1. \/ told' = told
          \/ told' = [told EXCEPT ![e.id] = Heard(told[e.id], e.kind)]
      BY <1>1 DEF HandleEvent
    <3>2. Heard(told[e.id], e.kind) \in {"silent", "open", "over", "broken", "stale", "late"}
      BY <2>2, HeardType DEF TypeOK
    <3>3. QED
      BY <2>2, <3>1, <3>2 DEF TypeOK
  <2>5. QED
    BY <1>1, <2>1, <2>3, <2>4, Zenon DEF HandleEvent, TypeOK
<1>2. CASE WsClosed
  <2>1. manager \in Sockets /\ manager \in Ids
    BY <1>2 DEF WsClosed, Ids
  <2>2. pending_requests' \subseteq Requests /\ pending_ws' \subseteq Sockets /\ aborted' \subseteq Ids
    BY <1>2, <2>1, CancelType DEF WsClosed
  <2>3. queue' \in [Sockets -> 0..WriterCap]
    BY <1>2, <2>1, CapAssumption DEF WsClosed, TypeOK
  <2>4. QED
    BY <1>2, <2>2, <2>3 DEF WsClosed, TypeOK, Places
<1>3. CASE DropConn
  BY <1>3, CancelType DEF DropConn, TypeOK
<1>4. CASE Disconnect
  BY <1>4 DEF Disconnect, TypeOK
<1>5. CASE Reconnect
  BY <1>5 DEF Reconnect, TypeOK
<1>6. CASE UpgradePanics
  <2>1. events' \in Seq(Event) /\ Len(events') <= EventCap
    BY <1>6, CapAssumption DEF UpgradePanics
  <2>2. QED
    BY <1>6, <2>1 DEF UpgradePanics, TypeOK, Places
<1>7. CASE TurnsAway \/ Returns
  BY <1>7 DEF TurnsAway, Returns, TypeOK, Places
<1>8. QED
  BY <1>1, <1>2, <1>3, <1>4, <1>5, <1>6, <1>7

\* And every message of the cloud.
LEMMA MessageType ==
  ASSUME TypeOK,
         \/ \E r \in Requests : RequestHead(r) \/ RequestCancel(r)
         \/ \E w \in Sockets : WsUpgrade(w) \/ WsData(w) \/ WsClose(w)
  PROVE  TypeOK'
<1> USE DEF tables, writers
<1>1. ASSUME NEW r \in Requests, RequestHead(r) PROVE TypeOK'
  <2>1. task' \in [Ids -> Task]
    BY <1>1, TaskFields DEF RequestHead, Moves, TypeOK, Ids
  <2>2. QED
    BY <1>1, <2>1 DEF RequestHead, TypeOK
<1>2. ASSUME NEW r \in Requests, RequestCancel(r) PROVE TypeOK'
  <2>1. {r} \in SUBSET Ids
    BY DEF Ids
  <2>2. QED
    BY <1>2, <2>1, CancelType DEF RequestCancel, TypeOK
<1>3. ASSUME NEW w \in Sockets, WsUpgrade(w) PROVE TypeOK'
  <2>1. task' \in [Ids -> Task]
    BY <1>3, TaskFields DEF WsUpgrade, Moves, TypeOK, Ids
  <2>2. QED
    BY <1>3, <2>1 DEF WsUpgrade, TypeOK
<1>4. ASSUME NEW w \in Sockets, WsData(w) PROVE TypeOK'
  <2>1. queue' \in [Sockets -> 0..WriterCap]
    BY <1>4, CapAssumption DEF WsData, TypeOK
  <2>2. QED
    BY <1>4, <2>1, Zenon DEF WsData, TypeOK
<1>5. ASSUME NEW w \in Sockets, WsClose(w) PROVE TypeOK'
  BY <1>5 DEF WsClose, TypeOK, Places
<1>6. QED
  BY <1>1, <1>2, <1>3, <1>4, <1>5

LEMMA StepType == TypeOK /\ [Next]_vars => TypeOK'
<1> SUFFICES ASSUME TypeOK, [Next]_vars PROVE TypeOK'
  OBVIOUS
<1>1. CASE Next
  BY <1>1, NextCases, TaskType, WriterType, ManagerType, MessageType
<1>2. CASE UNCHANGED vars
  BY <1>2 DEF vars, tables, writers, TypeOK, Places
<1>3. QED
  BY <1>1, <1>2

\* Every variable stays in its type.
THEOREM TypeCorrect == Spec => []TypeOK
BY InitType, StepType, PTL DEF Spec

-----------------------------------------------------------------------------
(* The channel of events *)

\* What a step of the channel leaves in it.
LEMMA SendChannel ==
  ASSUME TypeOK, NEW i \in Ids, Send(i)
  PROVE  \E n \in Nat :
           /\ DOMAIN events = 1..n /\ DOMAIN events' = 1..(n + 1)
           /\ \A j \in DOMAIN events : events'[j] = events[j]
           /\ events'[n + 1].id = i /\ events'[n + 1].kind = task[i].event
           /\ \A x, k : InChannel(x, k)' <=> InChannel(x, k) \/ (x = i /\ k = task[i].event)
<1>1. [id |-> i, kind |-> task[i].event] \in Event
  BY TaskFields DEF Send, TypeOK, Event
<1>2. PICK n \in Nat :
        /\ DOMAIN events = 1..n /\ DOMAIN events' = 1..(n + 1)
        /\ \A j \in DOMAIN events : events'[j] = events[j]
        /\ events'[n + 1] = [id |-> i, kind |-> task[i].event]
  <2>1. Len(events) \in Nat
    BY <1>1, AppendFacts DEF TypeOK
  <2>2. /\ DOMAIN events = 1..Len(events) /\ DOMAIN events' = 1..(Len(events) + 1)
        /\ \A j \in DOMAIN events : events'[j] = events[j]
        /\ events'[Len(events) + 1] = [id |-> i, kind |-> task[i].event]
    BY <1>1, AppendFacts DEF Send, TypeOK
  <2>3. QED
    BY <2>1, <2>2
<1>3. ASSUME NEW x, NEW k
      PROVE  InChannel(x, k)' <=> InChannel(x, k) \/ (x = i /\ k = task[i].event)
  BY <1>2 DEF InChannel
<1>4. QED
  BY <1>2, <1>3

LEMMA HandleChannel ==
  ASSUME TypeOK, HandleEvent
  PROVE  /\ Head(events) \in Event /\ Head(events) = events[1]
         /\ Len(events) \in Nat \ {0}
         /\ DOMAIN events = 1..Len(events) /\ DOMAIN events' = 1..(Len(events) - 1)
         /\ \A j \in DOMAIN events' : events'[j] = events[j + 1]
         /\ \A x, k : InChannel(x, k) <=>
                       InChannel(x, k)' \/ (x = Head(events).id /\ k = Head(events).kind)
<1>1. /\ Head(events) \in Event /\ Head(events) = events[1]
      /\ Len(events) \in Nat \ {0}
      /\ DOMAIN events = 1..Len(events) /\ DOMAIN events' = 1..(Len(events) - 1)
      /\ \A j \in DOMAIN events' : events'[j] = events[j + 1]
  BY TailFacts DEF HandleEvent, TypeOK
<1>2. ASSUME NEW x, NEW k, InChannel(x, k)
      PROVE  InChannel(x, k)' \/ (x = Head(events).id /\ k = Head(events).kind)
  <2>1. PICK j \in DOMAIN events : events[j].id = x /\ events[j].kind = k
    BY <1>2 DEF InChannel
  <2>2. CASE j = 1
    BY <1>1, <2>1, <2>2
  <2>3. CASE j # 1
    <3>1. j - 1 \in DOMAIN events' /\ events'[j - 1] = events[j]
      BY <1>1, <2>3
    <3>2. QED
      BY <2>1, <3>1 DEF InChannel
  <2>4. QED
    BY <2>2, <2>3
<1>3. ASSUME NEW x, NEW k, InChannel(x, k)' \/ (x = Head(events).id /\ k = Head(events).kind)
      PROVE  InChannel(x, k)
  <2>1. CASE InChannel(x, k)'
    <3>1. PICK j \in DOMAIN events' : events'[j].id = x /\ events'[j].kind = k
      BY <2>1 DEF InChannel
    <3>2. j + 1 \in DOMAIN events /\ events[j + 1] = events'[j]
      BY <1>1
    <3>3. QED
      BY <3>1, <3>2 DEF InChannel
  <2>2. CASE x = Head(events).id /\ k = Head(events).kind
    BY <1>1, <2>2 DEF InChannel
  <2>3. QED
    BY <1>3, <2>1, <2>2
<1>4. QED
  BY <1>1, <1>2, <1>3

-----------------------------------------------------------------------------
(* The cloud is told in order *)

LEMMA InitOrder == Init => OrderInv
<1> SUFFICES ASSUME Init PROVE OrderInv
  OBVIOUS
<1>1. DOMAIN events = {}
  BY DEF Init
<1>2. \A i \in Ids : told[i] = "silent" /\ task[i].at = "none"
  BY TaskFields DEF Init
<1>3. QED
  BY <1>1, <1>2 DEF OrderInv, ToldInOrder, EventsInOrder, EventsAreSent, UnknownIsSilent,
                    HeardSoFar, Begun, InChannel

\* A task gets ready to send.
LEMMA PreparesOrder ==
  ASSUME TypeOK, OrderInv, NEW i \in Ids, Prepares(i)
  PROVE  OrderInv'
<1> USE DEF OrderInv
<1>1. UNCHANGED <<events, told, conn>> /\ \A x \in Ids \ {i} : task'[x] = task[x]
  BY DEF Prepares, Moves, TypeOK
<1>2. task[i].at \in {"connecting", "streaming"}
  BY DEF Prepares
<1>3. /\ task'[i].at = "sending"
      /\ task'[i].event \in {"first", "data"} => task'[i].event =
           IF task[i].at = "connecting" THEN "first" ELSE "data"
  BY SendingFields DEF Prepares, Moves, TypeOK
<1>4. \A j \in DOMAIN events : events[j] \in Event
  BY DEF TypeOK
<1>5. ToldInOrder' /\ EventsInOrder'
  BY <1>1 DEF ToldInOrder, EventsInOrder
<1>6. EventsAreSent'
  BY <1>1, <1>2, <1>3, <1>4 DEF EventsAreSent, Event
<1>7. UnknownIsSilent'
  BY <1>1, <1>3 DEF UnknownIsSilent
<1>8. HeardSoFar'
  BY <1>1, <1>2, <1>3 DEF HeardSoFar, Begun, InChannel
<1>9. QED
  BY <1>5, <1>6, <1>7, <1>8

\* An event enters the channel.
LEMMA SendOrder ==
  ASSUME TypeOK, OrderInv, NEW i \in Ids, Send(i)
  PROVE  OrderInv'
<1> USE DEF OrderInv
<1>c. PICK n \in Nat :
        /\ DOMAIN events = 1..n /\ DOMAIN events' = 1..(n + 1)
        /\ \A j \in DOMAIN events : events'[j] = events[j]
        /\ events'[n + 1].id = i /\ events'[n + 1].kind = task[i].event
        /\ \A x, k : InChannel(x, k)' <=> InChannel(x, k) \/ (x = i /\ k = task[i].event)
  BY SendChannel
<1>1. UNCHANGED <<told, conn>> /\ \A x \in Ids \ {i} : task'[x] = task[x]
  BY DEF Send, Moves, TypeOK
<1>2. /\ task[i].at = "sending" /\ task[i].event \in {"first", "data", "last"}
      /\ task'[i].at = IF task[i].event = "last" THEN "done" ELSE "streaming"
  <2>1. task[i] \in Task /\ task[i].at = "sending"
    BY DEF Send, TypeOK
  <2>2. task'[i] = At(task[i].then)
    BY DEF Send, Moves, TypeOK
  <2>3. QED
    BY <2>1, <2>2, TaskFields
<1>3. \A j \in DOMAIN events : events[j] \in Event /\ events[j].id \in Ids
  <2>1. \A e \in Event : e.id \in Ids
    BY DEF Event
  <2>2. QED
    BY <2>1 DEF TypeOK
<1>4. \A j \in DOMAIN events : events[j].id = i => events[j].kind # "last" /\ task[i].event # "first"
  BY <1>2 DEF EventsAreSent
<1>5. ToldInOrder'
  BY <1>1 DEF ToldInOrder
<1>6. EventsInOrder'
  <2> SUFFICES ASSUME NEW j \in 1..(n + 1), NEW k \in 1..(n + 1), j < k, events'[j].id = events'[k].id
               PROVE  events'[j].kind # "last" /\ events'[k].kind # "first"
    BY <1>c DEF EventsInOrder
  <2>1. j \in DOMAIN events /\ events'[j] = events[j]
    BY <1>c
  <2>2. CASE k = n + 1
    BY <1>4, <2>1, <2>2, <1>c
  <2>3. CASE k # n + 1
    <3>1. k \in DOMAIN events /\ events'[k] = events[k]
      BY <2>3, <1>c
    <3>2. QED
      BY <2>1, <3>1 DEF EventsInOrder
  <2>4. QED
    BY <2>2, <2>3
<1>7. EventsAreSent'
  <2> SUFFICES ASSUME NEW j \in 1..(n + 1)
               PROVE  /\ task'[events'[j].id].at \notin {"none", "connecting", "sending"}
                           \/ (events'[j].id # i /\ task'[events'[j].id] = task[events'[j].id]
                                 /\ j \in DOMAIN events /\ events'[j] = events[j])
                      /\ events'[j].kind = "last" => task'[events'[j].id].at = "done"
    BY <1>c DEF EventsAreSent
  <2>1. CASE j = n + 1
    BY <1>2, <2>1, <1>c
  <2>2. CASE j # n + 1
    <3>1. j \in DOMAIN events /\ events'[j] = events[j]
      BY <2>2, <1>c
    <3>2. QED
      BY <1>1, <1>2, <1>3, <1>4, <3>1 DEF EventsAreSent
  <2>3. QED
    BY <2>1, <2>2
<1>8. UnknownIsSilent'
  BY <1>1, <1>2 DEF UnknownIsSilent
<1>9. HeardSoFar'
  <2> SUFFICES ASSUME conn, NEW x \in Ids
               PROVE  /\ told[x] = "silent" /\ (Begun(x)' \/ InChannel(x, "data")') => InChannel(x, "first")'
                      /\ told[x] = "open" =>
                           /\ ~InChannel(x, "first")'
                           /\ task'[x].at \notin {"none", "connecting"}
                           /\ task'[x].at = "sending" => task'[x].event # "first"
                      /\ told[x] = "over" => task'[x].at = "done" /\ \A j \in DOMAIN events' : events'[j].id # x
    BY <1>1 DEF HeardSoFar
  <2>1. told[x] = "silent" /\ (Begun(x)' \/ InChannel(x, "data")') => InChannel(x, "first")'
    <3>1. CASE x = i
      BY <1>2, <3>1, <1>c DEF HeardSoFar, Begun
    <3>2. CASE x # i
      BY <1>1, <3>2, <1>c DEF HeardSoFar, Begun
    <3>3. QED
      BY <3>1, <3>2
  <2>2. told[x] = "open" =>
          /\ ~InChannel(x, "first")'
          /\ task'[x].at \notin {"none", "connecting"}
          /\ task'[x].at = "sending" => task'[x].event # "first"
    BY <1>1, <1>2, <1>c DEF HeardSoFar
  <2>3. told[x] = "over" => task'[x].at = "done" /\ \A j \in DOMAIN events' : events'[j].id # x
    <3> SUFFICES ASSUME told[x] = "over"
                 PROVE  task'[x].at = "done" /\ \A j \in DOMAIN events' : events'[j].id # x
      OBVIOUS
    <3>1. x # i /\ task'[x].at = "done"
      BY <1>1, <1>2 DEF HeardSoFar
    <3>2. ASSUME NEW j \in DOMAIN events' PROVE events'[j].id # x
      <4>1. CASE j = n + 1
        BY <3>1, <4>1, <1>c
      <4>2. CASE j # n + 1
        BY <4>2, <1>c DEF HeardSoFar
      <4>3. QED
        BY <4>1, <4>2
    <3>3. QED
      BY <3>1, <3>2
  <2>4. QED
    BY <2>1, <2>2, <2>3
<1>10. QED
  BY <1>5, <1>6, <1>7, <1>8, <1>9

\* An event leaves the channel, and the cloud may hear of it.
LEMMA HandleOrder ==
  ASSUME TypeOK, OrderInv, HandleEvent
  PROVE  OrderInv'
<1> USE DEF OrderInv
<1>h. PICK e \in Event : e = Head(events)
  BY HandleChannel
<1>c. PICK n \in Nat \ {0} :
        /\ DOMAIN events = 1..n /\ DOMAIN events' = 1..(n - 1)
        /\ \A j \in DOMAIN events' : events'[j] = events[j + 1]
  BY HandleChannel
<1>e. e = events[1] /\ 1 \in DOMAIN events
  BY <1>c, <1>h, HandleChannel
<1>i. \A x, k : InChannel(x, k) <=> InChannel(x, k)' \/ (x = e.id /\ k = e.kind)
  BY <1>h, HandleChannel
<1>1. UNCHANGED <<task, conn>>
  BY DEF HandleEvent
<1>2. e.id \in Ids /\ e.kind \in {"first", "data", "last"}
  BY DEF Event
<1>3. \A j \in DOMAIN events' : j + 1 \in DOMAIN events /\ 1 < j + 1
  BY <1>c
\* What is behind the head.
<1>4. ASSUME NEW k, InChannel(e.id, k)'
      PROVE  k # "first" /\ e.kind # "last"
  <2>1. PICK j \in DOMAIN events' : events'[j].id = e.id /\ events'[j].kind = k
    BY <1>4 DEF InChannel
  <2>2. events[j + 1].id = events[1].id /\ events[j + 1].kind = k
    BY <1>c, <1>e, <2>1
  <2>3. QED
    BY <1>3, <1>e, <2>1, <2>2 DEF EventsInOrder
<1>5. told' = IF conn THEN [told EXCEPT ![e.id] = Heard(told[e.id], e.kind)] ELSE told
  BY <1>h DEF HandleEvent
<1>6. \A x \in Ids \ {e.id} : told'[x] = told[x]
  BY <1>5 DEF TypeOK
<1>7. conn => told'[e.id] = Heard(told[e.id], e.kind)
  BY <1>2, <1>5 DEF TypeOK
<1>8. task[e.id].at # "none" /\ task[e.id].at # "connecting"
      /\ (task[e.id].at = "sending" => task[e.id].event # "first")
      /\ (e.kind = "last" => task[e.id].at = "done")
  BY <1>e DEF EventsAreSent
\* What the cloud knew of the request at the head.
<1>9. ASSUME conn
      PROVE  /\ told[e.id] = "silent" => e.kind # "data"
             /\ told[e.id] = "open" => e.kind # "first"
             /\ told[e.id] # "over" /\ told[e.id] # "broken"
  <2>1. InChannel(e.id, e.kind)
    BY <1>e DEF InChannel
  <2>2. told[e.id] = "silent" => e.kind # "data"
    <3> SUFFICES ASSUME told[e.id] = "silent", e.kind = "data" PROVE FALSE
      OBVIOUS
    <3>1. InChannel(e.id, "first")
      BY <1>2, <1>9, <2>1 DEF HeardSoFar
    <3>2. InChannel(e.id, "first")'
      BY <1>i, <3>1
    <3>3. QED
      BY <1>4, <3>2
  <2>3. told[e.id] = "open" => e.kind # "first"
    BY <1>2, <1>9, <2>1 DEF HeardSoFar
  <2>4. told[e.id] # "over"
    BY <1>2, <1>9, <1>e DEF HeardSoFar
  <2>5. QED
    BY <1>2, <2>2, <2>3, <2>4 DEF ToldInOrder
<1>10. conn => told'[e.id] = IF told[e.id] \in {"stale", "late"} THEN "late"
                             ELSE IF e.kind = "last" THEN "over" ELSE "open"
  BY <1>2, <1>7, <1>9 DEF Heard, TypeOK
<1>11. ToldInOrder'
  BY <1>2, <1>5, <1>6, <1>10 DEF ToldInOrder
<1>12. EventsInOrder'
  <2> SUFFICES ASSUME NEW j \in DOMAIN events', NEW k \in DOMAIN events', j < k,
                      events'[j].id = events'[k].id
               PROVE  events'[j].kind # "last" /\ events'[k].kind # "first"
    BY DEF EventsInOrder
  <2>1. j + 1 < k + 1
    BY <1>c
  <2>2. QED
    BY <1>c, <1>3, <2>1 DEF EventsInOrder
<1>13. EventsAreSent'
  BY <1>c, <1>1, <1>3 DEF EventsAreSent
<1>14. UnknownIsSilent'
  BY <1>1, <1>5, <1>6, <1>8 DEF UnknownIsSilent
<1>15. HeardSoFar'
  <2> SUFFICES ASSUME conn, NEW x \in Ids
               PROVE  /\ told'[x] = "silent" /\ (Begun(x)' \/ InChannel(x, "data")') => InChannel(x, "first")'
                      /\ told'[x] = "open" =>
                           /\ ~InChannel(x, "first")'
                           /\ task'[x].at \notin {"none", "connecting"}
                           /\ task'[x].at = "sending" => task'[x].event # "first"
                      /\ told'[x] = "over" => task'[x].at = "done" /\ \A j \in DOMAIN events' : events'[j].id # x
    BY <1>1 DEF HeardSoFar
  <2>1. CASE x = e.id
    <3>1. told'[x] \in {"late", "open", "over"}
      BY <1>10, <2>1
    <3>2. told'[x] = "open" => ~InChannel(x, "first")'
      BY <1>4, <2>1
    <3>3. told'[x] = "over" => e.kind = "last"
      BY <1>10, <2>1
    <3>4. ASSUME told'[x] = "over", NEW j \in DOMAIN events' PROVE events'[j].id # x
      <4>1. SUFFICES ASSUME events'[j].id = x PROVE FALSE
        OBVIOUS
      <4>2. PICK k : k = events'[j].kind
        OBVIOUS
      <4>3. InChannel(e.id, k)'
        BY <2>1, <4>1, <4>2 DEF InChannel
      <4>4. QED
        BY <1>4, <3>3, <3>4, <4>3
    <3>5. QED
      BY <1>1, <1>8, <2>1, <3>1, <3>2, <3>3, <3>4
  <2>2. CASE x # e.id
    <3>1. told'[x] = told[x] /\ \A k : InChannel(x, k) <=> InChannel(x, k)'
      BY <1>6, <1>i, <2>2
    <3>2. Begun(x)' <=> Begun(x)
      BY <1>1 DEF Begun
    <3>3. told[x] = "over" => \A j \in DOMAIN events' : events'[j].id # x
      BY <1>c, <1>3 DEF HeardSoFar
    <3>4. QED
      BY <1>1, <3>1, <3>2, <3>3 DEF HeardSoFar
  <2>3. QED
    BY <2>1, <2>2
<1>16. QED
  BY <1>11, <1>12, <1>13, <1>14, <1>15

\* The cloud makes a request: a task for it begins.
LEMMA BeginOrder ==
  ASSUME TypeOK, OrderInv, NEW i \in Ids, task[i].at = "none", Moves(i, At("connecting")),
         UNCHANGED <<events, told, conn>>
  PROVE  OrderInv'
<1> USE DEF OrderInv
<1>1. \A x \in Ids \ {i} : task'[x] = task[x]
  BY DEF Moves, TypeOK
<1>2. task'[i].at = "connecting"
  BY DEF Moves, TypeOK, At
<1>3. told[i] = "silent"
  BY DEF UnknownIsSilent
<1>4. \A j \in DOMAIN events : events[j].id # i
  BY DEF EventsAreSent
<1>5. \A j \in DOMAIN events : events[j].id \in Ids
  <2>1. \A e \in Event : e.id \in Ids
    BY DEF Event
  <2>2. QED
    BY <2>1 DEF TypeOK
<1>6. EventsAreSent'
  BY <1>1, <1>4, <1>5 DEF EventsAreSent
<1>7. HeardSoFar'
  BY <1>1, <1>2, <1>3, <1>4 DEF HeardSoFar, Begun, InChannel
<1>8. QED
  BY <1>1, <1>2, <1>6, <1>7 DEF ToldInOrder, EventsInOrder, UnknownIsSilent

\* A task stops.
LEMMA StopOrder ==
  ASSUME TypeOK, OrderInv, NEW i \in Ids, Stop(i)
  PROVE  OrderInv'
<1> USE DEF OrderInv
<1>1. UNCHANGED <<events, told, conn>> /\ \A x \in Ids \ {i} : task'[x] = task[x]
  BY DEF Stop, Moves, TypeOK
<1>2. task'[i].at = "done"
  BY DEF Stop, Moves, TypeOK, At
<1>3. \A j \in DOMAIN events : events[j].id \in Ids
  <2>1. \A e \in Event : e.id \in Ids
    BY DEF Event
  <2>2. QED
    BY <2>1 DEF TypeOK
<1>4. EventsAreSent'
  BY <1>1, <1>2, <1>3 DEF EventsAreSent
<1>5. HeardSoFar'
  BY <1>1, <1>2 DEF HeardSoFar, Begun, InChannel
<1>6. QED
  BY <1>1, <1>2, <1>4, <1>5 DEF ToldInOrder, EventsInOrder, UnknownIsSilent

\* What is left of a manager that is gone.
LEMMA GoneOrder ==
  ASSUME OrderInv, ~conn', events' = <<>>, told' = told,
         \A i \in Ids : task'[i].at = "none" => task[i].at = "none"
  PROVE  OrderInv'
BY DEF OrderInv, ToldInOrder, EventsInOrder, EventsAreSent, UnknownIsSilent, HeardSoFar

LEMMA SendFailsOrder ==
  ASSUME TypeOK, OrderInv, GoneIsSilent, NEW i \in Ids, SendFails(i)
  PROVE  OrderInv'
<1>1. task[i] \in Task /\ task[i].at = "sending"
  BY DEF SendFails, TypeOK
<1>2. task'[i].at # "none"
  BY <1>1, TaskFields DEF SendFails, Moves, TypeOK
<1>3. \A x \in Ids \ {i} : task'[x] = task[x]
  BY DEF SendFails, Moves, TypeOK
<1>4. ~conn' /\ events' = <<>> /\ told' = told
  BY DEF SendFails, GoneIsSilent
<1>5. QED
  BY <1>2, <1>3, <1>4, GoneOrder

\* What is gone stays so.
LEMMA GoneStays == manager = "gone" /\ [Next]_vars => manager' = "gone"
<1> SUFFICES ASSUME manager = "gone", [Next]_vars PROVE manager' = "gone"
  OBVIOUS
<1>1. CASE Next
  BY <1>1, NextCases, IdsAssumption
     DEF Prepares, Send, SendFails, Stop, RequestHead, RequestCancel, WriterTakes, WriterWrites,
         WriterEnds, WsUpgrade, WsData, WsClose, HandleEvent, WsClosed, DropConn, Disconnect,
         Reconnect, UpgradePanics, TurnsAway, Returns, HandlesMessage
<1>2. QED
  BY <1>1 DEF vars

LEMMA GoneStep == GoneIsSilent /\ [Next]_vars => GoneIsSilent'
<1> SUFFICES ASSUME GoneIsSilent, [Next]_vars PROVE GoneIsSilent'
  OBVIOUS
<1>1. CASE Next
  <2>1. CASE UpgradePanics
    BY <2>1 DEF UpgradePanics, GoneIsSilent
  <2>2. CASE manager = "gone"
    BY <1>1, <2>2, NextCases, IdsAssumption
       DEF Prepares, Send, SendFails, Stop, RequestHead, RequestCancel, WriterTakes, WriterWrites,
           WriterEnds, WsUpgrade, WsData, WsClose, HandleEvent, WsClosed, DropConn, Disconnect,
           Reconnect, UpgradePanics, TurnsAway, Returns, HandlesMessage, GoneIsSilent
  <2>3. CASE manager # "gone" /\ ~UpgradePanics
    <3>1. manager' # "gone"
      BY <1>1, <2>3, NextCases, IdsAssumption
         DEF Prepares, Send, SendFails, Stop, RequestHead, RequestCancel, WriterTakes, WriterWrites,
             WriterEnds, WsUpgrade, WsData, WsClose, HandleEvent, WsClosed, DropConn, Disconnect,
             Reconnect, TurnsAway, Returns
    <3>2. QED
      BY <3>1 DEF GoneIsSilent
  <2>4. QED
    BY <2>1, <2>2, <2>3
<1>2. CASE UNCHANGED vars
  BY <1>2 DEF vars, GoneIsSilent
<1>3. QED
  BY <1>1, <1>2

\* The connection goes or comes.
LEMMA ConnOrder ==
  ASSUME TypeOK, OrderInv, DropConn \/ Disconnect \/ Reconnect
  PROVE  OrderInv'
<1> USE DEF OrderInv
<1>1. UNCHANGED <<task, events>>
  BY DEF DropConn, Disconnect, Reconnect
<1>2. CASE DropConn \/ Disconnect
  <2>1. ~conn' /\ told' = told
    BY <1>2 DEF DropConn, Disconnect
  <2>2. QED
    BY <1>1, <2>1
       DEF ToldInOrder, EventsInOrder, EventsAreSent, UnknownIsSilent, HeardSoFar
<1>3. CASE Reconnect
  <2>1. \A x \in Ids : told'[x] = IF task[x].at = "none" THEN told[x] ELSE "stale"
    BY <1>3 DEF Reconnect
  <2>2. \A j \in DOMAIN events : task[events[j].id].at # "none"
    BY DEF EventsAreSent
  <2>3. HeardSoFar'
    BY <1>1, <2>1, <2>2 DEF HeardSoFar, Begun, InChannel, UnknownIsSilent
  <2>4. QED
    BY <1>1, <2>1, <2>3 DEF ToldInOrder, EventsInOrder, EventsAreSent, UnknownIsSilent
<1>4. QED
  BY <1>2, <1>3

LEMMA StepOrder == TypeOK /\ OrderInv /\ GoneIsSilent /\ [Next]_vars => OrderInv'
<1> SUFFICES ASSUME TypeOK, OrderInv, GoneIsSilent, [Next]_vars PROVE OrderInv'
  OBVIOUS
<1>1. ASSUME Elsewhere PROVE OrderInv'
  BY <1>1 DEF Elsewhere, OrderInv, ToldInOrder, EventsInOrder, EventsAreSent, UnknownIsSilent,
              HeardSoFar, Begun, InChannel
<1>2. ASSUME NEW r \in Requests, RequestHead(r) \/ RequestCancel(r) PROVE OrderInv'
  <2>1. r \in Ids
    BY DEF Ids
  <2>2. QED
    BY <1>1, <1>2, <2>1, BeginOrder DEF RequestHead, RequestCancel, Elsewhere
<1>3. ASSUME NEW w \in Sockets, WsUpgrade(w) PROVE OrderInv'
  <2>1. w \in Ids
    BY DEF Ids
  <2>2. QED
    BY <1>3, <2>1, BeginOrder DEF WsUpgrade
<1>4. ASSUME NEW w \in Sockets,
             WriterTakes(w) \/ WriterWrites(w) \/ WriterEnds(w) \/ WsData(w) \/ WsClose(w)
      PROVE  OrderInv'
  BY <1>1, <1>4 DEF WriterTakes, WriterWrites, WriterEnds, WsData, WsClose, Elsewhere
<1>5. CASE WsClosed \/ TurnsAway \/ Returns
  BY <1>1, <1>5 DEF WsClosed, TurnsAway, Returns, Elsewhere
<1>6. CASE UpgradePanics
  BY <1>6, GoneOrder DEF UpgradePanics
<1>7. CASE UNCHANGED vars
  BY <1>1, <1>7 DEF vars, Elsewhere
<1>8. CASE Next
  BY <1>2, <1>3, <1>4, <1>5, <1>6, <1>8, NextCases, PreparesOrder, SendOrder, SendFailsOrder,
     StopOrder, HandleOrder, ConnOrder
<1>9. QED
  BY <1>7, <1>8

\* The cloud hears of each request a head, its body and one end.
THEOREM ToldCorrect == Spec => []ToldInOrder
<1>1. Init => OrderInv /\ GoneIsSilent
  BY InitOrder DEF Init, GoneIsSilent
<1>2. TypeOK /\ OrderInv /\ GoneIsSilent /\ [Next]_vars => OrderInv' /\ GoneIsSilent'
  BY StepOrder, GoneStep
<1>3. OrderInv => ToldInOrder
  BY DEF OrderInv
<1>4. QED
  BY <1>1, <1>2, <1>3, TypeCorrect, PTL DEF Spec

-----------------------------------------------------------------------------
(* Entries and tasks *)

\* A task that was aborted had begun.
AbortedRan == \A i \in aborted : task[i].at # "none"

EntryInv == PendingIsLive /\ RunningIsCancellable /\ AbortedRan

LEMMA InitEntry == Init => EntryInv
<1> SUFFICES ASSUME Init PROVE EntryInv
  OBVIOUS
<1>1. \A i \in Ids : ~Runs(i)
  BY TaskFields DEF Init, Runs
<1>2. QED
  BY <1>1 DEF Init, EntryInv, PendingIsLive, RunningIsCancellable, AbortedRan, pending

\* What the parts of EntryInv say of one id.
LEMMA EntryFields ==
  ASSUME TypeOK, OrderInv, EntryInv
  PROVE  /\ pending \subseteq Ids
         /\ \A i \in pending : (Runs(i) /\ i \notin aborted) \/ InChannel(i, "last")
         /\ \A i \in pending : task[i].at # "none"
         /\ \A i \in Ids : Runs(i) => i \in pending \cup aborted
         /\ \A w \in Sockets :
              writer[w] \in {"waiting", "ready", "writing"} => w \in pending_ws \cup aborted
         /\ \A r \in Requests : r \in pending <=> r \in pending_requests
         /\ \A w \in Sockets : w \in pending <=> w \in pending_ws
<1>1. pending \subseteq Ids
  BY DEF TypeOK, pending, Ids
<1>2. \A i \in pending : (Runs(i) /\ i \notin aborted) \/ InChannel(i, "last")
  BY DEF EntryInv, PendingIsLive, InChannel
<1>3. \A i \in pending : task[i].at # "none"
  BY <1>2 DEF Runs, InChannel, OrderInv, EventsAreSent
<1>4. QED
  BY <1>1, <1>2, <1>3, IdsAssumption DEF EntryInv, RunningIsCancellable, TypeOK, pending

\* The same in the next state, from which EntryInv' follows.
LEMMA EntryNext ==
  ASSUME \A i \in pending' : (Runs(i)' /\ i \notin aborted') \/ InChannel(i, "last")',
         \A i \in Ids : Runs(i)' => i \in pending' \cup aborted',
         \A w \in Sockets :
           writer'[w] \in {"waiting", "ready", "writing"} => w \in pending_ws' \cup aborted',
         AbortedRan'
  PROVE  EntryInv'
  BY DEF EntryInv, PendingIsLive, RunningIsCancellable, InChannel

\* A task goes on, sends or stops.
LEMMA TaskEntry ==
  ASSUME TypeOK, OrderInv, EntryInv, NEW i \in Ids, Prepares(i) \/ Send(i) \/ Stop(i)
  PROVE  EntryInv'
<1>1. UNCHANGED <<pending, pending_ws, aborted>> /\ \A x \in Ids \ {i} : task'[x] = task[x]
  BY DEF Prepares, Send, Stop, Moves, tables, TypeOK, pending
<1>2. Runs(i) /\ task'[i].at # "none"
  <2>1. CASE Prepares(i)
    BY <2>1, SendingFields DEF Prepares, Moves, Runs, TypeOK
  <2>2. CASE Send(i)
    <3>1. task[i] \in Task /\ task[i].at = "sending" /\ task'[i] = At(task[i].then)
      BY <2>2 DEF Send, Moves, TypeOK
    <3>2. QED
      BY <3>1, TaskFields DEF Runs
  <2>3. CASE Stop(i)
    BY <2>3, TaskFields DEF Stop, Moves, Runs, TypeOK
  <2>4. QED
    BY <2>1, <2>2, <2>3
<1>3. \A x, k : InChannel(x, k) => InChannel(x, k)'
  <2>1. CASE Send(i)
    BY <2>1, SendChannel
  <2>2. CASE Prepares(i) \/ Stop(i)
    BY <2>2 DEF Prepares, Stop, InChannel
  <2>3. QED
    BY <2>1, <2>2
<1>4. i \in pending => (Runs(i)' /\ i \notin aborted) \/ InChannel(i, "last")'
  <2>1. CASE Prepares(i)
    <3>1. Runs(i)'
      BY <2>1, SendingFields DEF Prepares, Moves, Runs, TypeOK
    <3>2. QED
      BY <1>3, <3>1, EntryFields
  <2>2. CASE Send(i)
    <3>1. task[i] \in Task /\ task[i].at = "sending" /\ task'[i] = At(task[i].then)
      BY <2>2 DEF Send, Moves, TypeOK
    <3>2. CASE task[i].event = "last"
      BY <2>2, <3>2, SendChannel
    <3>3. CASE task[i].event # "last"
      <4>1. Runs(i)'
        BY <3>1, <3>3, TaskFields DEF Runs
      <4>2. QED
        BY <1>3, <4>1, EntryFields
    <3>4. QED
      BY <3>2, <3>3
  <2>3. CASE Stop(i)
    BY <1>3, <2>3, EntryFields DEF Stop
  <2>4. QED
    BY <2>1, <2>2, <2>3
<1>5. \A x \in pending' : (Runs(x)' /\ x \notin aborted') \/ InChannel(x, "last")'
  <2> SUFFICES ASSUME NEW x \in pending
               PROVE  (Runs(x)' /\ x \notin aborted) \/ InChannel(x, "last")'
    BY <1>1
  <2>1. CASE x = i
    BY <1>4, <2>1
  <2>2. CASE x # i
    BY <1>1, <1>3, <2>2, EntryFields DEF Runs
  <2>3. QED
    BY <2>1, <2>2
<1>6. \A x \in Ids : Runs(x)' => x \in pending' \cup aborted'
  <2> SUFFICES ASSUME NEW x \in Ids, Runs(x)' PROVE x \in pending \cup aborted
    BY <1>1
  <2>1. Runs(x)
    BY <1>1, <1>2 DEF Runs
  <2>2. QED
    BY <2>1, EntryFields
<1>7. \A w \in Sockets :
        writer'[w] \in {"waiting", "ready", "writing"} => w \in pending_ws' \cup aborted'
  <2>1. \A w \in Sockets : writer'[w] = writer[w] \/ writer[w] = "waiting"
    BY DEF Prepares, Send, HandsOver, Stop, writers, TypeOK
  <2>2. QED
    BY <1>1, <2>1, EntryFields
<1>8. AbortedRan'
  BY <1>1, <1>2 DEF AbortedRan, EntryInv, TypeOK
<1>9. QED
  BY <1>5, <1>6, <1>7, <1>8, EntryNext

\* Some entries are cancelled, and no task moves.
LEMMA CancelEntry ==
  ASSUME TypeOK, OrderInv, EntryInv, NEW I \in SUBSET Ids, Cancel(I), UNCHANGED <<task, writer>>,
         \A x, k : InChannel(x, k) /\ ~(x \in I /\ k = "last") => InChannel(x, k)'
  PROVE  EntryInv'
<1>1. /\ pending' = pending \ I /\ pending_ws' = pending_ws \ I
      /\ aborted' = aborted \cup (I \cap pending)
  BY DEF Cancel, pending
<1>2. \A x : Runs(x)' <=> Runs(x)
  BY DEF Runs
<1>3. \A x \in pending' : (Runs(x)' /\ x \notin aborted') \/ InChannel(x, "last")'
  BY <1>1, <1>2, EntryFields
<1>4. \A x \in Ids : Runs(x)' => x \in pending' \cup aborted'
  BY <1>1, <1>2, EntryFields
<1>5. \A w \in Sockets :
        writer'[w] \in {"waiting", "ready", "writing"} => w \in pending_ws' \cup aborted'
  BY <1>1, EntryFields
<1>6. AbortedRan'
  BY <1>1, EntryFields DEF AbortedRan, EntryInv
<1>7. QED
  BY <1>3, <1>4, <1>5, <1>6, EntryNext

\* A request that is finished is forgotten; a WebSocket is cancelled.
LEMMA HandleEntry ==
  ASSUME TypeOK, OrderInv, EntryInv, HandleEvent
  PROVE  EntryInv'
<1>h. PICK e \in Event : e = Head(events)
  BY HandleChannel
<1>i. \A x, k : InChannel(x, k) <=> InChannel(x, k)' \/ (x = e.id /\ k = e.kind)
  BY <1>h, HandleChannel
<1>1. e.id \in Ids /\ UNCHANGED <<task, writer>> /\ \A x : Runs(x)' <=> Runs(x)
  BY DEF HandleEvent, Event, writers, Runs
<1>2. CASE e.kind # "last" /\ UNCHANGED <<tables, aborted>>
  <2>1. UNCHANGED <<pending, pending_ws, aborted>>
    BY <1>2 DEF tables, pending
  <2>2. \A x : InChannel(x, "last") => InChannel(x, "last")'
    BY <1>2, <1>i
  <2>3. AbortedRan'
    BY <1>1, <2>1 DEF AbortedRan, EntryInv
  <2>4. QED
    BY <1>1, <2>1, <2>2, <2>3, EntryFields, EntryNext
<1>3. CASE /\ e.kind = "last" /\ e.id \in Requests
           /\ pending_requests' = pending_requests \ {e.id}
           /\ UNCHANGED <<pending_ws, aborted>>
  <2>1. pending' = pending \ {e.id}
    BY <1>3, IdsAssumption DEF pending, TypeOK
  <2>2. ~Runs(e.id)
    BY <1>3, <1>h, HandleChannel DEF OrderInv, EventsAreSent, Runs
  <2>3. AbortedRan'
    BY <1>1, <1>3 DEF AbortedRan, EntryInv
  <2>4. \A x \in pending' : (Runs(x)' /\ x \notin aborted') \/ InChannel(x, "last")'
    BY <1>1, <1>3, <1>i, <2>1, EntryFields
  <2>5. QED
    BY <1>1, <1>3, <2>1, <2>2, <2>3, <2>4, EntryFields, EntryNext
<1>4. CASE e.kind = "last" /\ Cancel({e.id})
  <2>1. {e.id} \in SUBSET Ids
    BY <1>1
  <2>2. \A x, k : InChannel(x, k) /\ ~(x \in {e.id} /\ k = "last") => InChannel(x, k)'
    BY <1>4, <1>i
  <2>3. QED
    BY <1>1, <1>4, <2>1, <2>2, CancelEntry
<1>5. QED
  BY <1>2, <1>3, <1>4, <1>h DEF HandleEvent

\* A request of the cloud: an entry and its task.
LEMMA BeginEntry ==
  ASSUME TypeOK, OrderInv, EntryInv, NEW i \in Ids, task[i].at = "none",
         Moves(i, At("connecting")), pending' = pending \cup {i},
         i \in Sockets => pending_ws' = pending_ws \cup {i},
         i \notin Sockets => pending_ws' = pending_ws,
         \A w \in Sockets \ {i} : writer'[w] = writer[w],
         UNCHANGED <<events, aborted>>
  PROVE  EntryInv'
<1>1. \A x \in Ids \ {i} : task'[x] = task[x]
  BY DEF Moves, TypeOK
<1>2. task'[i].at = "connecting"
  BY DEF Moves, TypeOK, At
<1>3. \A x, k : InChannel(x, k)' <=> InChannel(x, k)
  BY DEF InChannel
<1>4. i \notin aborted
  BY DEF AbortedRan, EntryInv
<1>5. \A x \in pending' : (Runs(x)' /\ x \notin aborted') \/ InChannel(x, "last")'
  BY <1>1, <1>2, <1>3, <1>4, EntryFields DEF Runs
<1>6. \A x \in Ids : Runs(x)' => x \in pending' \cup aborted'
  BY <1>1, EntryFields DEF Runs
<1>7. \A w \in Sockets :
        writer'[w] \in {"waiting", "ready", "writing"} => w \in pending_ws' \cup aborted'
  BY EntryFields
<1>8. AbortedRan'
  BY <1>1, <1>4 DEF AbortedRan, EntryInv, TypeOK
<1>9. QED
  BY <1>5, <1>6, <1>7, <1>8, EntryNext

LEMMA StepEntry ==
  TypeOK /\ OrderInv /\ EntryInv /\ manager # "gone" /\ [Next]_vars
    => EntryInv' \/ manager' = "gone"
<1> SUFFICES ASSUME TypeOK, OrderInv, EntryInv, manager # "gone", [Next]_vars, ~UpgradePanics
             PROVE  EntryInv'
  BY DEF UpgradePanics
\* Where no task begins or ends and no entry comes or goes.
<1>1. ASSUME UNCHANGED <<tables, task, aborted, events>>,
             \A w \in Sockets : writer'[w] \in {"waiting", "ready", "writing"} =>
                               writer[w] \in {"waiting", "ready", "writing"}
      PROVE  EntryInv'
  BY <1>1 DEF EntryInv, PendingIsLive, RunningIsCancellable, AbortedRan, Runs, pending, tables
<1>2. ASSUME NEW I \in SUBSET Ids, Cancel(I), UNCHANGED <<task, writer, events>> PROVE EntryInv'
  BY <1>2, CancelEntry DEF InChannel
<1>3. ASSUME NEW r \in Requests, RequestHead(r) \/ RequestCancel(r) PROVE EntryInv'
  <2>1. r \in Ids /\ {r} \in SUBSET Ids /\ r \notin Sockets
    BY IdsAssumption DEF Ids
  <2>2. CASE RequestHead(r)
    <3>1. pending' = pending \cup {r}
      BY <2>2 DEF RequestHead, pending
    <3>2. QED
      BY <2>1, <2>2, <3>1, BeginEntry DEF RequestHead, writers
  <2>3. CASE RequestCancel(r)
    BY <1>2, <2>1, <2>3 DEF RequestCancel, writers
  <2>4. QED
    BY <1>3, <2>2, <2>3
<1>4. ASSUME NEW w \in Sockets, WsUpgrade(w) PROVE EntryInv'
  <2>1. w \in Ids /\ pending' = pending \cup {w}
    BY <1>4 DEF Ids, WsUpgrade, pending
  <2>2. \A v \in Sockets \ {w} : writer'[v] = writer[v]
    BY <1>4 DEF WsUpgrade, TypeOK
  <2>3. QED
    BY <1>4, <2>1, <2>2, BeginEntry DEF WsUpgrade
<1>5. ASSUME NEW w \in Sockets, WriterTakes(w) \/ WriterWrites(w) \/ WriterEnds(w)
      PROVE  EntryInv'
  BY <1>1, <1>5 DEF WriterTakes, WriterWrites, WriterEnds, Ends, TypeOK
<1>6. ASSUME NEW w \in Sockets, WsData(w) \/ WsClose(w) PROVE EntryInv'
  BY <1>1, <1>6 DEF WsData, WsClose, writers
<1>7. CASE WsClosed
  <2>1. {manager} \in SUBSET Ids
    BY <1>7 DEF WsClosed, Ids
  <2>2. QED
    BY <1>2, <1>7, <2>1 DEF WsClosed
<1>8. CASE DropConn
  BY <1>2, <1>8 DEF DropConn, writers
<1>9. CASE Disconnect \/ Reconnect \/ TurnsAway \/ Returns
  BY <1>1, <1>9 DEF Disconnect, Reconnect, TurnsAway, Returns, tables, writers
<1>10. CASE UNCHANGED vars
  BY <1>1, <1>10 DEF vars, writers
<1>11. CASE Next
  <2>1. ~ \E i \in Ids : SendFails(i)
    BY DEF SendFails
  <2>2. QED
    BY <2>1, <1>3, <1>4, <1>5, <1>6, <1>7, <1>8, <1>9, <1>11, NextCases, TaskEntry, HandleEntry
<1>12. QED
  BY <1>10, <1>11

\* An entry has a task that runs, or an event on its way that removes it; a
\* task that runs has an entry, or was aborted: until the manager is gone.
THEOREM EntriesCorrect == Spec => []EntriesMatchTasks
<1> DEFINE I == OrderInv /\ GoneIsSilent /\ (EntryInv \/ manager = "gone")
<1>1. Init => I
  BY InitOrder, InitEntry DEF Init, GoneIsSilent
<1>2. TypeOK /\ I /\ [Next]_vars => I'
  BY StepOrder, GoneStep, GoneStays, StepEntry
<1>3. I => EntriesMatchTasks
  BY DEF EntryInv, EntriesMatchTasks
<1> HIDE DEF I
<1>4. QED
  BY <1>1, <1>2, <1>3, TypeCorrect, PTL DEF Spec

=============================================================================
