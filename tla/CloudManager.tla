---------------------------- MODULE CloudManager ----------------------------
(***************************************************************************)
(* The cloud manager's task (cloud/manager.rs) with its WebSocket: syncs   *)
(* and exposed ports, commands of the command line, requests of the web,   *)
(* shells that exit, and a connection that may be slow, fail or be closed. *)
(*                                                                         *)
(* The task handles one thing to its end before it takes the next.  Where  *)
(* a handler waits (for the network) others run, so a request with a       *)
(* confirmation is three actions: begin, send, answer; exposes are two.    *)
(* Connecting and sending have no timeout: they may take for ever.  The    *)
(* select! of run() is biased: commands first, then readers' events, then  *)
(* messages, then the delayed disconnect.                                  *)
(*                                                                         *)
(* The cloud is external.  It handles what it is sent in order, accepts or *)
(* refuses, and sends other messages at any time: what the web asks for,   *)
(* and texts that change nothing here (of browsers that attach, and the    *)
(* proxied requests of ProxyTasks).  The manager takes any text for the    *)
(* confirmation it waits for, so SidesAgree and WithoutCrossingConfirmed   *)
(* are about connections on which that has not happened: they are false    *)
(* where it has.  Contents of terminals and URLs are left out.             *)
(***************************************************************************)
EXTENDS Integers, Sequences

CONSTANTS
  Keys,        \* references under which terminals are synced
  Ports,       \* local ports
  Clients,     \* connections, each with at most one command in progress
  Ops,         \* the commands, requests and failures that occur
  MaxFlight,   \* bound: messages of the cloud under way at once
  MaxReaders,  \* bound: readers of one terminal at once
  None         \* nobody, nothing

ASSUME NoneAssumption == None \notin Keys \cup Clients
ASSUME WebAssumption  == "web" \notin Clients
ASSUME BoundsAssumption == MaxFlight \in Nat /\ MaxReaders \in Nat \ {0}

VARIABLES
  shell,            \* the process behind a key
  client,           \* what each connection asks for and how far it is
  actor,            \* where the manager's task is
  terminals,        \* the keys the manager serves
  synced,           \* the set shared with the persister
  readers,          \* how many tasks read a terminal's PTY
  exposed_ports, pending_expose,
  disconnect_at,    \* is a delayed disconnect set?
  conn,             \* the connection, as the manager has it and as it is
  toCloud, fromCloud,           \* messages under way
  crossed,          \* history: another text was taken for a confirmation on it
  cloudTerms, cloudPorts        \* what the cloud holds of this device

terms == <<terminals, synced, readers>>
ports == <<exposed_ports, pending_expose>>
link  == <<conn, toCloud, fromCloud, crossed>>
cloud == <<cloudTerms, cloudPorts>>
vars  == <<shell, client, actor, terms, ports, disconnect_at, link, cloud>>

-----------------------------------------------------------------------------
Idle    == [at |-> "idle"]
Sending == [at |-> "sending"]

Client == [at : {"idle"}]
            \cup [at : {"queued"}, op : {"sync", "unsync"}, id : Keys]
            \cup [at : {"queued"}, op : {"expose", "unexpose"}, port : Ports]
            \cup [at : {"served"}]
            \cup [at : {"exposing"}, port : Ports]

Actor == [at : {"idle", "sending"}]
           \cup [at : {"send", "await"}, op : {"sync", "unsync"}, id : Keys,
                 client : Clients \cup {"web"}]
           \cup [at : {"send"}, op : {"expose", "unexpose"}, port : Ports,
                 client : Clients]

ToCloud == [type : {"sync", "unsync", "exited"}, id : Keys]
             \cup [type : {"status"}, terms : SUBSET Keys, ports : SUBSET Ports]
             \cup [type : {"expose", "unexpose"}, port : Ports]
             \cup [type : {"ping"}]

FromCloud == [type : {"ok", "error"}, op : {"sync", "unsync"}, id : Keys]
               \cup [type : {"web_create", "web_kill"}, id : Keys]
               \cup [type : {"expose.ok", "expose.error"}, port : Ports]
               \cup [type : {"other", "nontext"}]

\* Bound: nothing is sent while MaxFlight messages are under way, except by
\* syncs, which wait for their confirmation, and exits.
Room == Len(toCloud) + Len(fromCloud) < MaxFlight

NoCommand == \A c \in Clients : client[c].at # "queued"

\* The manager polls its channels, and no command is waiting there.
Polls == actor = Idle /\ NoCommand

-----------------------------------------------------------------------------
(* The connection. *)

DropConn == conn' = "none" /\ toCloud' = <<>> /\ fromCloud' = <<>> /\ crossed' = FALSE

DeviceStatus == [type |-> "status", terms |-> terminals, ports |-> exposed_ports]

\* ws_send_text to a peer that is gone: the bytes may still be accepted.
Put(m) == toCloud' = IF conn = "up" THEN Append(toCloud, m) ELSE toCloud

\* Mutant of Transmit: a new connection begins without the device's status.
TransmitNoStatus(m) ==
  \/ /\ conn = "none" /\ conn' = "up"
     /\ toCloud' = <<m>> /\ fromCloud' = <<>> /\ UNCHANGED crossed
  \/ conn # "none" /\ Put(m) /\ UNCHANGED <<conn, fromCloud, crossed>>

\* ensure_connected, which begins a new connection with the device's status,
\* and one message sent.
Transmit(m) ==
  \/ /\ conn = "none" /\ conn' = "up"
     /\ toCloud' = <<DeviceStatus, m>> /\ fromCloud' = <<>> /\ UNCHANGED crossed
  \/ conn # "none" /\ Put(m) /\ UNCHANGED <<conn, fromCloud, crossed>>

CannotConnect == conn = "none" /\ UNCHANGED link
CannotSend    == conn = "broken"

-----------------------------------------------------------------------------
Init ==
  /\ shell = [k \in Keys |-> "unused"]
  /\ client = [c \in Clients |-> Idle] /\ actor = Idle
  /\ terminals = {} /\ synced = {} /\ readers = [k \in Keys |-> 0]
  /\ exposed_ports = {} /\ pending_expose = [p \in Ports |-> None]
  /\ disconnect_at = FALSE
  /\ conn = "none" /\ toCloud = <<>> /\ fromCloud = <<>> /\ crossed = FALSE
  /\ cloudTerms = {} /\ cloudPorts = {}

(* Shells start and end outside the manager. *)

ShellStarts(k) ==
  /\ shell[k] = "unused"
  /\ shell' = [shell EXCEPT ![k] = "running"]
  /\ UNCHANGED <<client, actor, terms, ports, disconnect_at, link, cloud>>

ShellEnds(k) ==
  /\ shell[k] = "running"
  /\ shell' = [shell EXCEPT ![k] = "ended"]
  /\ UNCHANGED <<client, actor, terms, ports, disconnect_at, link, cloud>>

(* A command enters the manager's channel. *)

\* TerminalSync only for a terminal that is there.
CommandTerminal(c, op, k) ==
  /\ op \in Ops /\ client[c] = Idle
  /\ op = "sync" => shell[k] # "unused" /\ readers[k] < MaxReaders
  /\ client' = [client EXCEPT ![c] = [at |-> "queued", op |-> op, id |-> k]]
  /\ UNCHANGED <<shell, actor, terms, ports, disconnect_at, link, cloud>>

CommandPort(c, op, p) ==
  /\ op \in Ops /\ client[c] = Idle /\ Room
  /\ client' = [client EXCEPT ![c] = [at |-> "queued", op |-> op, port |-> p]]
  /\ UNCHANGED <<shell, actor, terms, ports, disconnect_at, link, cloud>>

Takes(c, op) == actor = Idle /\ client[c].at = "queued" /\ client[c].op = op
Answered(c)  == client' = [client EXCEPT ![c] = Idle]
Served(c)    == client' = [client EXCEPT ![c] = [at |-> "served"]]

-----------------------------------------------------------------------------
(* handle_sync and handle_unsync                                           *)

\* Mutant of BeginSync: the delayed disconnect stays set.
BeginSyncKeepsTimer(k, who) ==
  /\ synced' = synced \cup {k}
  /\ actor' = [at |-> "send", op |-> "sync", id |-> k, client |-> who]
  /\ UNCHANGED <<terminals, readers, disconnect_at>>

BeginSync(k, who) ==
  /\ disconnect_at' = FALSE
  /\ synced' = synced \cup {k}
  /\ actor' = [at |-> "send", op |-> "sync", id |-> k, client |-> who]
  /\ UNCHANGED <<terminals, readers>>

BeginUnsync(k, who) ==
  /\ actor' = [at |-> "send", op |-> "unsync", id |-> k, client |-> who]
  /\ UNCHANGED <<terms, disconnect_at>>

\* A terminal the manager no longer serves.  Aborting its reader, a blocking
\* task, does not stop it.
Release(k) ==
  /\ terminals' = terminals \ {k} /\ synced' = synced \ {k}
  /\ disconnect_at' = (disconnect_at \/ terminals \subseteq {k})

TakeSync(c) ==
  /\ Takes(c, "sync")
  /\ \/ "NoCredential" \in Ops /\ Answered(c) /\ UNCHANGED <<actor, terms, disconnect_at>>
     \/ BeginSync(client[c].id, c) /\ Served(c)
  /\ UNCHANGED <<shell, ports, link, cloud>>

TakeUnsync(c) ==
  /\ Takes(c, "unsync")
  /\ \/ /\ client[c].id \notin terminals \/ "NoCredential" \in Ops
        /\ Answered(c) /\ UNCHANGED <<actor, terms, disconnect_at>>
     \/ client[c].id \in terminals /\ BeginUnsync(client[c].id, c) /\ Served(c)
  /\ UNCHANGED <<shell, ports, link, cloud>>

\* Whoever asked is answered; a kill from the web goes on to kill the shell.
Reply ==
  IF actor.client = "web"
  THEN /\ UNCHANGED client
       /\ shell' = IF actor.op = "unsync" THEN [shell EXCEPT ![actor.id] = "ended"] ELSE shell
  ELSE Answered(actor.client) /\ UNCHANGED shell

Succeed ==
  /\ \/ /\ actor.op = "sync"
        /\ terminals' = terminals \cup {actor.id}
        /\ readers' = [readers EXCEPT ![actor.id] = @ + 1]
        /\ UNCHANGED <<synced, disconnect_at>>
     \/ actor.op = "unsync" /\ Release(actor.id) /\ UNCHANGED readers
  /\ Reply /\ actor' = Idle

\* Mutant of Fail: the key of a refused sync stays in the synced set.
FailKeepsKey ==
  /\ UNCHANGED <<terms, disconnect_at>>
  /\ Reply /\ actor' = Idle

Fail ==
  /\ synced' = IF actor.op = "sync" THEN synced \ {actor.id} ELSE synced
  /\ UNCHANGED <<terminals, readers, disconnect_at>>
  /\ Reply /\ actor' = Idle

\* The first half of send_and_confirm.
SendRequest ==
  /\ actor.at = "send" /\ actor.op \in {"sync", "unsync"}
  /\ \/ /\ Transmit([type |-> actor.op, id |-> actor.id])
        /\ actor' = [actor EXCEPT !.at = "await"]
        /\ UNCHANGED <<shell, client, terms, disconnect_at>>
     \/ CannotConnect /\ Fail
     \/ CannotSend /\ DropConn /\ Fail
  /\ UNCHANGED <<ports, cloud>>

IsText(m)   == m.type # "nontext"
IsError(m)  == m.type = "error"
Confirms(m) == m.type \in {"ok", "error"}

\* ws_recv_text: the next message, whatever it is about, is the confirmation;
\* one that is no text ends the connection.
ReceiveConfirmation ==
  /\ actor.at = "await" /\ fromCloud # <<>>
  /\ LET m == Head(fromCloud) IN
       \/ /\ IsText(m) /\ ~IsError(m) /\ Succeed
          /\ fromCloud' = Tail(fromCloud) /\ UNCHANGED <<conn, toCloud>>
          /\ crossed' = (crossed \/ ~Confirms(m))
       \/ /\ IsError(m) /\ Fail
          /\ fromCloud' = Tail(fromCloud) /\ UNCHANGED <<conn, toCloud, crossed>>
       \/ ~IsText(m) /\ Fail /\ DropConn
  /\ UNCHANGED <<ports, cloud>>

\* Mutant of ConfirmationTimeout: the connection is kept.
ConfirmationTimeoutKeepsConn ==
  /\ actor.at = "await" /\ fromCloud = <<>>
  /\ Fail
  /\ UNCHANGED <<ports, link, cloud>>

\* Mutant of ConfirmationTimeout: only the end of the connection is noticed.
ConfirmationNeverTimesOut ==
  /\ actor.at = "await" /\ fromCloud = <<>> /\ conn = "broken"
  /\ Fail /\ DropConn
  /\ UNCHANGED <<ports, cloud>>

\* Ten seconds have passed, or the connection has ended.
ConfirmationTimeout ==
  /\ actor.at = "await" /\ fromCloud = <<>>
  /\ Fail /\ DropConn
  /\ UNCHANGED <<ports, cloud>>

-----------------------------------------------------------------------------
(* handle_proxy_expose and handle_proxy_unexpose                           *)

\* A reply channel that is overwritten or sent on frees the connection that
\* waits on it, with an error or an answer.
Freed(C) == client' = [c \in Clients |-> IF c \in C THEN Idle ELSE client[c]]

\* What is asked of the cloud for a port waits for the connection first.
BeginPort(c) ==
  /\ actor' = [at |-> "send", op |-> client[c].op, port |-> client[c].port, client |-> c]
  /\ Served(c)

TakeExpose(c) ==
  /\ Takes(c, "expose")
  /\ \/ "NoCredential" \in Ops /\ Answered(c) /\ UNCHANGED actor
     \/ BeginPort(c)
  /\ UNCHANGED <<shell, terms, ports, disconnect_at, link, cloud>>

TakeUnexpose(c) ==
  /\ Takes(c, "unexpose")
  /\ \/ /\ client[c].port \notin exposed_ports \/ "NoCredential" \in Ops
        /\ Answered(c) /\ UNCHANGED actor
     \/ client[c].port \in exposed_ports /\ BeginPort(c)
  /\ UNCHANGED <<shell, terms, ports, disconnect_at, link, cloud>>

SendExpose ==
  /\ actor.at = "send" /\ actor.op = "expose"
  /\ LET p == actor.port
         c == actor.client IN
       \/ CannotConnect /\ Answered(c) /\ UNCHANGED ports
       \/ /\ Transmit([type |-> "expose", port |-> p])
          /\ exposed_ports' = exposed_ports \cup {p}
          /\ pending_expose' = [pending_expose EXCEPT ![p] = c]
          /\ client' = [d \in Clients |->
                          IF d = c THEN [at |-> "exposing", port |-> p]
                          ELSE IF d = pending_expose[p] THEN Idle ELSE client[d]]
       \/ /\ CannotSend /\ DropConn
          /\ exposed_ports' = exposed_ports \ {p}
          /\ pending_expose' = [pending_expose EXCEPT ![p] = None]
          /\ Freed({c, pending_expose[p]})
  /\ actor' = Idle
  /\ UNCHANGED <<shell, terms, disconnect_at, cloud>>

\* A send that fails leaves the connection and the port as they are.
SendUnexpose ==
  /\ actor.at = "send" /\ actor.op = "unexpose"
  /\ LET p == actor.port IN
       \/ (CannotConnect \/ CannotSend) /\ UNCHANGED <<exposed_ports, link>>
       \/ /\ Transmit([type |-> "unexpose", port |-> p])
          /\ exposed_ports' = exposed_ports \ {p}
  /\ Answered(actor.client) /\ actor' = Idle
  /\ UNCHANGED <<shell, terms, pending_expose, disconnect_at, cloud>>

\* Mutant of ExposeAnswer: the answer does not end the wait.
ExposeAnswerKeepsSlot(m) ==
  /\ exposed_ports' = IF m.type = "expose.ok" THEN exposed_ports ELSE exposed_ports \ {m.port}
  /\ Freed({pending_expose[m.port]})
  /\ UNCHANGED <<shell, actor, terms, pending_expose, disconnect_at>>

ExposeAnswer(m) ==
  /\ exposed_ports' = IF m.type = "expose.ok" THEN exposed_ports ELSE exposed_ports \ {m.port}
  /\ pending_expose' = [pending_expose EXCEPT ![m.port] = None]
  /\ Freed({pending_expose[m.port]})
  /\ UNCHANGED <<shell, actor, terms, disconnect_at>>

-----------------------------------------------------------------------------
(* Events of the readers, messages of the cloud, and the timers.           *)

\* Mutant of TerminalExited: the exit counts only while there is a connection.
TerminalExitedIfConnected(k) ==
  /\ Polls /\ readers[k] > 0 /\ shell[k] = "ended"
  /\ readers' = [readers EXCEPT ![k] = @ - 1]
  /\ \/ /\ k \notin terminals \/ conn = "none"
        /\ UNCHANGED <<terminals, synced, disconnect_at, toCloud>>
     \/ /\ k \in terminals /\ conn # "none"
        /\ Release(k) /\ Put([type |-> "exited", id |-> k])
  /\ UNCHANGED <<shell, client, actor, ports, conn, fromCloud, crossed, cloud>>

\* Mutant of TerminalExited: one end is reported again and again.
TerminalExitedAgain(k) ==
  /\ Polls /\ shell[k] = "ended" /\ readers[k] >= 0
  /\ readers' = [readers EXCEPT ![k] = @ - 1]
  /\ \/ k \notin terminals /\ UNCHANGED <<terminals, synced, disconnect_at, toCloud>>
     \/ k \in terminals /\ Release(k) /\ Put([type |-> "exited", id |-> k])
  /\ UNCHANGED <<shell, client, actor, ports, conn, fromCloud, crossed, cloud>>

\* A reader found the end of its PTY.
TerminalExited(k) ==
  /\ Polls /\ readers[k] > 0 /\ shell[k] = "ended"
  /\ readers' = [readers EXCEPT ![k] = @ - 1]
  /\ \/ k \notin terminals /\ UNCHANGED <<terminals, synced, disconnect_at, toCloud>>
     \/ k \in terminals /\ Release(k) /\ Put([type |-> "exited", id |-> k])
  /\ UNCHANGED <<shell, client, actor, ports, conn, fromCloud, crossed, cloud>>

WebCreate(k) ==
  /\ shell[k] = "unused"
  /\ shell' = [shell EXCEPT ![k] = "running"]
  /\ \/ UNCHANGED <<actor, terms, disconnect_at>>   \* no PTY reader, no credential
     \/ BeginSync(k, "web")
  /\ UNCHANGED <<client, ports>>

WebKill(k) ==
  /\ \/ k \in terminals /\ BeginUnsync(k, "web") /\ UNCHANGED shell
     \/ /\ k \notin terminals \/ "NoCredential" \in Ops
        /\ shell' = [shell EXCEPT ![k] = "ended"]
        /\ UNCHANGED <<actor, terms, disconnect_at>>
  /\ UNCHANGED <<client, ports>>

\* handle_ws_message.  A confirmation nobody waits for is ignored, and so is
\* what is no text.  A create finds a fresh key or fails.
Message ==
  /\ Polls /\ conn # "none" /\ fromCloud # <<>>
  /\ LET m == Head(fromCloud) IN
       \/ m.type = "web_create" /\ WebCreate(m.id)
       \/ m.type = "web_kill" /\ WebKill(m.id)
       \/ m.type \in {"expose.ok", "expose.error"} /\ ExposeAnswer(m)
       \/ /\ m.type \in {"ok", "error", "other", "nontext", "web_create"}
          /\ UNCHANGED <<shell, client, actor, terms, ports, disconnect_at>>
  /\ fromCloud' = Tail(fromCloud)
  /\ UNCHANGED <<conn, toCloud, crossed, cloud>>

\* The end of the stream.  Exposes that wait for an answer go on waiting.
ConnLost ==
  /\ Polls /\ conn = "broken" /\ fromCloud = <<>>
  /\ DropConn
  /\ UNCHANGED <<shell, client, actor, terms, ports, disconnect_at, cloud>>

\* Thirty seconds after the last synced terminal went.  Closing takes a send.
Disconnect ==
  /\ Polls /\ conn # "none" /\ disconnect_at
  /\ DropConn /\ disconnect_at' = FALSE
  /\ actor' = Sending
  /\ UNCHANGED <<shell, client, terms, ports, cloud>>

Heartbeat ==
  /\ "Heartbeat" \in Ops /\ Polls
  /\ \/ /\ conn = "up" /\ Room
        /\ Put([type |-> "ping"]) /\ UNCHANGED <<conn, fromCloud, crossed>>
     \/ conn = "broken" /\ DropConn
  /\ UNCHANGED <<shell, client, actor, terms, ports, disconnect_at, cloud>>

\* A handler that ends with a send waits for it, as long as it takes: the
\* notices above, and output, screens and proxied answers, which change
\* nothing here.  Nothing else is done meanwhile.
SlowSend ==
  /\ Polls /\ conn # "none"
  /\ actor' = Sending
  /\ UNCHANGED <<shell, client, terms, ports, disconnect_at, link, cloud>>

SendEnds ==
  /\ actor = Sending
  /\ actor' = Idle
  /\ UNCHANGED <<shell, client, terms, ports, disconnect_at, link, cloud>>

-----------------------------------------------------------------------------
(* The cloud (external).                                                   *)

Sends(m) == fromCloud' = Append(fromCloud, m)

CloudTakes(m) ==
  \/ /\ m.type = "status"
     /\ cloudTerms' = m.terms /\ cloudPorts' = m.ports
     /\ UNCHANGED fromCloud
  \/ /\ m.type \in {"sync", "unsync"}
     /\ \/ /\ cloudTerms' = IF m.type = "sync" THEN cloudTerms \cup {m.id}
                                               ELSE cloudTerms \ {m.id}
           /\ Sends([type |-> "ok", op |-> m.type, id |-> m.id])
        \/ UNCHANGED cloudTerms /\ Sends([type |-> "error", op |-> m.type, id |-> m.id])
     /\ UNCHANGED cloudPorts
  \/ /\ m.type = "exited"
     /\ cloudTerms' = cloudTerms \ {m.id}
     /\ UNCHANGED <<cloudPorts, fromCloud>>
  \/ /\ m.type = "expose"
     /\ \/ /\ cloudPorts' = cloudPorts \cup {m.port}
           /\ Sends([type |-> "expose.ok", port |-> m.port])
        \/ /\ cloudPorts' = cloudPorts \ {m.port}
           /\ Sends([type |-> "expose.error", port |-> m.port])
     /\ UNCHANGED cloudTerms
  \/ /\ m.type = "unexpose"
     /\ cloudPorts' = cloudPorts \ {m.port}
     /\ UNCHANGED <<cloudTerms, fromCloud>>
  \/ m.type = "ping" /\ Sends([type |-> "nontext"]) /\ UNCHANGED cloud

CloudStep ==
  /\ conn = "up" /\ toCloud # <<>>
  /\ CloudTakes(Head(toCloud))
  /\ toCloud' = Tail(toCloud)
  /\ UNCHANGED <<shell, client, actor, terms, ports, disconnect_at, conn, crossed>>

\* A browser creates a terminal, or kills one it is shown.
WebRequest(op, k) ==
  /\ op \in Ops /\ conn = "up" /\ Room
  /\ op = "web_kill" => k \in cloudTerms
  /\ Sends([type |-> op, id |-> k])
  /\ UNCHANGED <<shell, client, actor, terms, ports, disconnect_at, conn, toCloud, crossed, cloud>>

\* What browsers do with terminals and exposed ports: texts, and bytes.
WebTraffic(t) ==
  /\ "web_traffic" \in Ops /\ conn = "up" /\ Room
  /\ Sends([type |-> t])
  /\ UNCHANGED <<shell, client, actor, terms, ports, disconnect_at, conn, toCloud, crossed, cloud>>

\* The connection fails: what was on its way to the cloud is lost.
ConnFails ==
  /\ "ConnFails" \in Ops /\ conn = "up"
  /\ conn' = "broken" /\ toCloud' = <<>>
  /\ UNCHANGED <<shell, client, actor, terms, ports, disconnect_at, fromCloud, crossed, cloud>>

-----------------------------------------------------------------------------
ClientStep(c) ==
  \/ \E k \in Keys : CommandTerminal(c, "sync", k) \/ CommandTerminal(c, "unsync", k)
  \/ \E p \in Ports : CommandPort(c, "expose", p) \/ CommandPort(c, "unexpose", p)

Take(c) == TakeSync(c) \/ TakeUnsync(c) \/ TakeExpose(c) \/ TakeUnexpose(c)

Confirmation == ReceiveConfirmation \/ ConfirmationTimeout

Next ==
  \/ \E c \in Clients : ClientStep(c) \/ Take(c)
  \/ SendRequest \/ Confirmation
  \/ SendExpose \/ SendUnexpose \/ SlowSend \/ SendEnds
  \/ \E k \in Keys : TerminalExited(k) \/ ShellStarts(k) \/ ShellEnds(k)
  \/ Message \/ ConnLost \/ Disconnect \/ Heartbeat
  \/ CloudStep \/ ConnFails
  \/ \E k \in Keys : WebRequest("web_create", k) \/ WebRequest("web_kill", k)
  \/ WebTraffic("other") \/ WebTraffic("nontext")

\* The task runs whenever it can.  A confirmation comes or ten seconds pass;
\* the channel of commands is first come first served, before all else.  What
\* waits for the network without a timeout (connecting, authenticating and
\* every send) need not end: SendRequest, SendExpose, SendUnexpose and SendEnds
\* are not fair.
Fairness ==
  /\ \A c \in Clients : SF_vars(Take(c))
  /\ WF_vars(Confirmation)
  /\ \A k \in Keys : SF_vars(TerminalExited(k))

Spec == Init /\ [][Next]_vars /\ Fairness

-----------------------------------------------------------------------------
(* Properties *)

\* Every variable stays in its type.
TypeOK ==
  /\ shell \in [Keys -> {"unused", "running", "ended"}]
  /\ client \in [Clients -> Client] /\ actor \in Actor
  /\ terminals \subseteq Keys /\ synced \subseteq Keys
  /\ readers \in [Keys -> Nat]
  /\ exposed_ports \subseteq Ports /\ pending_expose \in [Ports -> Clients \cup {None}]
  /\ disconnect_at \in BOOLEAN
  /\ conn \in {"none", "up", "broken"}
  /\ toCloud \in Seq(ToCloud) /\ fromCloud \in Seq(FromCloud) /\ crossed \in BOOLEAN
  /\ cloudTerms \subseteq Keys /\ cloudPorts \subseteq Ports

\* "Send device.status on (re)connect for full sync": when nothing is under
\* way on a connection, the cloud holds exactly the terminals the manager
\* serves, whatever was refused, timed out, exited or was lost before; unless
\* on this connection a text about something else was taken for a confirmation.
SidesAgree ==
  actor = Idle /\ conn = "up" /\ toCloud = <<>> /\ fromCloud = <<>> /\ ~crossed
    => cloudTerms = terminals

\* The sync or unsync the task is at.
At(op) == actor.at \in {"send", "await"} /\ actor.op = op

\* A delayed disconnect never cuts off a synced terminal, or one whose sync
\* is in progress ("Cancel pending delayed disconnect").
TimerIsIdle == disconnect_at => terminals = {} /\ ~At("sync")

\* Every terminal the manager serves has a reader left that will report its
\* end, through repeated syncs, unsyncs and readers that outlive them.
ServedIsRead == \A k \in terminals : readers[k] > 0

\* A connection that waits for an expose is the one the next answer for that
\* port goes to, however many connections expose the port.
ExposeIsPending ==
  /\ \A c \in Clients, p \in Ports :
       client[c].at = "exposing" /\ client[c].port = p <=> pending_expose[p] = c
  /\ \A c \in Clients :
       client[c].at = "served" <=> actor.at \in {"send", "await"} /\ actor.client = c

\* "Wait for response (terminal.sync.ok, or error)" (send_and_confirm): on a
\* connection on which every text taken for a response was one, the manager
\* begins to serve only what the cloud has accepted, through refusals, late
\* answers and connections that fail.  The premise is the code's fault: any text
\* but an error is taken for the response, and the formula is false without it.
WithoutCrossingConfirmed == [][~crossed' => terminals' \ terminals \subseteq cloudTerms]_vars

\* A command is answered, or its expose waits for the cloud, if only connecting
\* and sending end: the cloud may be silent in between for as long as it likes.
CommandsAnswered ==
  []<>(actor.at \notin {"send", "sending"})
    => \A c \in Clients : client[c].at \in {"queued", "served"}
                            ~> client[c].at \in {"idle", "exposing"}

\* A synced terminal whose shell has ended is unsynced, connected or not, if
\* only the manager finds its channel of commands empty now and then.
EndedIsUnsynced ==
  []<>Polls => \A k \in Keys : shell[k] = "ended" /\ k \in terminals ~> k \notin terminals

\* What SessionServer relies on.
Abstract == INSTANCE SyncedTerminals WITH
  held <- terminals, alive <- TRUE,
  pending <- IF At("sync") THEN actor.id ELSE None

ImplementsSyncs == Abstract!Spec

=============================================================================
