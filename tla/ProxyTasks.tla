----------------------------- MODULE ProxyTasks -----------------------------
(***************************************************************************)
(* What the cloud manager does with requests and WebSockets of browsers    *)
(* for exposed ports (cloud/manager.rs, cloud/proxy.rs): a task fetches    *)
(* each request from the local server, a reader and a writer task serve    *)
(* each WebSocket, and all tell the manager over one bounded channel.      *)
(*                                                                         *)
(* A request and a WebSocket look alike from the manager: a first event    *)
(* (head or open), data, and a last event (end, error or close).  A task   *)
(* that was aborted stops at an await, which need not be the next one it   *)
(* reaches: one that is running may finish what it does.                   *)
(*                                                                         *)
(* The cloud and the local servers are external.  The cloud names every    *)
(* request differently.  Contents, headers and ports are left out.  Of the *)
(* manager's terminals and commands (CloudManager) there is the time they  *)
(* take, which nothing bounds: the select! of run() is biased, commands    *)
(* and terminals come before what this module is about, and no send to the *)
(* cloud has a timeout.                                                    *)
(***************************************************************************)
EXTENDS Integers, Sequences

CONSTANTS
  Requests,   \* ids of proxied HTTP requests
  Sockets,    \* ids of proxied WebSockets
  Stalling,   \* the WebSockets whose local server may stop reading
  EventCap,   \* room in the channel of proxy events
  WriterCap,  \* room in the channel of a writer
  Ops         \* optional behaviour: "EarlyData", "Disconnect"

Ids == Requests \cup Sockets

ASSUME IdsAssumption == /\ Requests \cap Sockets = {}
                        /\ Sockets \cap {"idle", "elsewhere", "gone"} = {}
ASSUME CapAssumption == EventCap \in Nat \ {0} /\ WriterCap \in Nat \ {0}

VARIABLES
  conn,              \* is there a connection to the cloud?
  manager,           \* where the manager's task is
  pending_requests, pending_ws,
  task,              \* the task of a request, or the reader of a WebSocket
  aborted,           \* the ids whose tasks were aborted
  writer, queue,     \* the writer of a WebSocket, and messages in its channel
  events,            \* the channel of proxy events
  told               \* what the cloud has heard of each id

tables  == <<pending_requests, pending_ws>>
writers == <<writer, queue>>
vars == <<conn, manager, tables, task, aborted, writers, events, told>>

pending == pending_requests \cup pending_ws

-----------------------------------------------------------------------------
At(l) == [at |-> l]

\* A task that waits for room for its event, and where it goes then.
Sending(e, l) == [at |-> "sending", event |-> e, then |-> l]

Task == {At("none"), At("connecting"), At("streaming"), At("done"),
         Sending("first", "streaming"), Sending("data", "streaming"),
         Sending("last", "done")}

Event == [id : Ids, kind : {"first", "data", "last"}]

Runs(i) == task[i].at \notin {"none", "done"}

\* The manager's task is "idle" at its select! when neither a command nor an
\* event of a terminal waits there; "elsewhere" while one does, is handled, or
\* a send takes its time; at w while it waits for room in the channel of w's
\* writer; "gone" after a panic.
Places == {"idle", "elsewhere", "gone"} \cup Sockets

-----------------------------------------------------------------------------
Init ==
  /\ conn = TRUE /\ manager = "idle"
  /\ pending_requests = {} /\ pending_ws = {}
  /\ task = [i \in Ids |-> At("none")] /\ aborted = {}
  /\ writer = [w \in Sockets |-> "none"] /\ queue = [w \in Sockets |-> 0]
  /\ events = <<>> /\ told = [i \in Ids |-> "silent"]

Moves(i, t) == task' = [task EXCEPT ![i] = t]

(* The task of a request, proxy_request_task *)

\* The local server answers, or cannot be reached.
Fetch(r) ==
  /\ task[r].at = "connecting"
  /\ Moves(r, Sending("first", "streaming")) \/ Moves(r, Sending("last", "done"))
  /\ UNCHANGED <<conn, manager, tables, aborted, writers, events, told>>

\* Mutant of Stream: after a read error the end is sent as well.
StreamGoesOn(r) ==
  /\ task[r].at = "streaming"
  /\ Moves(r, Sending("data", "streaming")) \/ Moves(r, Sending("last", "done"))
       \/ Moves(r, Sending("last", "streaming"))
  /\ UNCHANGED <<conn, manager, tables, aborted, writers, events, told>>

\* A piece of the body; or its end, or a read error.
Stream(r) ==
  /\ task[r].at = "streaming"
  /\ Moves(r, Sending("data", "streaming")) \/ Moves(r, Sending("last", "done"))
  /\ UNCHANGED <<conn, manager, tables, aborted, writers, events, told>>

(* The reader of a WebSocket, which first connects *)

Connect(w) ==
  /\ task[w].at = "connecting"
  /\ Moves(w, Sending("first", "streaming")) \/ Moves(w, Sending("last", "done"))
  /\ UNCHANGED <<conn, manager, tables, aborted, writers, events, told>>

\* Mutant of Read: nothing is sent when the stream ends without a close.
ReadEndsSilently(w) ==
  /\ task[w].at = "streaming"
  /\ Moves(w, Sending("data", "streaming")) \/ Moves(w, At("done"))
  /\ UNCHANGED <<conn, manager, tables, aborted, writers, events, told>>

\* A message; or a close frame, an error or the end of the stream.
Read(w) ==
  /\ task[w].at = "streaming"
  /\ Moves(w, Sending("data", "streaming")) \/ Moves(w, Sending("last", "done"))
  /\ UNCHANGED <<conn, manager, tables, aborted, writers, events, told>>

\* The write half goes to the writer at once after the open event.
HandsOver(i) ==
  writer' = [w \in Sockets |->
               IF w = i /\ task[i].event = "first" /\ writer[w] = "waiting"
               THEN "ready" ELSE writer[w]]

\* There is room for the event.
Send(i) ==
  /\ task[i].at = "sending" /\ manager # "gone" /\ Len(events) < EventCap
  /\ events' = Append(events, [id |-> i, kind |-> task[i].event])
  /\ Moves(i, At(task[i].then)) /\ HandsOver(i)
  /\ UNCHANGED <<conn, manager, tables, aborted, queue, told>>

\* Nobody receives it: the task of a request returns, a reader reads on.
SendFails(i) ==
  /\ task[i].at = "sending" /\ manager = "gone"
  /\ Moves(i, At(IF i \in Requests THEN "done" ELSE task[i].then)) /\ HandsOver(i)
  /\ UNCHANGED <<conn, manager, tables, aborted, queue, events, told>>

\* An aborted task stops.
Stop(i) ==
  /\ i \in aborted /\ Runs(i)
  /\ Moves(i, At("done"))
  /\ UNCHANGED <<conn, manager, tables, aborted, writers, events, told>>

(* The writer of a WebSocket *)

\* Mutant of WriterTakes: it needs a lock the manager holds while it waits.
WriterTakesWithLock(w) ==
  /\ writer[w] = "ready" /\ queue[w] > 0 /\ manager \notin Sockets
  /\ writer' = [writer EXCEPT ![w] = "writing"]
  /\ queue' = [queue EXCEPT ![w] = @ - 1]
  /\ UNCHANGED <<conn, manager, tables, task, aborted, events, told>>

WriterTakes(w) ==
  /\ writer[w] = "ready" /\ queue[w] > 0
  /\ writer' = [writer EXCEPT ![w] = "writing"]
  /\ queue' = [queue EXCEPT ![w] = @ - 1]
  /\ UNCHANGED <<conn, manager, tables, task, aborted, events, told>>

\* The end of a writer closes its channel.
Ends(w) ==
  /\ writer' = [writer EXCEPT ![w] = "done"] /\ queue' = [queue EXCEPT ![w] = 0]

\* The local server has read it, or the write fails.
WriterWrites(w) ==
  /\ writer[w] = "writing"
  /\ \/ writer' = [writer EXCEPT ![w] = "ready"] /\ UNCHANGED queue
     \/ Ends(w)
  /\ UNCHANGED <<conn, manager, tables, task, aborted, events, told>>

\* The reader is gone without a connection, the manager has dropped its end
\* of the channel, or the writer was aborted.
WriterEnds(w) ==
  /\ \/ writer[w] = "waiting" /\ ~Runs(w)
     \/ writer[w] = "ready" /\ queue[w] = 0 /\ w \notin pending_ws
     \/ w \in aborted /\ writer[w] \in {"waiting", "ready", "writing"}
  /\ Ends(w)
  /\ UNCHANGED <<conn, manager, tables, task, aborted, events, told>>

-----------------------------------------------------------------------------
(* The manager *)

\* Commands, terminals, the rest of the cloud's messages, and every send.
TurnsAway ==
  /\ manager = "idle" /\ manager' = "elsewhere"
  /\ UNCHANGED <<conn, tables, task, aborted, writers, events, told>>

Returns ==
  /\ manager = "elsewhere" /\ manager' = "idle"
  /\ UNCHANGED <<conn, tables, task, aborted, writers, events, told>>

\* Mutant of Cancel: the entry goes, its tasks go on.
CancelForgetsTasks(I) ==
  /\ pending_requests' = pending_requests \ I
  /\ pending_ws' = pending_ws \ I
  /\ UNCHANGED aborted

\* cancel_request, cancel_ws, cancel_all_requests
Cancel(I) ==
  /\ pending_requests' = pending_requests \ I
  /\ pending_ws' = pending_ws \ I
  /\ aborted' = aborted \cup (I \cap pending)

\* What the cloud makes of one more event.  What it is told of a request of
\* an earlier connection is late.
Heard(t, kind) ==
  CASE t \in {"stale", "late"}                -> "late"
    [] t = "silent" /\ kind = "first"         -> "open"
    [] t = "open"   /\ kind = "data"          -> "open"
    [] t \in {"silent", "open"} /\ kind = "last" -> "over"
    [] OTHER                                  -> "broken"

\* handle_proxy_event.  A finished request is forgotten, a finished WebSocket
\* is cancelled; the cloud is told, if it can be.
HandleEvent ==
  /\ manager = "idle" /\ events # <<>>
  /\ LET e == Head(events) IN
       /\ \/ e.kind # "last" /\ UNCHANGED <<tables, aborted>>
          \/ /\ e.kind = "last" /\ e.id \in Requests
             /\ pending_requests' = pending_requests \ {e.id}
             /\ UNCHANGED <<pending_ws, aborted>>
          \/ e.kind = "last" /\ e.id \in Sockets /\ Cancel({e.id})
       /\ told' = IF conn THEN [told EXCEPT ![e.id] = Heard(@, e.kind)] ELSE told
  /\ events' = Tail(events)
  /\ UNCHANGED <<conn, manager, task, writers>>

\* The select! is biased: messages of the cloud after proxy events.
HandlesMessage == manager = "idle" /\ conn /\ events = <<>>

RequestHead(r) ==
  /\ HandlesMessage /\ task[r].at = "none"
  /\ Moves(r, At("connecting"))
  /\ pending_requests' = pending_requests \cup {r}
  /\ UNCHANGED <<conn, manager, pending_ws, aborted, writers, events, told>>

RequestCancel(r) ==
  /\ HandlesMessage
  /\ Cancel({r})
  /\ UNCHANGED <<conn, manager, task, writers, events, told>>

WsUpgrade(w) ==
  /\ HandlesMessage /\ task[w].at = "none"
  /\ Moves(w, At("connecting"))
  /\ writer' = [writer EXCEPT ![w] = "waiting"]
  /\ pending_ws' = pending_ws \cup {w}
  /\ UNCHANGED <<conn, manager, pending_requests, aborted, queue, events, told>>

\* A path or a header that does not parse: unwrap() panics, and all the manager
\* held is dropped.  Tasks whose handles are dropped are not aborted.
UpgradePanics ==
  /\ HandlesMessage
  /\ manager' = "gone" /\ conn' = FALSE
  /\ pending_requests' = {} /\ pending_ws' = {} /\ events' = <<>>
  /\ UNCHANGED <<task, aborted, writers, told>>

\* Mutant of WsData: data is queued without a bound.
WsDataUnbounded(w) ==
  /\ HandlesMessage /\ w \in pending_ws
  /\ writer[w] # "done"
  /\ queue' = [queue EXCEPT ![w] = @ + 1]
  /\ UNCHANGED <<conn, manager, tables, task, aborted, writer, events, told>>

\* Data for a WebSocket; dropped when there is no room for it.
WsData(w) ==
  /\ HandlesMessage /\ w \in pending_ws
  /\ "EarlyData" \in Ops \/ told[w] = "open"
  /\ writer[w] # "done" /\ queue[w] < WriterCap
  /\ queue' = [queue EXCEPT ![w] = @ + 1]
  /\ UNCHANGED <<conn, manager, tables, task, aborted, writer, events, told>>

\* A close frame for a WebSocket waits for room.
WsClose(w) ==
  /\ HandlesMessage /\ w \in pending_ws
  /\ manager' = w
  /\ UNCHANGED <<conn, tables, task, aborted, writers, events, told>>

WsClosed ==
  /\ manager \in Sockets
  /\ \/ writer[manager] = "done" /\ UNCHANGED queue
     \/ /\ writer[manager] # "done" /\ queue[manager] < WriterCap
        /\ queue' = [queue EXCEPT ![manager] = @ + 1]
  /\ Cancel({manager})
  /\ manager' = "idle"
  /\ UNCHANGED <<conn, task, writer, events, told>>

\* The connection is lost: seen at the select!, or in a command.
DropConn ==
  /\ manager \in {"idle", "elsewhere"} /\ conn
  /\ conn' = FALSE
  /\ Cancel(Ids)
  /\ UNCHANGED <<manager, task, writers, events, told>>

\* The delayed disconnect, 30 seconds after the last terminal was unsynced.
Disconnect ==
  /\ "Disconnect" \in Ops /\ HandlesMessage
  /\ conn' = FALSE
  /\ UNCHANGED <<manager, tables, task, aborted, writers, events, told>>

\* ensure_connected, in some command.  The cloud has given up what it asked
\* of the last connection.
Reconnect ==
  /\ manager = "elsewhere" /\ ~conn
  /\ conn' = TRUE
  /\ told' = [i \in Ids |-> IF task[i].at = "none" THEN told[i] ELSE "stale"]
  /\ UNCHANGED <<manager, tables, task, aborted, writers, events>>

-----------------------------------------------------------------------------
TaskStep(i) == Send(i) \/ SendFails(i) \/ Stop(i)

RequestStep(r) == Fetch(r) \/ Stream(r) \/ RequestHead(r) \/ RequestCancel(r)

WriterStep(w) == WriterTakes(w) \/ WriterEnds(w)

SocketStep(w) ==
  \/ Connect(w) \/ Read(w) \/ WriterStep(w) \/ WriterWrites(w)
  \/ WsUpgrade(w) \/ WsData(w) \/ WsClose(w)

ManagerStep ==
  \/ HandleEvent \/ WsClosed \/ UpgradePanics \/ TurnsAway \/ Returns
  \/ DropConn \/ Disconnect \/ Reconnect

Next ==
  \/ \E i \in Ids : TaskStep(i)
  \/ \E r \in Requests : RequestStep(r)
  \/ \E w \in Sockets : SocketStep(w)
  \/ ManagerStep

\* Every task that can go on does.  Connecting takes five seconds at most.  The
\* manager takes the first event whenever it is idle, but need not come back
\* from elsewhere.  Of local servers nothing is assumed, but that those that do
\* not stall read what they are sent.
Fairness ==
  /\ \A i \in Ids : WF_vars(TaskStep(i))
  /\ \A w \in Sockets : WF_vars(Connect(w)) /\ WF_vars(WriterStep(w))
  /\ \A w \in Sockets \ Stalling : WF_vars(WriterWrites(w))
  /\ SF_vars(HandleEvent) /\ WF_vars(WsClosed)

Spec == Init /\ [][Next]_vars /\ Fairness

-----------------------------------------------------------------------------
(* Properties *)

\* Every variable stays in its type.
TypeOK ==
  /\ conn \in BOOLEAN /\ manager \in Places
  /\ pending_requests \subseteq Requests /\ pending_ws \subseteq Sockets
  /\ task \in [Ids -> Task] /\ aborted \subseteq Ids
  /\ writer \in [Sockets -> {"none", "waiting", "ready", "writing", "done"}]
  /\ queue \in [Sockets -> 0..WriterCap]
  /\ events \in Seq(Event) /\ Len(events) <= EventCap
  /\ told \in [Ids -> {"silent", "open", "over", "broken", "stale", "late"}]

\* "already sent WsClose, skip post-loop cleanup": the cloud hears of each
\* request a head, its body, and one end, and nothing after that, whatever is
\* cancelled or fails in between.
ToldInOrder == \A i \in Ids : told[i] # "broken"

\* "notify main loop for cleanup": an entry whose task is gone, or about to
\* go, has an event on its way that removes it.
PendingIsLive ==
  \A i \in pending :
    \/ Runs(i) /\ i \notin aborted
    \/ \E j \in DOMAIN events : events[j].id = i /\ events[j].kind = "last"

\* Every task that runs can still be cancelled, or was, or has sent its last
\* event: none is lost when its connection or its entry goes.
RunningIsCancellable ==
  /\ \A i \in Ids : Runs(i) => i \in pending \/ i \in aborted
  /\ \A w \in Sockets :
       writer[w] \in {"waiting", "ready", "writing"} => w \in pending_ws \/ w \in aborted

\* The entries and the tasks of requests and WebSockets match, through tasks
\* that end, messages that cancel, and connections that end: no entry leaks
\* and no task runs on where nobody can stop it, unless the manager panics,
\* which leaves its tasks to themselves.
EntriesMatchTasks == manager # "gone" => PendingIsLive /\ RunningIsCancellable

\* If only the manager is idle now and then, a request that ended is forgotten,
\* and both tasks of a WebSocket end when its reader does, local servers that
\* stall and connections that come and go included.
EndedIsForgotten ==
  []<>(manager = "idle") =>
    \A i \in Ids :
      task[i].at = "done" ~> i \notin pending /\ (i \in Sockets => writer[i] = "done")

\* "Best-effort close: enqueue Close frame, then force-abort tasks": the manager
\* goes on after the close of a WebSocket that was opened and whose local server
\* reads on, although it takes no events while it waits for room for the frame.
\* Of other WebSockets that is false: a local server that stops reading, or a
\* writer without its write half, keeps the manager waiting for ever.
OpenSocketCloses ==
  \A w \in Sockets :
    []<>(writer[w] # "writing") => (manager = w /\ writer[w] # "waiting" ~> manager # w)

=============================================================================
