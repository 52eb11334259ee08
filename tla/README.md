# A verification of the kexsh server

kexsh keeps shells alive in a background server.  Clients on a Unix socket
create terminals, arrange them in views, attach to them, and sync them to a
cloud service, from where a browser can use them and reach local ports.  The
code is `src/src/` (Rust, tokio); this directory holds TLA+ models of it, TLC
configurations that check them on small instances, and proofs for all instances.

## 1. Inventory

### Components

| Component | State | Operations | Code |
|---|---|---|---|
| Terminal registry | id -> (name, PTY) | create, kill, get, list; a reference is an id or a name | `terminal/manager.rs` |
| View registry | id -> (name, terminals, layout, focus) | create, delete, update_layout, add/remove terminal, remove_terminal from all | `view/manager.rs` |
| Request handlers | one task per connection | 18 requests; a mutation ends with `persister.notify()` | `server/mod.rs` |
| Mux session, server side | writers, resizers and readers of attached terminals | create, add, remove, kill, update layout; frames in and out | `server/mod.rs` |
| Mux client | the slot for a control response | send_frame, send_control (one at a time, with a timeout), recv_frame | `ipc/mux.rs`, `ipc/codec.rs` |
| Persister | one stored permit; the state.json file | wait, sleep 500 ms, lock three tables, copy, write | `server/state.rs` |
| Life cycle | listening socket, pid file | start, stop (request or signal), shutdown | `server/mod.rs`, `server/pid.rs` |
| Cloud sync | synced terminals, WebSocket, delayed disconnect | sync, unsync, exit of a shell, web create/kill/attach | `cloud/manager.rs` |
| Port exposure, HTTP proxy | exposed ports, pending exposes, pending requests | expose, unexpose, request head, cancel | `cloud/manager.rs`, `cloud/proxy.rs` |
| WebSocket proxy | two tasks per upgraded request | upgrade, data, close | `cloud/manager.rs`, `cloud/proxy.rs` |
| PTY | master, child, duplicated readers | spawn, read, write, resize, kill | `terminal/pty.rs` |
| Attached client | panes, focus, current view | split, close, resize, switch view, sync layout | `terminal/attach.rs`, `tui/input.rs` |
| Pane layout | a binary tree of splits | split, close, resize, navigate, compute rectangles | `tui/layout.rs` |
| Rendering, emulation, configuration, login, command line | - | - | `tui/`, `config.rs`, `credential.rs`, `cloud/login.rs`, `main.rs` |

### How they interact

The server process has one accept loop, a task per connection, one persister
task and one cloud manager task.  They share three tables (terminals, views,
the synced set), each behind a tokio `Mutex`.  Handlers tell the persister with
`Notify::notify_one`, which stores at most one permit, and talk to the cloud
manager over a bounded channel with a reply channel in each command.  The cloud
manager handles one command, event or message to its end before it takes the
next; while it waits for the cloud it serves nobody.  Readers of PTYs and
proxied requests run as tasks of their own and send events to it.

### What is hard here

- *Interleaving*: a handler that works on both tables takes two locks, one
  after the other; some release the first before the second (mux kill, view
  create, view add), one keeps it (`TerminalKill`).
- *References*: clients name a terminal or a view by id or by name; only some
  operations resolve the text, the others compare it as it is.
- *Write-behind*: state.json follows the tables after a debounce, and a write
  can fail or be cut short by a crash.
- *A remote peer*: the synced set changes before the cloud has confirmed.
- *Clients in the middle of something*: a split or a close is several requests
  on two connections, and others kill, list and store in between.
- *Stopping*: handlers, persister and cloud manager keep running while
  `shutdown` sleeps and kills.

- *Answers without numbers*: a client takes what comes next for the answer to
  its request, and gives up after five seconds.
- *Blocking threads*: readers of terminals cannot be aborted once they run, and
  several read one terminal.
- *Files without locks*: servers that start, stop and die share a socket and a
  pid file.

`PROJECT.json` lists each of these at its line under "hazards", with the reason
where no property covers it.

### What makes each component correct

- registries: ids unique; views list terminals that exist, or the reason they
  do not is known;
- handlers: no lock cycle; a request that begins ends; changes are announced;
- persister: snapshots show whole operations; no announced change is lost or
  put off for ever;
- life cycle: what was synced survives a stop and a start; one server at a time;
- cloud sync: the synced set, the manager's terminals and the cloud agree;
- mux client: an answer goes to the request it answers;
- proxy: each proxied request ends once; nobody waits for an answer that cannot
  come; no cycle of full channels;
- PTY readers: output reaches the session attached to it;
- pane layout: panes partition the window; every pane can be reached and
  resized with the keys;
- attached client: no terminal has two panes; client and connection agree on
  what is attached; a view restores what was stored for it.

## 2. Plan

Done:

1. `Registry`, `SessionServer`: tables, handlers, persister, life cycle, and
   the accesses of the cloud manager to the tables.
2. `CloudManager`: the manager with its WebSocket: confirmations taken from the
   stream of messages, exposed ports, reconnection with `device.status`,
   delayed disconnect.  `SyncedTerminals`: the abstract specification of syncs,
   which both `SessionServer` and `CloudManager` implement.
3. `ProxyTasks`: proxied requests and WebSockets, their tasks, their bounded
   channels, cancellation.
4. `PaneLayout`, `AttachedClient`: the tree of panes as operators, and clients
   that change it, store it with views and restore it.
5. `MuxSession`: the connection of an attached client, with its one slot for an
   answer, its timeout, and output that stands in the way.  `MuxCalls`: the
   abstract specification, calls that end and answers that are given once each.
6. `PtyReaders`: sessions that read one terminal, and readers that outlive
   their abort and their session.
7. `ServerLifecycle`: pid file and socket with several server processes.

Theorems, in the order of section 5: the invariants of every module, the
refinements, and the geometry of panes for trees of any shape.

Compositions that were considered and left: `AttachedClient` over `MuxSession`,
whose product multiplies every pane by every frame, and whose new behaviour (a
client that goes on after a lost answer with panes that are not those of its
connection) follows from `OwnAnswers`' exception; `CloudManager` with `ProxyTasks` over one connection,
which share only that the connection begins and ends.

## 3. Modules

### Registry

The operators of the two managers on tables, which are functions whose domain
is the set of ids in use.  A terminal is its name; a view is a record of name,
listed terminals, layout and focus.  What matters is kept: texts in views are
never resolved, `resolve_id` prefers an id and may pick any terminal of a name,
`update_layout` and `remove_terminal_from_view` take an id only.  The order of a
view's list and creation times are display and are left out; so is the PTY.

### SessionServer

| Variable | Code |
|---|---|
| `terminals`, `views`, `synced` | the contents of the three `Arc<Mutex<..>>` |
| `mgrLock`, `vmgrLock` | the first two mutexes; the synced set's is never held across an await |
| `task[c]` | where the handler of connection (or mux session) `c` is |
| `cloud`, `actor` | the keys of `CloudManager.terminals`; where the manager's task is |
| `trigger`, `persister`, `debounce`, `image` | the Notify's permit, the persister task, its sleep, its snapshot |
| `disk` | what `ServerState::load` would return as synced terminals |
| `server`, `grace` | life cycle, and the sleep in `shutdown` |

Three history variables record facts no code variable holds: `saved` (whether
the last announced change is in memory only, in the snapshot, or in the file),
`unswept` (references a kill did not take out of the views) and `restored` (the
synced set the server began with).

A handler is cut into actions where it awaits while another task can see the
difference: `TerminalKill` takes the terminal lock and keeps it, `KillViews`
takes the view lock, sweeps, and releases both; `MuxKill` / `MuxKillViews` release
in between; `ViewCreate` / `ViewInsert` and `ViewAddTerminal` / `ViewAdd` check
under one lock and change under the other; a sync goes through `TerminalSync`,
`ActorTakeSync`, `SyncInsert`, `SyncConfirm`.  Every mutating request ends with
`Notify`, which the code also runs after an error.  The persister is six
actions, the write is two (`fs::write` truncates first), and `Crash` may come
between any two actions.  `Restart` is `Server::start`: load the synced set,
delete the file.

The cloud is not modelled: where the manager talks to it, both outcomes are
possible.  Lists, shows and attaches change no table and are left out.

### CloudManager

| Variable | Code |
|---|---|
| `terminals`, `synced`, `disconnect_at` | the manager's fields of these names, the set shared with the persister |
| `readers` | for each key, the blocking tasks `spawn_pty_reader` started that have not ended |
| `exposed_ports`, `pending_expose` | `ProxyState.exposed_ports`, and whose reply channel waits for the port |
| `conn`, `toCloud`, `fromCloud` | `ws_read` and `ws_write`; what is on its way |
| `crossed` | history: on this connection another text was taken for a confirmation |
| `actor`, `client` | where the manager's task is; what each connection asked for |
| `shell` | the process behind a key |
| `cloudTerms`, `cloudPorts` | what the cloud service holds of this device (external) |

The manager's task runs one handler at a time, but a handler that waits for the
network lets everything else go on, so a sync or unsync is three actions: it
begins (`TakeSync`, `TakeUnsync`, or a request of the web), it connects and
sends (`SendRequest`), it takes the next text for its answer or gives up
(`ReceiveConfirmation`, `ConfirmationTimeout`).  An expose or unexpose is two
(`TakeExpose`, `SendExpose`).  Connecting, authenticating and sending have no
timeout in the code, so these sends may take for ever here; those that end a
handler, and those of output and proxied answers, are `SlowSend` (or the end of
`Disconnect`) and `SendEnds`.  The `select!` of `run` is biased, so all but
commands need an empty channel of commands (`Polls`).  A connection can be
"broken": sends are accepted or fail, what was on its way to the cloud is lost,
what had come can still be read.  The cloud is external: it handles what it gets
in order, accepts or refuses, relays creates and kills of browsers, kills only of
terminals it knows, and sends texts and bytes that browsers cause
(`WebTraffic`), which `handle_ws_text` treats without a change to what is modelled here
but which come on the connection on which a confirmation is awaited.  Left out:
what terminals show, URLs, backoff (computed and never used), and what becomes of
proxied requests.

### SyncedTerminals

What the rest of the server may rely on, without any connection: one sync or
unsync at a time; a key enters the synced set when its sync begins and leaves
it when the sync is refused or the terminal released; only an accepted sync
makes a terminal held.  `SessionServer` (with the property `SyncsAsPromised`)
and `CloudManager` (`ImplementsSyncs`) see the manager from its two sides, and
both implement it, so what one assumes of the other is what the other does.

### ProxyTasks

| Variable | Code |
|---|---|
| `pending_requests`, `pending_ws` | the tables of `ProxyState` |
| `task[i]` | the task of a request, or the reader of a WebSocket |
| `writer[w]`, `queue[w]` | the writer task of a WebSocket and the messages in its channel (64 in the code) |
| `aborted` | the ids whose `JoinHandle`s were aborted |
| `events` | the channel of proxy events (256 in the code) |
| `manager` | idle at its `select!`, elsewhere (with commands, terminals or a send), waiting for room in the channel of a writer, or gone after a panic |
| `conn` | is there a connection? |
| `told` | history: what the cloud has heard of each id on this connection |

To the manager a request and a WebSocket are alike: a first event (head, open),
data, and a last event (end, error, close).  Each send is an action that needs
room, apart from the step that made the event.  An abort takes effect at an
await, so `Stop` is an action of its own and an aborted task may go on before it.
Messages of the cloud are handled only when no event waits (the `select!` is
biased).  Commands and events of terminals come before both, so while there are
any, and while a send to the cloud takes its time, the manager is "elsewhere"
(`TurnsAway`, `Returns`); it need never come back.  Connections are made there
(`Reconnect`) and may be lost there.  `UpgradePanics` is the `unwrap()` on a
request that does not parse (`cloud/manager.rs:434`): the manager is gone, its
tables with it, and its tasks run on.  The local servers are external; those in
`Stalling` may stop reading.

### PaneLayout

A tree of panes is a function from positions to nodes, a position being the path
of first and second halves that leads there.  The code's recursive descents then
become statements about paths: ancestors are prefixes, the leaves are visited in
the order of their paths, and closing a pane moves the subtree of its sibling up
by one step.  A ratio counts twentieths, since keys move it by 0.05 and it stays
between 0.1 and 0.9.  Where width times ratio is a whole number, `f32` may make
the first half a cell smaller than here; nothing that is checked depends on it.

### AttachedClient

| Variable | Code |
|---|---|
| `terms`, `views` | the server's terminals, and the terminals and layout of each view |
| `session[c]` | `TuiSession` of a client: `view_id`, `layout` (with its focus), the keys of `vterms`, the size of its window; and which handler is under way |
| `mux[c]` | the keys of `pty_writers` of its connection (the resizers and readers have the same) |

`drawn` is history: ids are drawn once.  `session[c].restored`, too, is: the
terminals that had a pane in the layout the client began with.  The client is
one task and takes no key while a handler waits for the server, so a handler is
a chain of actions, one for each call: `SplitCreate`, `SplitAdd`, then
`SplitView` and `SyncLayout`, or `SplitUndo` when the terminal was killed in
between; `CloseRemove`, `CloseView`, `SyncLayout`; `ViewSwitch` and one
`SwitchTerminal` for each terminal.  Other clients act in between, and `Leave`
may end the client anywhere.  Answers are neither late nor lost: that is in `MuxSession`.
Views are neither created nor deleted here.

### MuxSession

| Variable | Code |
|---|---|
| `main`, `strict`, `calls` | `run_tui`'s task; whether it passes an error of its call on (`?`), which ends it; the calls begun |
| `slot` | `ctrl_tx`, the oneshot sender that both halves of the client share |
| `receiver`, `rx` | the task that calls `recv_frame`; its channel to the main task (64 in the code) |
| `up`, `down` | the two directions of the socket |
| `served`, `server` | `mux_sock_read`: the requests it has carried out, and the one it has an answer to send for |
| `channel` | the channel to `sock_write` (64), which the readers of terminals share |
| `link` | the connection |

`got` is history: the answer each call returned.  A call is `Begin` and then
`ReceiveAnswer` or `GiveUp`; its sender stays in the slot when it gives up, and
the next call puts its own there.  The main task empties its channel only between
calls (`Drain`), because it waits in a handler, so that output can keep an answer
back until the call times out.  What requests do is in `SessionServer` and
`AttachedClient`; here a request is a number.

### MuxCalls

What is left when queues, tasks and output are taken away: one call at a time,
requests carried out in order, answers given once and in order, but not always to
the call that asked.  `MuxSession` implements it (`ImplementsCalls`), the
liveness of calls included.

### PtyReaders

| Variable | Code |
|---|---|
| `alive`, `out`, `taken` | a terminal's shell, what it has written, and what was read of that |
| `task` | the blocking tasks of `spawn_pty_reader`: queued, reading, or sending a chunk |
| `session`, `channel` | the tasks of a connection and its channel to `sock_write` (64, or 32 in a plain attach) |
| `readers` | a session's map from terminals to `JoinHandle`s |

`left`, `drawn`, `losers`, `late`, `disorder`, `doubled` and `removed` are history:
where chunks ended up, and what happened to the sessions they went through.  A
chunk goes to whichever task reads first.  An abort stops a task that is still
queued and no other, as tokio documents for `spawn_blocking`.  A session whose
client is gone is "closed" while its `sock_write`, which nobody aborts, still
holds the receiver; its next write fails and "ended" it is.  The cloud manager
reads terminals in the same way, as a session that never closes.  A PTY ends with
its shell: a process the shell leaves in the background with the PTY open would
keep the readers, and is not modelled.

### ServerLifecycle

| Variable | Code |
|---|---|
| `at` | where each process of `kexsh server start` is in `Server::start`, `run` or `shutdown` |
| `socket` | the file at `socket_path()`, which is the process that bound it |
| `pidfile` | the file at `pid_path()`: a process, empty, or none |

`overlapped` is history: whether two starts were past `is_server_running` at once.
Every access to a file is an action, and `write_pid` is two, for it truncates
first.  A crash may come anywhere and cleans up nothing.  A process keeps its
listener when its socket file is removed, which is how a server becomes one that
nobody can reach.

### MC and proof modules

`MCSessionServer`, `MCCloudManager` and `MCAttachedClient` add symmetry for TLC, and
the last the sizes of windows; the other modules are
checked as they are.  The eight modules named `...Proofs` hold the theorems of
section 5, each about the module it is named after.  `AttachedClientProofs` also
extends `PaneLayoutProofs`, which has only lemmas: `PaneLayout` has no states.

## 4. Runs

| Run | Instance | Checks |
|---|---|---|
| `sync_crash` | 2 connections and the web, 1 terminal, crashes, stops, failed writes | `TypeOK`, `SyncedExplained`, `SyncsAsPromised` |
| `write_behind` | 2 connections and the web, 1 terminal, 1 named view, 1 layout | `NoLostNotify`, `NoHalfKillInSnapshot`, `DanglingExplained`, `AnnouncedIsSnapshot`, `QuietIsSaved`, `RequestsEnd` |
| `final_state` | 1 connection, 1 terminal, debounce 5, grace 1 | `FinalStateSaved` is violated |
| `cloud` | 2 connections, the web and texts of browsers, 1 key, 1 port; the cloud refuses, is slow, silent or cut off | `TypeOK`, `SidesAgree`, `TimerIsIdle`, `WithoutCrossingConfirmed`, `ServedIsRead`, `ExposeIsPending`, `ImplementsSyncs` |
| `cloud_answers` | 2 connections, 1 key, 1 port; the cloud is silent or cut off | `CommandsAnswered`, `EndedIsUnsynced` |
| `proxy` | 1 request, 1 WebSocket that may stall and get early data, channels of 2 and 1 | `TypeOK`, `ToldInOrder`, `EntriesMatchTasks`, `EndedIsForgotten`, `OpenSocketCloses` |
| `panes` | 1 client, 3 terminals, windows of 9x5 and 2x1 cells | `TypeOK`, `PanesTile`, `PanesAreReachable`, `ResizeFollowsKey`, `SplitsFit` |
| `attached` | 2 clients, 2 terminals, 1 view | `PanesAreDistinct`, `SidesMatch` |
| `view_switch` | 1 client, 2 terminals, 2 views | `PanesAreAttached` is violated |
| `mux` | 1 connection, 4 calls, channels of 2, 1 and 1 | `OwnAnswers`, `Resynchronises`, `ImplementsCalls` |
| `readers` | a plain and a multiplexed session, 1 terminal, 3 chunks, 2 threads for 3 readers | `EachChunkOnce`, `DrawnInOrder`, `LossIsBounded`, `ThreadsEnd` |
| `lifecycle` | 4 processes | `OneServer`, `ServingIsReachable`, `StartSucceeds` |

**Passing runs.**  `write_behind` shows that a snapshot never sees a
`TerminalKill` half done, because the handler keeps the first lock; and that a
dead terminal in a view has one of a few known causes: a sweep still to come, or
a kill that could not reach the entry (from the web, while a handler was about to
add it, or by another reference, which needs names of terminals and is covered by
the theorem `ViewsCorrect` only).  It shows that the one permit of the `Notify` is
enough: a change made at any point of the persister's cycle causes another save;
changes that keep coming do not postpone the snapshot; and no request waits for
ever for a lock, so the order terminals - views - synced is respected by all.
`sync_crash` shows that a refused sync leaves nothing behind in the synced set,
whatever restarts and unsyncs come in between.  It does not show that a crash
loses nothing: the server begins with whatever the disk held.

`SyncsAsPromised` and `ImplementsSyncs` show that the two views of the manager
fit.  `cloud` shows that after any mix of refusals, timeouts and losses the
cloud holds what the manager serves as soon as nothing is under way, and that the
manager begins to serve only what the cloud has accepted; this rests on two
decisions of the code, to drop the connection after a timeout (else the late
answer would be taken for the next one) and to begin each connection with the
device's status, and each mutant that undoes one is caught.  Both properties
except a connection on which a text about something else was taken for a
confirmation (`crossed`): then the sides can disagree until the connection ends
(see below).  The run shows too that a second sync, which starts a second reader and stops none, and
readers that outlive an unsync never leave a served terminal without a reader
that will report its end.  `cloud_answers` shows that each command is answered,
with a cloud that stays silent at the latest after the timeout, provided that
connecting and sending end, which the code does not see to; and that an exit is
not lost when it falls into a sync or between connections, provided that the
manager finds no command waiting now and then.  `proxy` shows that the cloud
hears of each request in order; that neither entries nor tasks leak while the
manager lives; that what ended is forgotten, provided that the manager comes back
to its channel of events; and that the manager's one wait for room, at the close
of a WebSocket, ends when the WebSocket was opened and its local server reads.

`panes` shows that the geometry holds up where it is easily wrong: with ratios
at either end, splits nested in both ways, and windows too small for the panes
they hold.  A split leaves two panes with cells if the pane had any; `handle_split`
looks only at the side it divides, so that a pane of no rows, which a resize or a
small window makes, can be split into two columns of no rows, and the property
leaves that out.  `attached` shows that a client and its connection agree whenever no
handler is under way, though a terminal may be killed between any two of its
calls and a second client changes the same view; and that no mix of splits,
closes, switches of view and restored layouts gives a terminal two panes.  It
stops where every terminal was killed and every id drawn, so it alone does not
check deadlock.

`mux` shows what one slot without numbers is worth: while every call is answered
each gets its own answer; after one that timed out the next may get the answer
before, and so on, until the client makes no call for a while; and calls end even
when a terminal floods the connection.  `readers` shows that clones of a PTY are
safe to read from several tasks at once, that a session's frames stay in order as
long as it has one reader for a terminal, and that a session that left costs
those that come after it one chunk of each of its terminals at most.  It shows
too that the threads of a stopped server end.  `lifecycle` shows that the order
of the file operations is right but for overlapping starts: a server removes its
pid file last, so that nobody can begin while it still might remove the socket.
Sessions, calls and processes may all be at an end, so these three do not check
deadlock.

**Violations.**  Two texts of the repository that say something the code does not
do have a run.  "Save final state" (`server/mod.rs:122`): the notification in `shutdown` is
followed by 100 ms of sleep, the persister needs 500 ms, so nothing is written;
in the trace a terminal is synced and the server stopped before its debounce
ends.

The other concerns the client.  "Already attached via mux handshake"
(`terminal/attach.rs:402`), said of the terminals a client begins with: after a
switch to another view, the client goes on storing its layout under the view it
attached to.  In the trace it attaches to that view again and restores a pane of
a terminal of the other one, which exists, is shown, and is not attached: the
pane stays empty and takes no input.

More disagreements are in the models and in the list of hazards, without a run
of their own:

- "Wait for response (terminal.sync.ok, or error)" (`cloud/manager.rs:590`): any
  text that is no error is taken for the confirmation.  A browser's text that
  comes while a sync waits confirms it, and the manager serves a terminal the cloud
  has not accepted and may yet refuse.  `WithoutCrossingConfirmed` without its
  premise is violated this way, and so is `SidesAgree`.  When the text
  is the answer to an expose, the connection that exposes waits for ever as well.
- "Best-effort close: enqueue Close frame, then force-abort tasks"
  (`cloud/manager.rs:964`): the enqueuing waits for room (`:970`).  When the local
  server of a WebSocket has stopped reading and its writer's channel is full there
  is never room, no task is aborted, and the manager serves nobody any more.
  `OpenSocketCloses` without its premises, `manager = w ~> manager # w`, is violated
  this way; the run `proxy` has such a local server.
- A proxied WebSocket whose path or header does not parse ends the manager's task
  with a panic (`cloud/manager.rs:434`), and with it syncs, exposes and proxying.
- "Abort remaining reader tasks on disconnect" (`server/mod.rs:618`): readers that
  run are not aborted; each takes one more chunk from whoever attaches next.
- `send_control` has no way to know its answer (`ipc/mux.rs:50`), and a client
  that waits for one under a flood of output times out; a split or close then
  ends the client without a detach, and a switch of views goes on.
- "server is already running" (`server/mod.rs:34`): a stop is answered, and "server
  stopped" printed (`main.rs:187`), before the server has stopped, so a start
  right after it is refused and no server runs in the end; and two starts at once
  both pass the check, and one of them can then not be reached.
- A terminal killed by its name stays listed under its id (`server/mod.rs:189`,
  against "Terminal ID or name", `main.rs:70`).
- A layout stored under a view's name is answered Ok and stored nowhere
  (`view/manager.rs:94`).
- A second sync that is refused takes the key of a terminal that stays served
  out of the synced set (`cloud/manager.rs:270`).
- The delayed disconnect, which runs while ports are exposed as well, aborts none
  of the requests in flight (`cloud/manager.rs:708`, against
  `protocol/scenarios/v1/proxy-http-disconnect.json:3`).
- A terminal attached by a name of more than eight bytes is answered and then
  neither shows anything nor takes input (`ipc/codec.rs:55`); the models have no
  ids that are cut.

With data for a WebSocket that is not open yet (`EarlyData`, in `proxy`) the manager
can stop without any fault of a local server: it waits for room in a writer's
channel, the writer for the write half, and the reader, which gives it, for room
in the manager's own channel of events.  Whether the cloud sends that early is
not for this repository to say, so `OpenSocketCloses` speaks of WebSockets whose
writer has its write half, and the run does not check deadlock.

**Bounds.**  Two connections suffice for every race between two handlers and,
with the persister and the cloud manager, make four tasks on two locks.  Two
terminals and a name let a name mean either terminal, or outlive one and come
to mean the other.  A view is enough to hold a dead entry: views do not interact.
`RoomForView` lets a view be created only when an id is left; TermIds bounds
terminals the same way (`FreshTermIds`).  Times are in units of 100 ms;
where their ratio does not matter the sleeps are 1 or 2 units, so that
notifications fall before, during and after the sleep; `final_state` uses the
real 5 and 1.  `Ops` selects the requests that occur, so that each run's state
space is the one its question needs.

In `CloudManager`, `MaxFlight` bounds what is on its way when somebody adds to
it freely (syncs and exits always may); one such message beside those of a sync
is enough to be taken for an answer, to be overtaken by one, and to be lost with a
connection.  One key and one port suffice, for two connections and the web can
contend for them, and keys meet only in the device's status and in the delayed
disconnect, which looks whether any is left; the theorems of this module are about
any number.  Liveness is checked without texts of browsers and the web, which the manager
takes only when no command and no exit is waiting.  `MaxReaders` of two lets a
terminal be synced twice, or again after an unsync.  In `ProxyTasks` the
channels have room for two events and one message instead of 256 and 64: what
matters is that they fill, empty, and hold events of both ids.  One request and
one WebSocket share the channel; requests do not interact otherwise.

In `AttachedClient` a key moves a ratio by 8 twentieths instead of 1, so that the
five ratios between the two ends become three, with both ends among them; three
panes are the least with a split inside another one.  A window of 9x5 cells has
room for three panes either way and is just too small for some splits; 2x1 cells
leave panes without any.  Ids are not used again (the code draws eight hexadecimal
digits at random), so a run ends with its last id, and `Ops` says what may
happen beside splits, closes and navigation.

In `MuxSession` four calls are two that fail, one that gets a wrong answer and
one more; channels of one and two frames fill with output at once.  In
`PtyReaders` three readers are a session's two and another's one, and two threads
make one of them wait; a PTY holds one chunk, channels hold two, three chunks are
enough for two of them to be out of order.  In `ServerLifecycle` four processes
let one crash, one stop, and two start.

**Fairness.**  In `SessionServer`: `SF(Continue(c))` and `SF(PersisterStep)`: tokio runs every task
that is ready, and its `Mutex` is fair, so a task waiting for a lock that is
released again and again gets it.  `WF(Tick)`: time passes.  Each task waits in
one place at a time, so fairness of the union of its steps is fairness of each.
Nothing is assumed of clients, who need not ask for anything, nor of the cloud
manager, which may wait for a remote service, nor of stops and crashes.

In `CloudManager`: SF for taking a connection's command, because the channel is
first in, first out, and first in the biased `select!`; WF for `Confirmation`,
because the wait for an answer ends after ten seconds; SF for the exits of
readers, which come before messages in the `select!`.  Connecting, authenticating
and sending (`SendRequest`, `SendExpose`, `SendUnexpose`, `SendEnds`) are not
fair, since nothing in the code ends them: `CommandsAnswered` says what holds if
the manager is infinitely often at none of them.  Exits come after commands, so
`EndedIsUnsynced` says what holds if the manager finds no command waiting
infinitely often.  Nothing is assumed of the cloud, of clients, or of the network.

In `ProxyTasks`: WF for the steps of tasks that can go on, for connecting (a
timeout of five seconds) and for the end of a close that has room; SF for taking
an event, the first thing an idle manager does.  Nothing makes the manager idle:
`Returns` is not fair, because the biased `select!` serves commands and terminals
first for as long as there are any and no send has a timeout, and
`EndedIsForgotten` takes a manager that is idle infinitely often as its premise.
WF for a write to a local server only when it is not in `Stalling`;
`OpenSocketCloses` has its reading as a premise, so it holds of all.  Nothing is
assumed of what local servers answer, or of the cloud.

In `MuxSession`: WF for tasks that can go on and for the timer of a call; SF for
the answer's way into the channel, because a tokio channel serves its senders in
the order they came, so output cannot overtake it for ever.  In `PtyReaders`: SF
for the steps of a reader that has a thread, for the same reason, and WF for the
write of a session whose client is gone; nothing is assumed of the pool, which
may leave tasks in its queue, nor of clients that read slowly.  In
`ServerLifecycle`: WF for a process that starts or shuts down, whose steps wait
for nothing.  Nobody has to begin, stop or crash.

## 5. Theorems

`SessionServerProofs`, for every set of ids, names, connections and any positive
sleep:

- `TypeCorrect`: `Spec => []TypeOK`, one lemma per group of actions.
- `LocksCorrect`: the locks are held by exactly the tasks whose control state
  says so (`LockDiscipline`), and the manager serves only connections that wait
  for it (`ActorServes`); the two are inductive together with typing, since a
  reply of the manager moves a handler.
- `SnapshotSeesWholeKills`: `[]NoHalfKillInSnapshot`, from `LockDiscipline`: the
  same lock cannot have two holders.
- `NotificationsKept`: `[]NoLostNotify`.  Inductive with `ActorServes`: a change
  the manager made for a sync is still to be announced by the handler it answers.
- `ViewsCorrect`: `[]DanglingExplained`.  Not inductive alone: `ViewInsert` and
  `ViewAdd` add a terminal whose check is over.  `PendingExplained` says that
  such a terminal exists, or its kill recorded it as not swept.
- `SyncedCorrect`: `[]SyncedExplained`, inductive with typing, across restarts.
- `SyncsImplemented`: `Spec => SyncsAsPromised`.  Each step maps to a step of
  `SyncedTerminals` or leaves its variables alone; no invariant is needed but
  that of typing.

They rest on three assumptions: `None` is no id, name or layout; connections
are distinct from the words that stand for the other lock holders; sleeps are
positive.

`CloudManagerProofs`, for every set of keys, ports, connections and operations,
and any bounds:

- `TypeCorrect`: `[]TypeOK`, including the queues of messages.
- `TimerCorrect`: `[]TimerIsIdle`, inductive with typing.
- `ReadersCorrect`: `[]ServedIsRead`.  A reader reports its end only when the
  shell has ended, and then the terminal is released by the first report.
- `ExposesCorrect`: `[]ExposeIsPending`, inductive with typing; its second half
  says whom the manager is serving.
- `SyncsImplemented`: `Spec => ImplementsSyncs`.  It needs that an unsync under
  way is of a terminal that is served (`UnsyncOfServed`), since an unsync of
  another key would be a release the abstract specification does not have.
- `SidesCorrect`: `Spec => []SidesAgree`.  `UnderWay`, the inductive invariant, sums
  up the messages between the two sides of a connection on which no other text was
  taken for a confirmation (`~crossed`).  When the manager waits for no answer, only
  notices (exits, pings, exposes, the device's status) are on their way to the cloud
  and nothing that confirms is on the way back, and the cloud holds, or will once
  it has read the status, what the manager serves but for those exits (`Quiet`,
  `Settled`).  When it waits, either its request is the last thing on that way,
  behind notices (`Asked`); or the answer is on the way back, the only one among
  other messages, and the cloud holds what the manager will serve after it
  (`AnswerComes`).  That a timeout drops the connection is what keeps a late answer
  out of it.
- `ConfirmedCorrect`: `Spec => WithoutCrossingConfirmed`, from `UnderWay`.

They assume that `None` is no key or connection, that connections are distinct
from the web, and that the bounds are numbers.  Nothing is assumed of `Ops`:
exposes, the web and its traffic, refusals, missing credentials, timeouts and
failing connections all occur.  The exception of `crossed` is needed:
`send_and_confirm` takes any text for the confirmation, so both properties are
false without that premise.

`ProxyTasksProofs`, for every set of requests and WebSockets and any capacities:

- `TypeCorrect`: `[]TypeOK`, with the bounds of the channels.
- `ToldCorrect`: `[]ToldInOrder`.  Far from inductive: what the cloud will hear
  depends on the channel and on the tasks behind it.  `OrderInv` says that the
  three follow each other: in the channel nothing of a request precedes its first
  event or follows its last (`EventsInOrder`); a task with an event there has
  sent its first, and with its last there is done (`EventsAreSent`); and what
  the cloud has heard is what went before (`HeardSoFar`, only of requests of this
  connection and only while there is one, which is why `told` may be silent when
  the first event was dropped).
- `EntriesCorrect`: `[]EntriesMatchTasks`, from `OrderInv`
  and `AbortedRan`, which says that only what has begun was aborted; until the
  manager is gone.

Both need `GoneIsSilent`: a manager that panicked has no connection and an empty
channel for good.  They assume that no request is a WebSocket, that no WebSocket
is named as the other places of the manager are, and that channels have room for
something.

`ServerLifecycleProofs`, for any number of processes:

- `TypeCorrect`: `[]TypeOK`.
- `OneServerCorrect` and `ReachableCorrect`: `[]OneServer`, `[]ServingIsReachable`.
  Neither is inductive.  `Alone` says more: without an overlap at most one process
  runs at all, a process that serves is the one the pid file names, and one that
  has a listener and still its socket file is the one the socket names.  A process
  gets past its check only when none runs, and after that every step is its own.

They assume that `None` and "empty" are no processes.

`MuxSessionProofs`, for any number of calls and any capacities of the channels:

- `TypeCorrect`: typing, and that no channel holds more than its capacity.
- `OwnCorrect`: `[]OwnAnswers`.  An answer does not say which request it is for,
  so this holds because everything between the two sides is a queue.  `OrderInv`
  says so: the requests in the socket are the next ones (`RequestsFollow`), the
  answers under way are in the order of their requests, behind each other in the
  two channels and before the one the server is about to give (`AnswersFollow`),
  and the answers that were given came before them (`GivenAreFirst`).
- `CallsImplemented`: the safety half of `ImplementsCalls`, each step of the
  connection being a step of `MuxCalls` or leaving its variables alone; it needs
  `OrderInv`, for no answer may be given twice.

They assume that the number of calls is natural and capacities are positive.

`PtyReadersProofs`, for any sessions, terminals, threads and capacities:

- `TypeCorrect`: typing, with the bounds of channels and PTYs.
- `ChunksCorrect`: `[]EachChunkOnce`.  `OnceInv` says where a chunk is: with at
  most one task or in at most one channel (`InOnePlace`), and there exactly while
  it has been read and neither drawn nor lost (`Accounted`).
- `OrderCorrect`: `[]DrawnInOrder`.  Of a terminal for which a session never had a
  second reader, what was drawn comes before what is in the channel, in order, and
  that before what the reader has in hand (`SinglesInOrder`).
- `LossCorrect`: `[]LossIsBounded`.  A session has output only of terminals it
  reads (`OutputIsWanted`), and the chunks that came too late and the readers
  that are left are together no more than the terminals (`LateIsBounded`): each
  reader that outlives its session pays for one chunk with its end.

They assume that the bounds are positive and that there are finitely many
terminals.

`PaneLayoutProofs`, lemmas about the operations on layouts, for trees of any shape
and areas of any size.  Splitting, closing, resizing and navigating keep a layout
`Sound`: a tree, no terminal in two panes, the focus on a pane; a split adds its
pane and takes none away, a close takes away the focused one and adds none
(`SplitFacts`, `CloseFacts`).  `PathGrows`: where every node on the way to a pane
gives the half the pane is in no less, the pane gets no less; `ResizeGrows` and
`SplitHasRoom` follow.  These need induction, over the depth of a tree and over
sets of positions.  It is taken in the form of sets (`NatSetInduction`,
`FiniteSetSetInduction`), which the well-foundedness of the strict subsets of a
finite set gives without an operator as a parameter.  That recursive functions
such as `Rects` have the values of their equations is proved from the existence
of such a function (`RectsExist`).

`AttachedClientProofs`, for any clients, terminals, views and sizes of windows:

- `TypeCorrect`, `PanesCorrect`, `SidesCorrect`: `[]TypeOK`, `[]PanesAreDistinct`,
  `[]SidesMatch`, from one inductive invariant, `Inv`.  It says of a client in the
  middle of a handler what is still open: its connection may carry one terminal
  that the client does not show (`Pending`, of a split), it may not carry those a
  switch of view has yet to attach (`Coming`), and the terminal of a split has no
  pane yet.  Layouts stored in views and lists of views are sound too, since
  clients open with them.
- `TilesCorrect`: `[]PanesTile`, from `Inv` and `TreeTiles`, an induction over the
  positions of a tree.
- `ReachableCorrect`: `[]PanesAreReachable`.  A group of panes that is neither empty
  nor all of them has, at the deepest split it is divided by, every pane of one half
  and none of the other (`MixedSplit`).  Where no pane is empty there are panes in
  the corners of every half (`CornersHavePanes`), so that two of them face each other
  across the separator.  A key leads from the one to a pane no farther than the
  other (`NavigateNearest`), and what is as near has cells in the area of the split
  and outside the half the key left (`AcrossTheLine`): it is in the other half,
  whichever of several candidates comes first (`Neighbours`).
- `ResizeCorrect`: `Spec => ResizeFollowsKey`, from `Inv` and `ResizeGrows`.
- `FitCorrect`: `Spec => SplitsFit`.  A split asks the server for a terminal before
  it changes the layout.  `FitInv` says that a client in between still has the room
  it found: nothing else changes its layout or its area.  With four columns or rows
  along the side that is divided, and a cell of the other, both halves have cells
  (`SplitHasRoom`).

They assume that `None` is no view, that a key moves a ratio, and that areas have
natural coordinates.

Only model-checked: the liveness properties (`AnnouncedIsSnapshot`, `QuietIsSaved`,
`RequestsEnd`, `CommandsAnswered`, `EndedIsUnsynced`, `OpenSocketCloses`,
`EndedIsForgotten`, `Resynchronises`, `ThreadsEnd`, `StartSucceeds`, and the
liveness half of `ImplementsCalls`), since the prover has neither `ENABLED` nor
fairness; and the two disagreements with a run, which are traces.

## 6. Not modelled

Rendering, terminal emulation, configuration, credentials, login and argument
parsing are sequential input and output with no state worth exploring; the keys
are a function of one key and one mode, and every case has its unit test.
Within the modelled
parts: what terminals show, the modes of the prefix key, times of creation,
messages of errors, and requests that only read.  Frames are read and written
whole: their bytes (`ipc/codec.rs`), and the eight of them that hold a terminal's
id, are left out, as are the writes to a PTY, which block the session's task or
the cloud manager when a shell does not read its input (`server/mod.rs:642`,
`cloud/manager.rs:1074`), processes that keep a PTY open after its shell has ended,
and the reuse of a dead server's pid by another program.
