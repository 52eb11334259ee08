---------------------------- MODULE SessionServer ----------------------------
(***************************************************************************)
(* The kexsh server between two accesses to its shared tables: connection  *)
(* handlers and mux sessions (server/mod.rs), the cloud manager's task as  *)
(* far as it touches the tables (cloud/manager.rs), the persister task     *)
(* (server/state.rs) and the server's life cycle: stop, crash, restart.    *)
(*                                                                         *)
(* Each table sits behind a tokio Mutex.  A handler that takes one lock,   *)
(* works and releases it without awaiting is one action, enabled when the  *)
(* lock is free; a handler that awaits while it holds a lock, or between   *)
(* two locks, is several, and task[c] says where it is.  The lock of the   *)
(* synced set is never held across an await, so it needs no variable.      *)
(*                                                                         *)
(* Time counts in units of 100 ms.  state.json is represented by what      *)
(* start() reads back from it, the synced set; that the rest of the file   *)
(* is up to date is what the history variable saved records.               *)
(***************************************************************************)
EXTENDS Registry, Integers, FiniteSets

CONSTANTS
  Clients,     \* connections, each with at most one request in progress
  Ops,         \* the requests and events that occur
  Debounce,    \* the persister's sleep, 500 ms
  Grace        \* the sleep of shutdown(), 100 ms

ASSUME ClientsAssumption == Clients \cap {"free", "persister", "web"} = {}
ASSUME TimeAssumption    == Debounce \in Nat \ {0} /\ Grace \in Nat \ {0}

VARIABLES
  terminals, views, synced,   \* the shared tables
  mgrLock, vmgrLock,          \* who holds TerminalManager's and ViewManager's lock
  task,                       \* where each connection's handler is
  cloud,                      \* CloudManager.terminals: the keys it holds
  actor,                      \* where the cloud manager's task is
  trigger,                    \* the permit stored in the persister's Notify
  persister, debounce, image, \* the persister task, its sleep, its snapshot
  disk,                       \* what ServerState::load would find in state.json
  server, grace,              \* life cycle, and the sleep of shutdown()
  saved,                      \* history: where the last announced change has got
  unswept,                    \* history: references a kill left behind in views
  restored                    \* history: the synced set start() began with

tables   == <<terminals, views, synced>>
locks    == <<mgrLock, vmgrLock>>
flusher  == <<trigger, persister, debounce, image, disk>>
life     == <<server, grace, restored>>
vars     == <<tables, locks, task, cloud, actor, flusher, life, saved, unswept>>

-----------------------------------------------------------------------------
(* Where a handler can be between two of its steps. *)

Idle   == [at |-> "idle"]
Finish == [at |-> "finish"]        \* answered, about to notify the persister

Task ==
  [at : {"idle", "finish", "in_actor"}]
    \cup [at : {"kill_views", "mux_kill_views", "sync", "unsync"}, id : TermRefs]
    \cup [at : {"view_create"}, name : MaybeViewName, terminal_id : TermRefs]
    \cup [at : {"view_add"}, view_id : ViewRefs, terminal_id : TermRefs]

Actor ==
  [at : {"idle"}]
    \cup [at : {"insert", "confirm"}, id : TermRefs, client : Clients \cup {"web"}]
    \cup [at : {"web_sync", "web_kill"}, id : TermRefs]

Alive   == server \in {"up", "grace", "exiting"}
Ready(c, op) == op \in Ops /\ Alive /\ task[c] = Idle
MgrFree  == mgrLock = "free"
VmgrFree == vmgrLock = "free"
ActorFree == Alive /\ actor = Idle

Goto(c, t) == task' = [task EXCEPT ![c] = t]

\* A change some handler announces to the persister once it has answered.
Announced == saved' = "memory"

\* A handler that has checked terminal x and not yet put it in a view.
Pending(x) == \E c \in Clients : /\ task[c].at \in {"view_create", "view_add"}
                                 /\ task[c].terminal_id = x

\* TerminalManager::create and ::kill.  swept is what the caller will take
\* out of the views; the other references to the dead terminal stay behind.
Create(i, name) ==
  /\ terminals' = Put(terminals, i, name)
  /\ unswept' = unswept \ {i, name}

Kill(i, swept) ==
  /\ terminals' = Drop(terminals, i)
  /\ unswept' = unswept \cup {x \in {i, terminals[i]} \cap TermRefs :
                                x \notin swept \/ Pending(x)}

-----------------------------------------------------------------------------
Init ==
  /\ terminals = EmptyTable /\ views = EmptyTable /\ synced = {}
  /\ mgrLock = "free" /\ vmgrLock = "free"
  /\ task = [c \in Clients |-> Idle]
  /\ cloud = {} /\ actor = Idle
  /\ trigger = FALSE /\ persister = "waiting" /\ debounce = 0
  /\ image = {} /\ disk = {}
  /\ server = "up" /\ grace = 0 /\ restored = {}
  /\ saved = "file" /\ unswept = {}

-----------------------------------------------------------------------------
(* Requests of a connection (handle_connection) and of a mux session       *)
(* (handle_mux_request).                                                   *)

\* Spawning the PTY may fail; the error is answered and announced as well.
TerminalCreate(c, name) ==
  /\ Ready(c, "TerminalCreate") /\ MgrFree
  /\ \/ \E i \in FreshTermIds(terminals) : Create(i, name) /\ Announced
     \/ "SpawnFails" \in Ops /\ UNCHANGED <<terminals, unswept, saved>>
  /\ Goto(c, Finish)
  /\ UNCHANGED <<views, synced, locks, cloud, actor, flusher, life>>

\* CreateTerminal of a mux session: when the new PTY's reader cannot be
\* cloned the terminal stays and the persister hears nothing of it.
MuxCreate(c, name) ==
  /\ Ready(c, "MuxCreate") /\ MgrFree
  /\ \E i \in FreshTermIds(terminals) : Create(i, name)
  /\ \/ Announced /\ Goto(c, Finish)
     \/ "SpawnFails" \in Ops /\ UNCHANGED <<saved, task>>
  /\ UNCHANGED <<views, synced, locks, cloud, actor, flusher, life>>

\* Mutant of TerminalKill: the terminal lock is released before the views are
\* locked, as the other handlers do.
TerminalKillDropsLock(c, ref) ==
  /\ Ready(c, "TerminalKill") /\ MgrFree
  /\ \E i \in TermMatches(terminals, ref) :
       /\ Kill(i, {ref})
       /\ Goto(c, [at |-> "kill_views", id |-> ref])
       /\ Announced
  /\ UNCHANGED <<views, synced, locks, cloud, actor, flusher, life>>

\* The connection keeps the terminal lock until the views are swept.
TerminalKill(c, ref) ==
  /\ Ready(c, "TerminalKill") /\ MgrFree
  /\ \/ /\ ~HasTerminal(terminals, ref)
        /\ Goto(c, Finish)
        /\ UNCHANGED <<terminals, unswept, mgrLock, saved>>
     \/ \E i \in TermMatches(terminals, ref) :
          /\ Kill(i, {ref})
          /\ mgrLock' = c
          /\ Goto(c, [at |-> "kill_views", id |-> ref])
          /\ Announced
  /\ UNCHANGED <<views, synced, vmgrLock, cloud, actor, flusher, life>>

\* Mutant of KillViews: it locks the terminals it has locked already.
KillViewsRelocks(c) ==
  /\ Alive /\ task[c].at = "kill_views" /\ VmgrFree /\ MgrFree
  /\ views' = RemoveTerminal(views, task[c].id)
  /\ Goto(c, Finish)
  /\ Announced
  /\ UNCHANGED <<terminals, synced, locks, cloud, actor, flusher, life, unswept>>

KillViews(c) ==
  /\ Alive /\ task[c].at = "kill_views" /\ VmgrFree
  /\ views' = RemoveTerminal(views, task[c].id)
  /\ mgrLock' = "free"
  /\ Goto(c, Finish)
  /\ Announced
  /\ UNCHANGED <<terminals, synced, vmgrLock, cloud, actor, flusher, life, unswept>>

\* KillTerminal of a mux session releases it in between.
MuxKill(c, ref) ==
  /\ Ready(c, "MuxKill") /\ MgrFree
  /\ \E i \in TermMatches(terminals, ref) : Kill(i, {ref})
  /\ Goto(c, [at |-> "mux_kill_views", id |-> ref])
  /\ Announced
  /\ UNCHANGED <<views, synced, locks, cloud, actor, flusher, life>>

\* Mutant of MuxKillViews: it answers without notifying the persister.
MuxKillViewsSilently(c) ==
  /\ Alive /\ task[c].at = "mux_kill_views" /\ VmgrFree
  /\ views' = RemoveTerminal(views, task[c].id)
  /\ Goto(c, Idle)
  /\ Announced
  /\ UNCHANGED <<terminals, synced, locks, cloud, actor, flusher, life, unswept>>

MuxKillViews(c) ==
  /\ Alive /\ task[c].at = "mux_kill_views" /\ VmgrFree
  /\ views' = RemoveTerminal(views, task[c].id)
  /\ Goto(c, Finish)
  /\ Announced
  /\ UNCHANGED <<terminals, synced, locks, cloud, actor, flusher, life, unswept>>

\* Bound: a view id is left for every view about to be inserted.
RoomForView ==
  Cardinality(FreshViewIds(views)) >
    Cardinality({c \in Clients : task[c].at = "view_create"})

\* ViewCreate and ViewAddTerminal look the terminal up under one lock and
\* change the views under the other, holding neither in between.
ViewCreate(c, name, ref) ==
  /\ Ready(c, "ViewCreate") /\ MgrFree /\ RoomForView
  /\ Goto(c, IF HasTerminal(terminals, ref)
             THEN [at |-> "view_create", name |-> name, terminal_id |-> ref]
             ELSE Finish)
  /\ UNCHANGED <<tables, locks, cloud, actor, flusher, life, saved, unswept>>

ViewInsert(c) ==
  /\ Alive /\ task[c].at = "view_create" /\ VmgrFree
  /\ \E v \in FreshViewIds(views) :
       views' = Put(views, v, NewView(task[c].name, task[c].terminal_id))
  /\ Goto(c, Finish)
  /\ Announced
  /\ UNCHANGED <<terminals, synced, locks, cloud, actor, flusher, life, unswept>>

ViewAddTerminal(c, vref, ref) ==
  /\ Ready(c, "ViewAddTerminal") /\ MgrFree
  /\ Goto(c, IF HasTerminal(terminals, ref)
             THEN [at |-> "view_add", view_id |-> vref, terminal_id |-> ref]
             ELSE Finish)
  /\ UNCHANGED <<tables, locks, cloud, actor, flusher, life, saved, unswept>>

ViewAdd(c) ==
  /\ Alive /\ task[c].at = "view_add" /\ VmgrFree
  /\ \/ /\ ViewMatches(views, task[c].view_id) = {}
        /\ UNCHANGED <<views, saved>>
     \/ \E v \in ViewMatches(views, task[c].view_id) :
          views' = AddTerminal(views, v, task[c].terminal_id) /\ Announced
  /\ Goto(c, Finish)
  /\ UNCHANGED <<terminals, synced, locks, cloud, actor, flusher, life, unswept>>

ViewDelete(c, vref) ==
  /\ Ready(c, "ViewDelete") /\ VmgrFree
  /\ \/ ViewMatches(views, vref) = {} /\ UNCHANGED <<views, saved>>
     \/ \E v \in ViewMatches(views, vref) : views' = Drop(views, v) /\ Announced
  /\ Goto(c, Finish)
  /\ UNCHANGED <<terminals, synced, locks, cloud, actor, flusher, life, unswept>>

\* The request of a connection and the one of a mux session do the same.
ViewUpdateLayout(c, vref, layout, focused) ==
  /\ Ready(c, "ViewUpdateLayout") /\ VmgrFree
  /\ views' = UpdateLayout(views, vref, layout, focused)
  /\ Goto(c, Finish)
  /\ Announced
  /\ UNCHANGED <<terminals, synced, locks, cloud, actor, flusher, life, unswept>>

ViewRemoveTerminal(c, vref, ref) ==
  /\ Ready(c, "ViewRemoveTerminal") /\ VmgrFree
  /\ views' = RemoveTerminalFromView(views, vref, ref)
  /\ Goto(c, Finish)
  /\ Announced
  /\ UNCHANGED <<terminals, synced, locks, cloud, actor, flusher, life, unswept>>

\* A terminal that is not there is answered at once, with no notification.
TerminalSync(c, ref) ==
  /\ Ready(c, "TerminalSync") /\ MgrFree
  /\ HasTerminal(terminals, ref)
  /\ Goto(c, [at |-> "sync", id |-> ref])
  /\ UNCHANGED <<tables, locks, cloud, actor, flusher, life, saved, unswept>>

TerminalUnsync(c, ref) ==
  /\ Ready(c, "TerminalUnsync")
  /\ Goto(c, [at |-> "unsync", id |-> ref])
  /\ UNCHANGED <<tables, locks, cloud, actor, flusher, life, saved, unswept>>

\* Mutant of Notify: a notification restarts the persister's sleep.
NotifyRestartsSleep(c) ==
  /\ Alive /\ task[c] = Finish
  /\ trigger' = TRUE
  /\ debounce' = IF persister = "debounce" THEN Debounce ELSE debounce
  /\ Goto(c, Idle)
  /\ UNCHANGED <<tables, locks, cloud, actor, persister, image, disk, life, saved, unswept>>

\* The end of a mutating request, whatever it answered: persister.notify().
Notify(c) ==
  /\ Alive /\ task[c] = Finish
  /\ trigger' = TRUE
  /\ Goto(c, Idle)
  /\ UNCHANGED <<tables, locks, cloud, actor, persister, debounce, image, disk,
                 life, saved, unswept>>

-----------------------------------------------------------------------------
(* The cloud manager's task: one command or event at a time.               *)

ActorTakeSync(c) ==
  /\ ActorFree /\ task[c].at = "sync"
  /\ actor' = [at |-> "insert", id |-> task[c].id, client |-> c]
  /\ Goto(c, [at |-> "in_actor"])
  /\ UNCHANGED <<tables, locks, cloud, flusher, life, saved, unswept>>

\* The reply to whoever asked for the sync; the web asks for no reply.
Reply == IF actor.client = "web" THEN UNCHANGED task ELSE Goto(actor.client, Finish)

\* handle_sync: the credential may be missing; the key is inserted before
\* the cloud has confirmed, and taken out again when it refuses.
SyncInsert ==
  /\ Alive /\ actor.at = "insert"
  /\ \/ /\ Reply
        /\ actor' = Idle
        /\ UNCHANGED <<synced, saved>>
     \/ /\ synced' = synced \cup {actor.id}
        /\ actor' = [actor EXCEPT !.at = "confirm"]
        /\ saved' = IF actor.client = "web" THEN saved ELSE "memory"
        /\ UNCHANGED task
  /\ UNCHANGED <<terminals, views, locks, cloud, flusher, life, unswept>>

\* Mutant of SyncConfirm: a refused sync leaves its key in the synced set.
SyncConfirmKeepsKey ==
  /\ Alive /\ actor.at = "confirm"
  /\ cloud' = cloud \cup {actor.id} \/ UNCHANGED cloud
  /\ Reply
  /\ actor' = Idle
  /\ UNCHANGED <<terminals, views, synced, locks, flusher, life, saved, unswept>>

SyncConfirm ==
  /\ Alive /\ actor.at = "confirm"
  /\ \/ cloud' = cloud \cup {actor.id} /\ UNCHANGED <<synced, saved>>
     \/ /\ synced' = synced \ {actor.id}
        /\ saved' = IF actor.client = "web" THEN saved ELSE "memory"
        /\ UNCHANGED cloud
  /\ Reply
  /\ actor' = Idle
  /\ UNCHANGED <<terminals, views, locks, flusher, life, unswept>>

\* Mutant of Unsync: only the manager forgets the terminal.
UnsyncKeepsKey(k) == cloud' = cloud \ {k} /\ UNCHANGED synced

\* handle_unsync: the cloud must confirm before anything changes.
Unsync(k) == synced' = synced \ {k} /\ cloud' = cloud \ {k}

ActorUnsync(c) ==
  /\ ActorFree /\ task[c].at = "unsync"
  /\ \/ UNCHANGED <<synced, cloud, saved>>
     \/ task[c].id \in cloud /\ Unsync(task[c].id) /\ Announced
  /\ Goto(c, Finish)
  /\ UNCHANGED <<terminals, views, locks, actor, flusher, life, unswept>>

\* A reader reached the end of its PTY: the shell exited or was killed.
\* The terminal stays in TerminalManager and the persister is not notified.
TerminalExited(k) ==
  /\ "Exited" \in Ops /\ ActorFree /\ k \in cloud
  /\ Unsync(k)
  /\ UNCHANGED <<terminals, views, locks, task, actor, flusher, life, saved, unswept>>

\* terminal.create from the web: create, look up again, sync.
WebCreate(name) ==
  /\ "WebCreate" \in Ops /\ ActorFree /\ MgrFree
  /\ \E i \in FreshTermIds(terminals) :
       Create(i, name) /\ actor' = [at |-> "web_sync", id |-> i]
  /\ UNCHANGED <<views, synced, locks, task, cloud, flusher, life, saved>>

\* Mutant of WebSync: the key is the terminal's name, which it may lack.
WebSyncByName ==
  /\ Alive /\ actor.at = "web_sync" /\ MgrFree
  /\ \/ actor' = Idle
     \/ \E i \in TermMatches(terminals, actor.id) :
          actor' = [at |-> "insert", id |-> terminals[i], client |-> "web"]
  /\ UNCHANGED <<tables, locks, task, cloud, flusher, life, saved, unswept>>

WebSync ==
  /\ Alive /\ actor.at = "web_sync" /\ MgrFree
  /\ \/ actor' = Idle         \* no such terminal, or its reader cannot be cloned
     \/ /\ HasTerminal(terminals, actor.id)
        /\ actor' = [at |-> "insert", id |-> actor.id, client |-> "web"]
  /\ UNCHANGED <<tables, locks, task, cloud, flusher, life, saved, unswept>>

\* terminal.kill from the web: unsync if synced, whatever comes of it, then
\* kill.  No view is swept and the persister is not notified.
WebKill(k) ==
  /\ "WebKill" \in Ops /\ ActorFree
  /\ \/ UNCHANGED <<synced, cloud>>
     \/ k \in cloud /\ Unsync(k)
  /\ actor' = [at |-> "web_kill", id |-> k]
  /\ UNCHANGED <<terminals, views, locks, task, flusher, life, saved, unswept>>

WebKillTerminal ==
  /\ Alive /\ actor.at = "web_kill" /\ MgrFree
  /\ \/ ~HasTerminal(terminals, actor.id) /\ UNCHANGED <<terminals, unswept>>
     \/ \E i \in TermMatches(terminals, actor.id) : Kill(i, {})
  /\ actor' = Idle
  /\ UNCHANGED <<views, synced, locks, task, cloud, flusher, life, saved>>

-----------------------------------------------------------------------------
(* The persister task: wait for a permit, sleep, lock the three tables,    *)
(* copy them, release, write the file.                                     *)

PersisterWake ==
  /\ Alive /\ persister = "waiting" /\ trigger
  /\ trigger' = FALSE
  /\ persister' = "debounce" /\ debounce' = Debounce
  /\ UNCHANGED <<tables, locks, task, cloud, actor, image, disk, life, saved, unswept>>

PersisterLockTerminals ==
  /\ Alive /\ persister = "debounce" /\ debounce = 0 /\ MgrFree
  /\ mgrLock' = "persister"
  /\ persister' = "locking_views"
  /\ UNCHANGED <<tables, vmgrLock, task, cloud, actor, trigger, debounce, image,
                 disk, life, saved, unswept>>

PersisterLockViews ==
  /\ Alive /\ persister = "locking_views" /\ VmgrFree
  /\ vmgrLock' = "persister"
  /\ persister' = "locking_synced"
  /\ UNCHANGED <<tables, mgrLock, task, cloud, actor, trigger, debounce, image,
                 disk, life, saved, unswept>>

Snapshot ==
  /\ Alive /\ persister = "locking_synced"
  /\ image' = synced
  /\ saved' = IF saved = "memory" THEN "image" ELSE saved
  /\ mgrLock' = "free" /\ vmgrLock' = "free"
  /\ persister' = "saving"
  /\ UNCHANGED <<tables, task, cloud, actor, trigger, debounce, disk, life, unswept>>

\* fs::write truncates, then writes; its error is dropped.  A file cut short
\* does not parse, and load() falls back to the empty state.
SaveTruncate ==
  /\ Alive /\ persister = "saving"
  /\ disk' = {}
  /\ persister' = "writing"
  /\ UNCHANGED <<tables, locks, task, cloud, actor, trigger, debounce, image,
                 life, saved, unswept>>

\* Mutant of SaveWrite: permits stored while the file was written are dropped.
SaveWriteDropsPermit ==
  /\ Alive /\ persister = "writing"
  /\ disk' = image
  /\ saved' = IF saved = "image" THEN "file" ELSE saved
  /\ persister' = "waiting"
  /\ trigger' = FALSE
  /\ UNCHANGED <<tables, locks, task, cloud, actor, debounce, image, life, unswept>>

SaveWrite ==
  /\ Alive /\ persister = "writing"
  /\ \/ /\ disk' = image
        /\ saved' = IF saved = "image" THEN "file" ELSE saved
     \/ "WriteFails" \in Ops /\ UNCHANGED <<disk, saved>>
  /\ persister' = "waiting"
  /\ UNCHANGED <<tables, locks, task, cloud, actor, trigger, debounce, image,
                 life, unswept>>

Tick ==
  /\ Alive /\ debounce + grace > 0
  /\ debounce' = IF debounce > 0 THEN debounce - 1 ELSE 0
  /\ grace' = IF grace > 0 THEN grace - 1 ELSE 0
  /\ UNCHANGED <<tables, locks, task, cloud, actor, trigger, persister, image,
                 disk, server, restored, saved, unswept>>

-----------------------------------------------------------------------------
(* Life cycle.                                                             *)

\* ServerStop, SIGTERM or SIGINT: the accept loop ends, shutdown() notifies
\* the persister and sleeps.  Connections accepted before go on.
Stop ==
  /\ "Stop" \in Ops /\ server = "up"
  /\ server' = "grace" /\ grace' = Grace
  /\ trigger' = TRUE
  /\ UNCHANGED <<tables, locks, task, cloud, actor, persister, debounce, image,
                 disk, restored, saved, unswept>>

ShutdownKill ==
  /\ server = "grace" /\ grace = 0 /\ MgrFree
  /\ terminals' = EmptyTable
  /\ unswept' = TermRefs
  /\ server' = "exiting"
  /\ UNCHANGED <<views, synced, locks, task, cloud, actor, flusher, grace, restored, saved>>

Exit ==
  /\ server = "exiting"
  /\ server' = "stopped"
  /\ UNCHANGED <<tables, locks, task, cloud, actor, flusher, grace, restored, saved, unswept>>

Crash ==
  /\ "Crash" \in Ops /\ Alive
  /\ server' = "crashed"
  /\ UNCHANGED <<tables, locks, task, cloud, actor, flusher, grace, restored, saved, unswept>>

\* Server::start: load the synced set, then delete state.json.  Everything
\* else begins empty.
Restart ==
  /\ "Restart" \in Ops /\ server \in {"stopped", "crashed"}
  /\ terminals' = EmptyTable /\ views' = EmptyTable
  /\ synced' = disk /\ restored' = disk /\ disk' = {}
  /\ mgrLock' = "free" /\ vmgrLock' = "free"
  /\ task' = [c \in Clients |-> Idle]
  /\ cloud' = {} /\ actor' = Idle
  /\ trigger' = FALSE /\ persister' = "waiting" /\ debounce' = 0 /\ image' = {}
  /\ server' = "up" /\ grace' = 0
  /\ saved' = "file" /\ unswept' = {}

-----------------------------------------------------------------------------
TerminalRequest(c) ==
  \/ \E name \in MaybeTermName : TerminalCreate(c, name) \/ MuxCreate(c, name)
  \/ \E ref \in TermRefs : \/ TerminalKill(c, ref) \/ MuxKill(c, ref)
                           \/ TerminalSync(c, ref) \/ TerminalUnsync(c, ref)

ViewRequest(c) ==
  \/ \E name \in MaybeViewName, ref \in TermRefs : ViewCreate(c, name, ref)
  \/ \E vref \in ViewRefs :
       \/ ViewDelete(c, vref)
       \/ \E ref \in TermRefs :
            \/ ViewAddTerminal(c, vref, ref)
            \/ ViewRemoveTerminal(c, vref, ref)
            \/ \E layout \in Layouts : ViewUpdateLayout(c, vref, layout, ref)

\* The rest of a request that has begun to change the tables.
Continue(c) == KillViews(c) \/ MuxKillViews(c) \/ ViewInsert(c) \/ ViewAdd(c) \/ Notify(c)

CloudStep ==
  \/ \E c \in Clients : ActorTakeSync(c) \/ ActorUnsync(c)
  \/ SyncInsert \/ SyncConfirm \/ WebSync \/ WebKillTerminal
  \/ \E k \in TermRefs : TerminalExited(k) \/ WebKill(k)
  \/ \E name \in MaybeTermName : WebCreate(name)

PersisterStep ==
  \/ PersisterWake \/ PersisterLockTerminals \/ PersisterLockViews
  \/ Snapshot \/ SaveTruncate \/ SaveWrite

LifeStep == Stop \/ ShutdownKill \/ Exit \/ Crash \/ Restart

Next ==
  \/ \E c \in Clients : TerminalRequest(c) \/ ViewRequest(c) \/ Continue(c)
  \/ CloudStep \/ PersisterStep \/ Tick \/ LifeStep

\* tokio schedules every ready task, so a handler, the persister and the
\* clock go on; its Mutex serves waiters in order, so a task waiting for a
\* lock that keeps becoming free gets it.  A task waits at one place at a
\* time, so fairness of its steps together is fairness of each.  Nothing is
\* assumed of clients, of the cloud manager (it waits for a remote server) or
\* of the life cycle.
Fairness ==
  /\ \A c \in Clients : SF_vars(Continue(c))
  /\ SF_vars(PersisterStep)
  /\ WF_vars(Tick)

Spec == Init /\ [][Next]_vars /\ Fairness

-----------------------------------------------------------------------------
(* Properties *)

\* Every variable stays in its type.
TypeOK ==
  /\ IsTable(terminals, TermIds, MaybeTermName)
  /\ IsTable(views, ViewIds, View)
  /\ synced \subseteq TermRefs /\ cloud \subseteq TermRefs
  /\ mgrLock \in Clients \cup {"free", "persister"}
  /\ vmgrLock \in Clients \cup {"free", "persister"}
  /\ task \in [Clients -> Task]
  /\ actor \in Actor
  /\ trigger \in BOOLEAN
  /\ persister \in {"waiting", "debounce", "locking_views", "locking_synced",
                   "saving", "writing"}
  /\ debounce \in 0..Debounce /\ grace \in 0..Grace
  /\ image \subseteq TermRefs /\ disk \subseteq TermRefs
  /\ server \in {"up", "grace", "exiting", "stopped", "crashed"}
  /\ saved \in {"memory", "image", "file"}
  /\ unswept \subseteq TermRefs /\ restored \subseteq TermRefs

\* The locks are held by exactly the tasks that are between a lock() and the
\* end of its guard: a kill that has yet to sweep the views, and the
\* persister while it collects its locks (server/mod.rs, server/state.rs).
LockDiscipline ==
  /\ \A c \in Clients : mgrLock = c <=> task[c].at = "kill_views"
  /\ mgrLock = "persister" <=> persister \in {"locking_views", "locking_synced"}
  /\ vmgrLock = "persister" <=> persister = "locking_synced"
  /\ vmgrLock \in {"free", "persister"}

\* A snapshot never shows half of a kill made by TerminalKill, the terminal
\* gone and the views not yet swept.  (A mux session's kill can be seen so.)
NoHalfKillInSnapshot ==
  persister \in {"locking_views", "locking_synced"}
    => \A c \in Clients : task[c].at # "kill_views"

\* A change announced to the persister is never forgotten: while it is only
\* in memory a permit is stored, or the persister is on its way to a
\* snapshot, or the handler that made it has yet to notify; while it is only
\* in the snapshot, the snapshot is being written.
NoLostNotify ==
  /\ Alive /\ saved = "memory" =>
       \/ trigger
       \/ persister \in {"debounce", "locking_views", "locking_synced"}
       \/ \E c \in Clients :
            task[c].at \in {"finish", "kill_views", "mux_kill_views", "in_actor"}
  /\ Alive /\ saved = "image" /\ "WriteFails" \notin Ops =>
       persister \in {"saving", "writing"}

\* A view lists a terminal that does not exist only because a kill is about
\* to sweep the views, or because a kill left the entry behind: it was made
\* by another of the terminal's references, from the web, or while the
\* handler adding the entry had checked the terminal and not yet added it.
\* Those three do leave entries of dead terminals; nothing else does.
DanglingExplained ==
  \A v \in DOMAIN views : \A x \in views[v].terminal_ids :
    \/ HasTerminal(terminals, x)
    \/ x \in unswept
    \/ \E c \in Clients : /\ task[c].at \in {"kill_views", "mux_kill_views"}
                        /\ task[c].id = x

\* What makes DanglingExplained inductive: a handler about to put a terminal
\* in a view has one that exists, or one whose kill is known to have missed it.
PendingExplained ==
  \A c \in Clients :
    task[c].at \in {"view_create", "view_add"} =>
      HasTerminal(terminals, task[c].terminal_id) \/ task[c].terminal_id \in unswept

\* The synced set holds only what the cloud manager holds, what start() read
\* back from state.json, and the terminal whose sync is being confirmed.  What
\* a crash lost is another matter: start() reads whatever the disk held.
SyncedExplained ==
  synced \subseteq cloud \cup restored
                  \cup (IF actor.at = "confirm" THEN {actor.id} ELSE {})

\* Through handlers, exits, web requests and restarts the synced set changes
\* only as SyncedTerminals promises, which CloudManager implements as well.
Syncs == INSTANCE SyncedTerminals WITH
  Keys <- TermRefs, held <- cloud, alive <- Alive,
  pending <- IF actor.at = "confirm" THEN actor.id ELSE None

SyncsAsPromised == Syncs!Spec

\* An announced change is eventually taken into a snapshot, however many
\* changes follow it: notifications do not push the snapshot back.
AnnouncedIsSnapshot == saved = "memory" ~> saved # "memory"

\* Once clients stop making requests, state.json has every announced change.
QuietIsSaved == \/ []<>(\E c \in Clients : task[c] # Idle)
                \/ <>[](saved = "file")

\* A request that has begun to change the tables ends, whatever other
\* connections and the persister do with the two locks.
RequestsEnd ==
  \A c \in Clients :
    task[c].at \in {"kill_views", "mux_kill_views", "view_create", "view_add"}
      ~> task[c] = Idle

\* "Save final state" (server/mod.rs, shutdown): a server that has stopped
\* with no request in progress leaves the synced set in state.json.
FinalStateSaved ==
  server = "stopped" /\ actor = Idle /\ (\A c \in Clients : task[c] = Idle)
    => disk = synced

=============================================================================
