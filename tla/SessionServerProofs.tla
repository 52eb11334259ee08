------------------------- MODULE SessionServerProofs -------------------------
(* What holds of SessionServer for every value of its constants.           *)
EXTENDS SessionServer, TLAPS

-----------------------------------------------------------------------------
(* The operations of the two managers keep their tables well typed.        *)

\* Inserting an entry of the right type into a table.
LEMMA PutType ==
  ASSUME NEW f, NEW Keys, NEW Entry, IsTable(f, Keys, Entry),
         NEW k \in Keys, NEW e \in Entry
  PROVE  IsTable(Put(f, k, e), Keys, Entry)
  BY DEF IsTable, Put

\* Removing an entry from a table.
LEMMA DropType ==
  ASSUME NEW f, NEW Keys, NEW Entry, IsTable(f, Keys, Entry), NEW k
  PROVE  IsTable(Drop(f, k), Keys, Entry)
  BY DEF IsTable, Drop, Restrict

\* The empty table of a server that starts.
LEMMA EmptyType ==
  ASSUME NEW Keys, NEW Entry
  PROVE  IsTable(EmptyTable, Keys, Entry)
  BY DEF IsTable, EmptyTable

\* ViewManager's updates of an entry keep the table of views well typed.
LEMMA ViewOpsType ==
  ASSUME NEW vs, IsTable(vs, ViewIds, View), NEW t \in TermRefs
  PROVE  /\ \A v : IsTable(RemoveTerminalFromView(vs, v, t), ViewIds, View)
         /\ \A v \in DOMAIN vs : IsTable(AddTerminal(vs, v, t), ViewIds, View)
         /\ IsTable(RemoveTerminal(vs, t), ViewIds, View)
         /\ \A v : \A l \in Layouts : IsTable(UpdateLayout(vs, v, l, t), ViewIds, View)
         /\ \A n \in MaybeViewName : NewView(n, t) \in View
<1> USE DEF IsTable, View
<1>1. \A v : IsTable(RemoveTerminalFromView(vs, v, t), ViewIds, View)
  BY DEF RemoveTerminalFromView
<1>2. \A v \in DOMAIN vs : IsTable(AddTerminal(vs, v, t), ViewIds, View)
  BY DEF AddTerminal
<1>3. IsTable(RemoveTerminal(vs, t), ViewIds, View)
  BY DEF RemoveTerminal
<1>4. \A v : \A l \in Layouts : IsTable(UpdateLayout(vs, v, l, t), ViewIds, View)
  <2>1. ASSUME NEW v, NEW l \in Layouts, v \in DOMAIN vs
        PROVE  IsTable([vs EXCEPT ![v].layout = l, ![v].focused = t], ViewIds, View)
    BY <2>1
  <2>2. QED
    BY <2>1 DEF UpdateLayout
<1>5. \A n \in MaybeViewName : NewView(n, t) \in View
  BY DEF NewView
<1>6. QED
  BY <1>1, <1>2, <1>3, <1>4, <1>5

-----------------------------------------------------------------------------
(* TypeOK.                                                                 *)

\* A handler's program counter is moved within its type.
LEMMA TaskTypes ==
  /\ Idle \in Task /\ Finish \in Task /\ [at |-> "in_actor"] \in Task
  /\ \A r \in TermRefs, a \in {"kill_views", "mux_kill_views", "sync", "unsync"} :
       [at |-> a, id |-> r] \in Task
  /\ \A n \in MaybeViewName, r \in TermRefs :
       [at |-> "view_create", name |-> n, terminal_id |-> r] \in Task
  /\ \A v \in ViewRefs, r \in TermRefs :
       [at |-> "view_add", view_id |-> v, terminal_id |-> r] \in Task
  BY DEF Task, Idle, Finish

\* What a handler's program counter says of the fields beside it.
LEMMA TaskFields ==
  ASSUME NEW t \in Task
  PROVE  /\ t.at \in {"kill_views", "mux_kill_views", "sync", "unsync"} => t.id \in TermRefs
         /\ t.at = "view_create" => t.name \in MaybeViewName /\ t.terminal_id \in TermRefs
         /\ t.at = "view_add" => t.view_id \in ViewRefs /\ t.terminal_id \in TermRefs
  BY DEF Task

\* The same of the cloud manager's task.
LEMMA ActorFields ==
  ASSUME NEW a \in Actor
  PROVE  /\ a.at \in {"insert", "confirm", "web_sync", "web_kill"} => a.id \in TermRefs
         /\ a.at \in {"insert", "confirm"} => a.client \in Clients \cup {"web"}
         /\ a.at = "insert" => [a EXCEPT !.at = "confirm"] \in Actor
  BY DEF Actor

LEMMA InitType == Init => TypeOK
<1> SUFFICES ASSUME Init PROVE TypeOK
  OBVIOUS
<1>1. /\ IsTable(terminals, TermIds, MaybeTermName)
      /\ IsTable(views, ViewIds, View)
  BY EmptyType DEF Init
<1>2. task \in [Clients -> Task] /\ actor \in Actor
  BY DEF Init, Idle, Task, Actor
<1>3. debounce \in 0..Debounce /\ grace \in 0..Grace
  BY TimeAssumption DEF Init
<1>4. trigger \in BOOLEAN
  BY Zenon DEF Init
<1>5. QED
  BY <1>1, <1>2, <1>3, <1>4 DEF Init, TypeOK

\* Creating and killing a terminal.
LEMMA CreateType ==
  ASSUME TypeOK, NEW i \in TermIds, NEW name \in MaybeTermName, Create(i, name)
  PROVE  IsTable(terminals', TermIds, MaybeTermName) /\ unswept' \subseteq TermRefs
  BY PutType DEF TypeOK, Create

LEMMA KillType ==
  ASSUME TypeOK, NEW i \in DOMAIN terminals, NEW swept, Kill(i, swept)
  PROVE  IsTable(terminals', TermIds, MaybeTermName) /\ unswept' \subseteq TermRefs
  BY DropType DEF TypeOK, Kill

\* A reference matches ids of the table only.
LEMMA MatchesInDomain ==
  ASSUME NEW f, NEW ref
  PROVE  /\ TermMatches(f, ref) \subseteq DOMAIN f
         /\ ViewMatches(f, ref) \subseteq DOMAIN f
  BY DEF TermMatches, ViewMatches

\* Every step of a terminal request keeps the types.
LEMMA TerminalRequestType ==
  ASSUME TypeOK, NEW c \in Clients, TerminalRequest(c)
  PROVE  TypeOK'
<1> USE DEF tables, locks, flusher, life, Goto, Announced
<1>1. ASSUME NEW name \in MaybeTermName, TerminalCreate(c, name) PROVE TypeOK'
  <2>1. IsTable(terminals', TermIds, MaybeTermName) /\ unswept' \subseteq TermRefs
    BY <1>1, CreateType DEF TerminalCreate, TypeOK, FreshTermIds
  <2>2. QED
    BY <1>1, <2>1, TaskTypes DEF TerminalCreate, TypeOK
<1>2. ASSUME NEW name \in MaybeTermName, MuxCreate(c, name) PROVE TypeOK'
  <2>1. IsTable(terminals', TermIds, MaybeTermName) /\ unswept' \subseteq TermRefs
    BY <1>2, CreateType DEF MuxCreate, FreshTermIds
  <2>2. QED
    BY <1>2, <2>1, TaskTypes DEF MuxCreate, TypeOK
<1>3. ASSUME NEW ref \in TermRefs, TerminalKill(c, ref) PROVE TypeOK'
  <2>1. IsTable(terminals', TermIds, MaybeTermName) /\ unswept' \subseteq TermRefs
    BY <1>3, KillType, MatchesInDomain DEF TerminalKill, TypeOK
  <2>2. task' \in [Clients -> Task]
    BY <1>3, TaskTypes DEF TerminalKill, TypeOK
  <2>3. QED
    BY <1>3, <2>1, <2>2 DEF TerminalKill, TypeOK
<1>4. ASSUME NEW ref \in TermRefs, MuxKill(c, ref) PROVE TypeOK'
  <2>1. IsTable(terminals', TermIds, MaybeTermName) /\ unswept' \subseteq TermRefs
    BY <1>4, KillType, MatchesInDomain DEF MuxKill
  <2>2. QED
    BY <1>4, <2>1, TaskTypes DEF MuxKill, TypeOK
<1>5. ASSUME NEW ref \in TermRefs, TerminalSync(c, ref) PROVE TypeOK'
  <2>1. task' \in [Clients -> Task]
    BY <1>5, TaskTypes DEF TerminalSync, TypeOK
  <2>2. QED
    BY <1>5, <2>1 DEF TerminalSync, TypeOK
<1>6. ASSUME NEW ref \in TermRefs, TerminalUnsync(c, ref) PROVE TypeOK'
  <2>1. task' \in [Clients -> Task]
    BY <1>6, TaskTypes DEF TerminalUnsync, TypeOK
  <2>2. QED
    BY <1>6, <2>1 DEF TerminalUnsync, TypeOK
<1>7. QED
  BY <1>1, <1>2, <1>3, <1>4, <1>5, <1>6 DEF TerminalRequest

\* Every first step of a view request keeps the types.
LEMMA ViewRequestType ==
  ASSUME TypeOK, NEW c \in Clients, ViewRequest(c)
  PROVE  TypeOK'
<1> USE DEF tables, locks, flusher, life, Goto, Announced
<1>1. ASSUME NEW name \in MaybeViewName, NEW ref \in TermRefs, ViewCreate(c, name, ref)
      PROVE  TypeOK'
  BY <1>1, TaskTypes DEF ViewCreate, TypeOK
<1>2. ASSUME NEW vref \in ViewRefs, ViewDelete(c, vref) PROVE TypeOK'
  <2>1. IsTable(views', ViewIds, View)
    BY <1>2, DropType DEF ViewDelete, TypeOK
  <2>2. QED
    BY <1>2, <2>1, TaskTypes DEF ViewDelete, TypeOK
<1>3. ASSUME NEW vref \in ViewRefs, NEW ref \in TermRefs, ViewAddTerminal(c, vref, ref)
      PROVE  TypeOK'
  BY <1>3, TaskTypes DEF ViewAddTerminal, TypeOK
<1>4. ASSUME NEW vref \in ViewRefs, NEW ref \in TermRefs, ViewRemoveTerminal(c, vref, ref)
      PROVE  TypeOK'
  <2>1. IsTable(views', ViewIds, View)
    BY <1>4, ViewOpsType DEF ViewRemoveTerminal, TypeOK
  <2>2. QED
    BY <1>4, <2>1, TaskTypes DEF ViewRemoveTerminal, TypeOK
<1>5. ASSUME NEW vref \in ViewRefs, NEW ref \in TermRefs, NEW l \in Layouts,
             ViewUpdateLayout(c, vref, l, ref)
      PROVE  TypeOK'
  <2>1. IsTable(views', ViewIds, View)
    BY <1>5, ViewOpsType DEF ViewUpdateLayout, TypeOK
  <2>2. QED
    BY <1>5, <2>1, TaskTypes DEF ViewUpdateLayout, TypeOK
<1>6. QED
  BY <1>1, <1>2, <1>3, <1>4, <1>5 DEF ViewRequest

\* So does every later step of a request.
LEMMA ContinueType ==
  ASSUME TypeOK, NEW c \in Clients, Continue(c)
  PROVE  TypeOK'
<1> USE DEF tables, locks, flusher, life, Goto, Announced
<1>0. task[c] \in Task
  BY DEF TypeOK
<1>1. CASE KillViews(c)
  <2>1. IsTable(views', ViewIds, View)
    BY <1>0, <1>1, ViewOpsType, TaskFields DEF KillViews, TypeOK
  <2>2. QED
    BY <1>1, <2>1, TaskTypes DEF KillViews, TypeOK
<1>2. CASE MuxKillViews(c)
  <2>1. IsTable(views', ViewIds, View)
    BY <1>0, <1>2, ViewOpsType, TaskFields DEF MuxKillViews, TypeOK
  <2>2. QED
    BY <1>2, <2>1, TaskTypes DEF MuxKillViews, TypeOK
<1>3. CASE ViewInsert(c)
  <2>1. NewView(task[c].name, task[c].terminal_id) \in View
    BY <1>0, <1>3, ViewOpsType, TaskFields DEF ViewInsert, TypeOK
  <2>2. IsTable(views', ViewIds, View)
    BY <1>3, <2>1, PutType DEF ViewInsert, FreshViewIds, TypeOK
  <2>3. QED
    BY <1>3, <2>2, TaskTypes DEF ViewInsert, TypeOK
<1>4. CASE ViewAdd(c)
  <2>1. task[c].terminal_id \in TermRefs
    BY <1>0, <1>4, TaskFields DEF ViewAdd
  <2>2. IsTable(views', ViewIds, View)
    BY <1>4, <2>1, ViewOpsType, MatchesInDomain DEF ViewAdd, TypeOK
  <2>3. QED
    BY <1>4, <2>2, TaskTypes DEF ViewAdd, TypeOK
<1>5. CASE Notify(c)
  BY <1>5, TaskTypes DEF Notify, TypeOK
<1>6. QED
  BY <1>1, <1>2, <1>3, <1>4, <1>5 DEF Continue

\* And the cloud manager's task.
LEMMA CloudStepType ==
  ASSUME TypeOK, CloudStep
  PROVE  TypeOK'
<1> USE DEF tables, locks, flusher, life, Goto, Announced
<1>0. Idle \in Actor
  BY DEF Idle, Actor
<1>r. ASSUME Reply, actor.at \in {"insert", "confirm"} PROVE task' \in [Clients -> Task]
  BY <1>r, ActorFields, TaskTypes DEF Reply, TypeOK
<1>1. ASSUME NEW c \in Clients, ActorTakeSync(c) PROVE TypeOK'
  <2>1. task[c].id \in TermRefs
    BY <1>1, TaskFields DEF ActorTakeSync, TypeOK
  <2>2. actor' \in Actor
    BY <1>1, <2>1 DEF ActorTakeSync, Actor
  <2>3. QED
    BY <1>1, <2>2, TaskTypes DEF ActorTakeSync, TypeOK
<1>2. ASSUME NEW c \in Clients, ActorUnsync(c) PROVE TypeOK'
  BY <1>2, TaskTypes DEF ActorUnsync, Unsync, TypeOK
<1>3. CASE SyncInsert
  <2>1. actor' \in Actor
    BY <1>0, <1>3, ActorFields DEF SyncInsert, TypeOK
  <2>2. task' \in [Clients -> Task]
    BY <1>3, <1>r DEF SyncInsert, TypeOK
  <2>3. synced' \subseteq TermRefs
    BY <1>3, ActorFields DEF SyncInsert, TypeOK
  <2>4. QED
    BY <1>3, <2>1, <2>2, <2>3 DEF SyncInsert, TypeOK
<1>4. CASE SyncConfirm
  <2>1. task' \in [Clients -> Task]
    BY <1>4, <1>r DEF SyncConfirm
  <2>2. synced' \subseteq TermRefs /\ cloud' \subseteq TermRefs
    BY <1>4, ActorFields DEF SyncConfirm, TypeOK
  <2>3. QED
    BY <1>0, <1>4, <2>1, <2>2 DEF SyncConfirm, TypeOK
<1>5. CASE WebSync
  <2>1. actor' \in Actor
    BY <1>0, <1>5, ActorFields DEF WebSync, TypeOK, Actor
  <2>2. QED
    BY <1>5, <2>1 DEF WebSync, TypeOK
<1>6. CASE WebKillTerminal
  <2>1. IsTable(terminals', TermIds, MaybeTermName) /\ unswept' \subseteq TermRefs
    BY <1>6, KillType, MatchesInDomain DEF WebKillTerminal, TypeOK
  <2>2. QED
    BY <1>0, <1>6, <2>1 DEF WebKillTerminal, TypeOK
<1>7. ASSUME NEW k \in TermRefs, TerminalExited(k) PROVE TypeOK'
  BY <1>7 DEF TerminalExited, Unsync, TypeOK
<1>8. ASSUME NEW k \in TermRefs, WebKill(k) PROVE TypeOK'
  <2>1. actor' \in Actor
    BY <1>8 DEF WebKill, Actor
  <2>2. QED
    BY <1>8, <2>1 DEF WebKill, Unsync, TypeOK
<1>9. ASSUME NEW name \in MaybeTermName, WebCreate(name) PROVE TypeOK'
  <2>1. PICK i \in FreshTermIds(terminals) :
          Create(i, name) /\ actor' = [at |-> "web_sync", id |-> i]
    BY <1>9 DEF WebCreate
  <2>2. i \in TermIds
    BY DEF FreshTermIds
  <2>3. IsTable(terminals', TermIds, MaybeTermName) /\ unswept' \subseteq TermRefs
    BY <2>1, <2>2, CreateType
  <2>4. actor' \in Actor
    BY <2>1, <2>2 DEF Actor, TermRefs
  <2>5. QED
    BY <1>9, <2>3, <2>4 DEF WebCreate, TypeOK
<1>10. QED
  BY <1>1, <1>2, <1>3, <1>4, <1>5, <1>6, <1>7, <1>8, <1>9 DEF CloudStep

\* And the persister, the clock and the life cycle.
LEMMA ServerStepType ==
  ASSUME TypeOK, PersisterStep \/ Tick \/ LifeStep
  PROVE  TypeOK'
<1> USE DEF tables, locks, flusher, life
<1>0. Idle \in Actor /\ 0 \in 0..Debounce /\ 0 \in 0..Grace
      /\ Debounce \in 0..Debounce /\ Grace \in 0..Grace
  BY TimeAssumption DEF Idle, Actor
<1>1. CASE PersisterWake
  BY <1>0, <1>1 DEF PersisterWake, TypeOK
<1>2. CASE PersisterLockTerminals \/ PersisterLockViews
  BY <1>2 DEF PersisterLockTerminals, PersisterLockViews, TypeOK
<1>3. CASE Snapshot \/ SaveTruncate \/ SaveWrite
  BY <1>3 DEF Snapshot, SaveTruncate, SaveWrite, TypeOK
<1>4. CASE Tick
  BY <1>4, TimeAssumption DEF Tick, TypeOK
<1>5. CASE Stop
  BY <1>0, <1>5 DEF Stop, TypeOK
<1>6. CASE ShutdownKill
  BY <1>6, EmptyType DEF ShutdownKill, TypeOK
<1>7. CASE Exit \/ Crash
  BY <1>7 DEF Exit, Crash, TypeOK
<1>8. CASE Restart
  <2>1. IsTable(terminals', TermIds, MaybeTermName) /\ IsTable(views', ViewIds, View)
    BY <1>8, EmptyType DEF Restart
  <2>2. task' \in [Clients -> Task]
    BY <1>8, TaskTypes DEF Restart
  <2>3. QED
    BY <1>0, <1>8, <2>1, <2>2 DEF Restart, TypeOK
<1>9. QED
  BY <1>1, <1>2, <1>3, <1>4, <1>5, <1>6, <1>7, <1>8 DEF PersisterStep, LifeStep

LEMMA NextType == TypeOK /\ [Next]_vars => TypeOK'
<1> SUFFICES ASSUME TypeOK, [Next]_vars PROVE TypeOK'
  OBVIOUS
<1>1. CASE UNCHANGED vars
  BY <1>1 DEF vars, tables, locks, flusher, life, TypeOK
<1>2. CASE Next
  BY <1>2, TerminalRequestType, ViewRequestType, ContinueType, CloudStepType,
     ServerStepType DEF Next
<1>3. QED
  BY <1>1, <1>2

\* The tables, locks, tasks and clocks of the server (server/mod.rs,
\* server/state.rs and the two managers) are always well typed: no step
\* leaves, say, a view with a field of another kind or a clock below zero.
THEOREM TypeCorrect == Spec => []TypeOK
  BY InitType, NextType, PTL DEF Spec

-----------------------------------------------------------------------------
(* The locks.  LockDiscipline is inductive as it stands.                   *)

\* A step that changes no lock, not the persister, and moves no task into or
\* out of a kill's second half keeps the discipline.
LEMMA LockFrame ==
  ASSUME LockDiscipline, UNCHANGED <<locks, persister>>,
         \A c \in Clients : task'[c].at = "kill_views" <=> task[c].at = "kill_views"
  PROVE  LockDiscipline'
  BY DEF LockDiscipline, locks

LEMMA TerminalRequestLocks ==
  ASSUME TypeOK, LockDiscipline, NEW c \in Clients, TerminalRequest(c)
  PROVE  LockDiscipline'
<1> USE DEF Goto, flusher, Idle, Finish, Ready
<1>0. task \in [Clients -> Task]
  BY DEF TypeOK
<1>1. ASSUME NEW name \in MaybeTermName, TerminalCreate(c, name) \/ MuxCreate(c, name)
      PROVE  LockDiscipline'
  BY <1>0, <1>1, LockFrame DEF TerminalCreate, MuxCreate
<1>2. ASSUME NEW ref \in TermRefs, TerminalKill(c, ref) PROVE LockDiscipline'
  <2>1. CASE ~HasTerminal(terminals, ref) /\ Goto(c, Finish) /\ UNCHANGED mgrLock
    BY <1>0, <1>2, <2>1, LockFrame DEF TerminalKill, locks
  <2>2. CASE mgrLock' = c /\ Goto(c, [at |-> "kill_views", id |-> ref])
    BY <1>0, <1>2, <2>2, ClientsAssumption DEF TerminalKill, MgrFree, LockDiscipline
  <2>3. QED
    BY <1>2, <2>1, <2>2 DEF TerminalKill
<1>3. ASSUME NEW ref \in TermRefs,
             MuxKill(c, ref) \/ TerminalSync(c, ref) \/ TerminalUnsync(c, ref)
      PROVE  LockDiscipline'
  BY <1>0, <1>3, LockFrame DEF MuxKill, TerminalSync, TerminalUnsync
<1>4. QED
  BY <1>1, <1>2, <1>3 DEF TerminalRequest

LEMMA ViewRequestLocks ==
  ASSUME TypeOK, LockDiscipline, NEW c \in Clients, ViewRequest(c)
  PROVE  LockDiscipline'
<1> USE LockFrame DEF Goto, flusher, Idle, Finish, Ready
<1>0. task \in [Clients -> Task]
  BY DEF TypeOK
<1>1. ASSUME NEW name \in MaybeViewName, NEW ref \in TermRefs, ViewCreate(c, name, ref)
      PROVE  LockDiscipline'
  BY <1>0, <1>1 DEF ViewCreate
<1>2. ASSUME NEW vref \in ViewRefs, ViewDelete(c, vref) PROVE LockDiscipline'
  BY <1>0, <1>2 DEF ViewDelete
<1>3. ASSUME NEW vref \in ViewRefs, NEW ref \in TermRefs,
             ViewAddTerminal(c, vref, ref) \/ ViewRemoveTerminal(c, vref, ref)
      PROVE  LockDiscipline'
  BY <1>0, <1>3 DEF ViewAddTerminal, ViewRemoveTerminal
<1>4. ASSUME NEW vref \in ViewRefs, NEW ref \in TermRefs, NEW l \in Layouts,
             ViewUpdateLayout(c, vref, l, ref)
      PROVE  LockDiscipline'
  BY <1>0, <1>4 DEF ViewUpdateLayout
<1>5. QED
  BY <1>1, <1>2, <1>3, <1>4 DEF ViewRequest

LEMMA ContinueLocks ==
  ASSUME TypeOK, LockDiscipline, NEW c \in Clients, Continue(c)
  PROVE  LockDiscipline'
<1> USE DEF Goto, flusher, Idle, Finish
<1>0. task \in [Clients -> Task]
  BY DEF TypeOK
<1>1. CASE KillViews(c)
  BY <1>0, <1>1, ClientsAssumption DEF KillViews, LockDiscipline
<1>2. CASE MuxKillViews(c)
  BY <1>0, <1>2, LockFrame DEF MuxKillViews
<1>3. CASE ViewInsert(c)
  BY <1>0, <1>3, LockFrame DEF ViewInsert
<1>4. CASE ViewAdd(c)
  BY <1>0, <1>4, LockFrame DEF ViewAdd
<1>5. CASE Notify(c)
  BY <1>0, <1>5, LockFrame DEF Notify
<1>6. QED
  BY <1>1, <1>2, <1>3, <1>4, <1>5 DEF Continue

\* A client whose sync the cloud manager serves is not in a kill: this is the
\* only place where one task moves another.
ActorServes ==
  \A c \in Clients :
    actor.at \in {"insert", "confirm"} /\ actor.client = c => task[c].at = "in_actor"

LEMMA CloudStepLocks ==
  ASSUME TypeOK, ActorServes, LockDiscipline, CloudStep
  PROVE  LockDiscipline'
<1> USE DEF Goto, flusher, Idle, Finish
<1>0. task \in [Clients -> Task] /\ actor \in Actor
  BY DEF TypeOK
<1>1. ASSUME NEW c \in Clients, ActorTakeSync(c) \/ ActorUnsync(c) PROVE LockDiscipline'
  BY <1>0, <1>1, LockFrame DEF ActorTakeSync, ActorUnsync
<1>2. CASE SyncInsert
  BY <1>0, <1>2, LockFrame, ActorFields DEF SyncInsert, Reply, ActorServes
<1>3. CASE SyncConfirm
  BY <1>0, <1>3, LockFrame, ActorFields DEF SyncConfirm, Reply, ActorServes
<1>4. CASE WebSync \/ WebKillTerminal
  BY <1>4, LockFrame DEF WebSync, WebKillTerminal
<1>5. ASSUME NEW k \in TermRefs, TerminalExited(k) \/ WebKill(k) PROVE LockDiscipline'
  BY <1>5, LockFrame DEF TerminalExited, WebKill
<1>6. ASSUME NEW name \in MaybeTermName, WebCreate(name) PROVE LockDiscipline'
  BY <1>6, LockFrame DEF WebCreate
<1>7. QED
  BY <1>1, <1>2, <1>3, <1>4, <1>5, <1>6 DEF CloudStep

LEMMA ServerStepLocks ==
  ASSUME TypeOK, LockDiscipline, PersisterStep \/ Tick \/ LifeStep
  PROVE  LockDiscipline'
<1> USE DEF flusher, life, locks
<1>1. CASE PersisterWake \/ SaveTruncate \/ SaveWrite
  BY <1>1 DEF PersisterWake, SaveTruncate, SaveWrite, LockDiscipline
<1>2. CASE PersisterLockTerminals \/ PersisterLockViews
  BY <1>2, ClientsAssumption
     DEF PersisterLockTerminals, PersisterLockViews, MgrFree, VmgrFree, LockDiscipline
<1>3. CASE Snapshot
  BY <1>3, ClientsAssumption DEF Snapshot, LockDiscipline
<1>4. CASE Tick \/ Stop \/ ShutdownKill \/ Exit \/ Crash
  BY <1>4 DEF Tick, Stop, ShutdownKill, Exit, Crash, LockDiscipline
<1>5. CASE Restart
  BY <1>5, ClientsAssumption DEF Restart, Idle, LockDiscipline
<1>6. QED
  BY <1>1, <1>2, <1>3, <1>4, <1>5 DEF PersisterStep, LifeStep

\* The client of a sync in progress waits until the cloud manager replies.
LEMMA ActorServesStep ==
  TypeOK /\ ActorServes /\ [Next]_vars => ActorServes'
<1> SUFFICES ASSUME TypeOK, ActorServes, [Next]_vars PROVE ActorServes'
  OBVIOUS
<1> USE DEF Goto, Idle, Finish, ActorServes, Ready
<1>0. task \in [Clients -> Task] /\ actor \in Actor
  BY DEF TypeOK
<1>1. ASSUME NEW c \in Clients, TerminalRequest(c) PROVE ActorServes'
  <2>1. task[c] = Idle
    BY <1>1 DEF TerminalRequest, TerminalCreate, MuxCreate, TerminalKill, MuxKill,
       TerminalSync, TerminalUnsync
  <2>2. UNCHANGED actor
    BY <1>1 DEF TerminalRequest, TerminalCreate, MuxCreate, TerminalKill, MuxKill,
       TerminalSync, TerminalUnsync
  <2>3. \A d \in Clients \ {c} : task'[d] = task[d]
    BY <1>0, <1>1 DEF TerminalRequest, TerminalCreate, MuxCreate, TerminalKill,
       MuxKill, TerminalSync, TerminalUnsync
  <2>4. QED
    BY <2>1, <2>2, <2>3
<1>2. ASSUME NEW c \in Clients, ViewRequest(c) PROVE ActorServes'
  BY <1>0, <1>2 DEF ViewRequest, ViewCreate, ViewDelete, ViewAddTerminal,
     ViewRemoveTerminal, ViewUpdateLayout
<1>3. ASSUME NEW c \in Clients, Continue(c) PROVE ActorServes'
  BY <1>0, <1>3 DEF Continue, KillViews, MuxKillViews, ViewInsert, ViewAdd, Notify
<1>4. ASSUME NEW c \in Clients, ActorTakeSync(c) PROVE ActorServes'
  BY <1>0, <1>4 DEF ActorTakeSync
<1>5. ASSUME NEW c \in Clients, ActorUnsync(c) PROVE ActorServes'
  BY <1>0, <1>5 DEF ActorUnsync, ActorFree
<1>6. CASE SyncInsert
  BY <1>0, <1>6 DEF SyncInsert, Actor
<1>7. CASE SyncConfirm
  BY <1>0, <1>7 DEF SyncConfirm
<1>8. CASE WebSync
  BY <1>0, <1>8, ClientsAssumption DEF WebSync
<1>9. CASE WebKillTerminal \/ (\E k \in TermRefs : TerminalExited(k) \/ WebKill(k))
           \/ (\E name \in MaybeTermName : WebCreate(name))
  BY <1>9 DEF WebKillTerminal, TerminalExited, WebKill, WebCreate
<1>10. CASE PersisterStep \/ Tick
  BY <1>10 DEF PersisterStep, PersisterWake, PersisterLockTerminals,
     PersisterLockViews, Snapshot, SaveTruncate, SaveWrite, Tick
<1>11. CASE LifeStep
  BY <1>11 DEF LifeStep, Stop, ShutdownKill, Exit, Crash, Restart
<1>12. CASE UNCHANGED vars
  BY <1>12 DEF vars
<1>13. QED
  BY <1>1, <1>2, <1>3, <1>4, <1>5, <1>6, <1>7, <1>8, <1>9, <1>10, <1>11, <1>12
     DEF Next, CloudStep

LEMMA LocksStep ==
  TypeOK /\ ActorServes /\ LockDiscipline /\ [Next]_vars => LockDiscipline'
<1> SUFFICES ASSUME TypeOK, ActorServes, LockDiscipline, [Next]_vars
             PROVE  LockDiscipline'
  OBVIOUS
<1>1. CASE UNCHANGED vars
  BY <1>1 DEF vars, locks, flusher, LockDiscipline
<1>2. CASE Next
  BY <1>2, TerminalRequestLocks, ViewRequestLocks, ContinueLocks, CloudStepLocks,
     ServerStepLocks DEF Next
<1>3. QED
  BY <1>1, <1>2

\* The two locks are held by exactly the tasks that are between a lock() and
\* the end of its guard (server/mod.rs TerminalKill, server/state.rs).
THEOREM LocksCorrect == Spec => [](ActorServes /\ LockDiscipline)
<1>1. Init => ActorServes /\ LockDiscipline
  BY ClientsAssumption DEF Init, Idle, ActorServes, LockDiscipline
<1>2. QED
  BY <1>1, TypeCorrect, ActorServesStep, LocksStep, PTL DEF Spec

\* What the persister writes never shows a TerminalKill half done: while the
\* persister holds the terminal lock no kill waits to sweep the views.
THEOREM SnapshotSeesWholeKills == Spec => []NoHalfKillInSnapshot
<1>1. LockDiscipline => NoHalfKillInSnapshot
  BY ClientsAssumption DEF LockDiscipline, NoHalfKillInSnapshot
<1>2. QED
  BY <1>1, LocksCorrect, PTL

-----------------------------------------------------------------------------
(* Notifications.  NoLostNotify is inductive given the types.              *)

Owing(c) == task[c].at \in {"finish", "kill_views", "mux_kill_views", "in_actor"}

\* A step of a handler or of the cloud manager keeps NoLostNotify when whoever
\* owes a notification goes on owing it, and a new change has somebody owing.
LEMMA NotifyFrame ==
  ASSUME NoLostNotify, UNCHANGED <<flusher, server>>,
         \A c \in Clients : Owing(c) => Owing(c)',
         saved' = saved \/ (saved' = "memory" /\ \E c \in Clients : Owing(c)')
  PROVE  NoLostNotify'
  BY DEF NoLostNotify, Owing, flusher, Alive

LEMMA TerminalRequestNotify ==
  ASSUME TypeOK, NoLostNotify, NEW c \in Clients, TerminalRequest(c)
  PROVE  NoLostNotify'
<1> USE NotifyFrame DEF Goto, life, Idle, Finish, Ready, Owing, Announced
<1>0. task \in [Clients -> Task]
  BY DEF TypeOK
<1>1. ASSUME NEW name \in MaybeTermName, TerminalCreate(c, name) PROVE NoLostNotify'
  BY <1>0, <1>1 DEF TerminalCreate
<1>2. ASSUME NEW name \in MaybeTermName, MuxCreate(c, name) PROVE NoLostNotify'
  BY <1>0, <1>2 DEF MuxCreate
<1>3. ASSUME NEW ref \in TermRefs, TerminalKill(c, ref) PROVE NoLostNotify'
  BY <1>0, <1>3 DEF TerminalKill
<1>4. ASSUME NEW ref \in TermRefs, MuxKill(c, ref) PROVE NoLostNotify'
  BY <1>0, <1>4 DEF MuxKill
<1>5. ASSUME NEW ref \in TermRefs, TerminalSync(c, ref) \/ TerminalUnsync(c, ref)
      PROVE  NoLostNotify'
  BY <1>0, <1>5 DEF TerminalSync, TerminalUnsync
<1>6. QED
  BY <1>1, <1>2, <1>3, <1>4, <1>5 DEF TerminalRequest

LEMMA ViewRequestNotify ==
  ASSUME TypeOK, NoLostNotify, NEW c \in Clients, ViewRequest(c)
  PROVE  NoLostNotify'
<1> USE NotifyFrame DEF Goto, life, Idle, Finish, Ready, Owing, Announced
<1>0. task \in [Clients -> Task]
  BY DEF TypeOK
<1>1. ASSUME NEW name \in MaybeViewName, NEW ref \in TermRefs, ViewCreate(c, name, ref)
      PROVE  NoLostNotify'
  BY <1>0, <1>1 DEF ViewCreate
<1>2. ASSUME NEW vref \in ViewRefs, ViewDelete(c, vref) PROVE NoLostNotify'
  BY <1>0, <1>2 DEF ViewDelete
<1>3. ASSUME NEW vref \in ViewRefs, NEW ref \in TermRefs,
             ViewAddTerminal(c, vref, ref) \/ ViewRemoveTerminal(c, vref, ref)
      PROVE  NoLostNotify'
  BY <1>0, <1>3 DEF ViewAddTerminal, ViewRemoveTerminal
<1>4. ASSUME NEW vref \in ViewRefs, NEW ref \in TermRefs, NEW l \in Layouts,
             ViewUpdateLayout(c, vref, l, ref)
      PROVE  NoLostNotify'
  BY <1>0, <1>4 DEF ViewUpdateLayout
<1>5. QED
  BY <1>1, <1>2, <1>3, <1>4 DEF ViewRequest

LEMMA ContinueNotify ==
  ASSUME TypeOK, NoLostNotify, NEW c \in Clients, Continue(c)
  PROVE  NoLostNotify'
<1> USE DEF Goto, life, Idle, Finish, Owing, Announced
<1>0. task \in [Clients -> Task]
  BY DEF TypeOK
<1>1. CASE KillViews(c) \/ MuxKillViews(c)
  BY <1>0, <1>1, NotifyFrame DEF KillViews, MuxKillViews
<1>2. CASE ViewInsert(c)
  BY <1>0, <1>2, NotifyFrame DEF ViewInsert
<1>3. CASE ViewAdd(c)
  BY <1>0, <1>3, NotifyFrame DEF ViewAdd
<1>4. CASE Notify(c)
  BY <1>4 DEF Notify, NoLostNotify, Alive
<1>5. QED
  BY <1>1, <1>2, <1>3, <1>4 DEF Continue

LEMMA CloudStepNotify ==
  ASSUME TypeOK, ActorServes, NoLostNotify, CloudStep
  PROVE  NoLostNotify'
<1> USE NotifyFrame DEF Goto, life, Idle, Finish, Owing, Announced
<1>0. task \in [Clients -> Task] /\ actor \in Actor
  BY DEF TypeOK
<1>1. ASSUME NEW c \in Clients, ActorTakeSync(c) PROVE NoLostNotify'
  BY <1>0, <1>1 DEF ActorTakeSync
<1>2. ASSUME NEW c \in Clients, ActorUnsync(c) PROVE NoLostNotify'
  BY <1>0, <1>2 DEF ActorUnsync
<1>3. CASE SyncInsert
  BY <1>0, <1>3, ActorFields DEF SyncInsert, Reply, ActorServes
<1>4. CASE SyncConfirm
  <2>1. \A c \in Clients : Owing(c) => Owing(c)'
    BY <1>0, <1>4, ActorFields DEF SyncConfirm, Reply
  <2>2. CASE actor.client = "web"
    BY <1>4, <2>1, <2>2 DEF SyncConfirm
  <2>3. CASE actor.client # "web"
    <3>1. PICK k \in Clients : k = actor.client
      BY <1>0, <1>4, <2>3, ActorFields DEF SyncConfirm
    <3>2. Owing(k)'
      BY <1>0, <1>4, <2>3, <3>1 DEF SyncConfirm, Reply
    <3>3. QED
      BY <1>4, <2>1, <3>1, <3>2 DEF SyncConfirm
  <2>4. QED
    BY <2>2, <2>3
<1>5. CASE WebSync \/ WebKillTerminal
  BY <1>5 DEF WebSync, WebKillTerminal
<1>6. ASSUME NEW k \in TermRefs, TerminalExited(k) \/ WebKill(k) PROVE NoLostNotify'
  BY <1>6 DEF TerminalExited, WebKill
<1>7. ASSUME NEW name \in MaybeTermName, WebCreate(name) PROVE NoLostNotify'
  BY <1>7 DEF WebCreate
<1>8. QED
  BY <1>1, <1>2, <1>3, <1>4, <1>5, <1>6, <1>7 DEF CloudStep

LEMMA ServerStepNotify ==
  ASSUME NoLostNotify, PersisterStep \/ Tick \/ LifeStep
  PROVE  NoLostNotify'
<1> USE DEF flusher, life, Alive, NoLostNotify
<1>1. CASE PersisterWake \/ PersisterLockTerminals \/ PersisterLockViews
  BY <1>1 DEF PersisterWake, PersisterLockTerminals, PersisterLockViews
<1>2. CASE Snapshot \/ SaveTruncate \/ SaveWrite
  BY <1>2 DEF Snapshot, SaveTruncate, SaveWrite
<1>3. CASE Tick \/ Stop \/ ShutdownKill \/ Exit \/ Crash
  BY <1>3 DEF Tick, Stop, ShutdownKill, Exit, Crash
<1>4. CASE Restart
  BY <1>4 DEF Restart
<1>5. QED
  BY <1>1, <1>2, <1>3, <1>4 DEF PersisterStep, LifeStep

LEMMA NotifyStep ==
  TypeOK /\ ActorServes /\ NoLostNotify /\ [Next]_vars => NoLostNotify'
<1> SUFFICES ASSUME TypeOK, ActorServes, NoLostNotify, [Next]_vars
             PROVE  NoLostNotify'
  OBVIOUS
<1>1. CASE UNCHANGED vars
  BY <1>1 DEF vars, flusher, life, NoLostNotify, Alive
<1>2. CASE Next
  BY <1>2, TerminalRequestNotify, ViewRequestNotify, ContinueNotify, CloudStepNotify,
     ServerStepNotify DEF Next
<1>3. QED
  BY <1>1, <1>2

\* No announced change is ever lost on its way to state.json: the permit of
\* one Notify is enough for any number of handlers, and a change made while
\* the persister writes finds a permit stored for the next round
\* (server/state.rs, StatePersister).
THEOREM NotificationsKept == Spec => []NoLostNotify
<1>1. Init => NoLostNotify
  BY DEF Init, NoLostNotify
<1>2. QED
  BY <1>1, TypeCorrect, LocksCorrect, NotifyStep, PTL DEF Spec

-----------------------------------------------------------------------------
(* Views and terminals.  DanglingExplained needs PendingExplained beside   *)
(* it: a handler may put in a view a terminal it checked some time ago.    *)

Explained(x)  == HasTerminal(terminals, x) \/ x \in unswept
Sweeping(c)   == task[c].at \in {"kill_views", "mux_kill_views"}
Inserting(c)  == task[c].at \in {"view_create", "view_add"}
ViewsExplained == DanglingExplained /\ PendingExplained

\* A new terminal makes its id and its name good references.
LEMMA CreateExplains ==
  ASSUME NEW i \in FreshTermIds(terminals), NEW name \in MaybeTermName,
         Create(i, name), NEW x \in TermRefs, Explained(x)
  PROVE  Explained(x)'
<1>1. x # None
  BY NoneAssumption DEF TermRefs
<1>2. HasTerminal(terminals, x) => HasTerminal(terminals', x)
  BY DEF Create, Put, HasTerminal, TermMatches, FreshTermIds
<1>3. x \in {i, name} => HasTerminal(terminals', x)
  BY DEF Create, Put, HasTerminal, TermMatches, FreshTermIds
<1>4. QED
  BY <1>2, <1>3 DEF Explained, Create

\* A kill leaves unexplained only the reference its caller will sweep.
LEMMA KillExplains ==
  ASSUME NEW i \in DOMAIN terminals, NEW swept, Kill(i, swept),
         NEW x \in TermRefs, Explained(x)
  PROVE  Explained(x)' \/ (x \in swept /\ ~Pending(x))
<1>1. HasTerminal(terminals, x) /\ x \notin {i, terminals[i]} => HasTerminal(terminals', x)
  BY DEF Kill, Drop, Restrict, HasTerminal, TermMatches
<1>2. QED
  BY <1>1 DEF Explained, Kill

\* Views that list no more than before, and tasks that are where they were
\* or neither sweep nor insert, keep everything explained.
LEMMA ExplainedFrame ==
  ASSUME TypeOK, ViewsExplained,
         \A x \in TermRefs : Explained(x) => Explained(x)',
         \A v \in DOMAIN views' : v \in DOMAIN views
              /\ views'[v].terminal_ids \subseteq views[v].terminal_ids,
         \A c \in Clients : Sweeping(c) => task'[c] = task[c],
         \A c \in Clients : Inserting(c)' => task'[c] = task[c]
  PROVE  ViewsExplained'
<1>1. DanglingExplained'
  <2> SUFFICES ASSUME NEW v \in DOMAIN views', NEW x \in views'[v].terminal_ids
               PROVE  Explained(x)' \/ \E c \in Clients : Sweeping(c)' /\ task'[c].id = x
    BY DEF DanglingExplained, Explained, Sweeping
  <2>1. x \in views[v].terminal_ids /\ x \in TermRefs
    BY DEF TypeOK, IsTable, View
  <2>2. Explained(x) \/ \E c \in Clients : Sweeping(c) /\ task[c].id = x
    BY <2>1 DEF ViewsExplained, DanglingExplained, Explained, Sweeping
  <2>3. QED
    BY <2>1, <2>2 DEF Sweeping
<1>2. PendingExplained'
  <2> SUFFICES ASSUME NEW c \in Clients, Inserting(c)'
               PROVE  Explained(task[c].terminal_id)'
    BY DEF PendingExplained, Explained, Inserting
  <2>1. task'[c] = task[c] /\ Inserting(c)
    BY DEF Inserting
  <2>2. PICK x \in TermRefs : x = task[c].terminal_id
    BY <2>1, TaskFields DEF Inserting, TypeOK
  <2>3. Explained(x)
    BY <2>1, <2>2 DEF ViewsExplained, PendingExplained, Explained, Inserting
  <2>4. Explained(x)'
    BY <2>3
  <2>5. QED
    BY <2>1, <2>2, <2>4 DEF Explained
<1>3. QED
  BY <1>1, <1>2 DEF ViewsExplained

\* The same when a terminal is killed and its killer goes on to sweep.
LEMMA ExplainedKill ==
  ASSUME TypeOK, ViewsExplained, NEW c \in Clients, NEW ref \in TermRefs,
         NEW i \in DOMAIN terminals, Kill(i, {ref}), UNCHANGED views,
         task[c] = Idle, NEW t \in Task, Goto(c, t),
         t.at \in {"kill_views", "mux_kill_views"}, t.id = ref
  PROVE  ViewsExplained'
<1>0. /\ task'[c] = t
      /\ \A d \in Clients \ {c} : task'[d] = task[d]
  BY DEF TypeOK, Goto
<1>1. DanglingExplained'
  <2> SUFFICES ASSUME NEW v \in DOMAIN views, NEW x \in views[v].terminal_ids
               PROVE  Explained(x)' \/ \E d \in Clients : Sweeping(d)' /\ task'[d].id = x
    BY DEF DanglingExplained, Explained, Sweeping
  <2>1. x \in TermRefs
    BY DEF TypeOK, IsTable, View
  <2>2. Explained(x) \/ \E d \in Clients : Sweeping(d) /\ task[d].id = x
    BY DEF ViewsExplained, DanglingExplained, Explained, Sweeping
  <2>3. CASE Explained(x)
    BY <1>0, <2>1, <2>3, KillExplains DEF Sweeping
  <2>4. ASSUME NEW d \in Clients, Sweeping(d), task[d].id = x
        PROVE  Sweeping(d)' /\ task'[d].id = x
    BY <1>0, <2>4 DEF Sweeping, Idle
  <2>5. QED
    BY <2>2, <2>3, <2>4
<1>2. PendingExplained'
  <2> SUFFICES ASSUME NEW d \in Clients, Inserting(d)'
               PROVE  Explained(task[d].terminal_id)'
    BY DEF PendingExplained, Explained, Inserting
  <2>1. task'[d] = task[d] /\ Inserting(d)
    BY <1>0 DEF Inserting
  <2>2. PICK x \in TermRefs : x = task[d].terminal_id
    BY <2>1, TaskFields DEF Inserting, TypeOK
  <2>3. Explained(x) /\ Pending(x)
    BY <2>1, <2>2 DEF ViewsExplained, PendingExplained, Explained, Inserting, Pending
  <2>4. Explained(x)'
    BY <2>3, KillExplains
  <2>5. QED
    BY <2>1, <2>2, <2>4 DEF Explained
<1>3. QED
  BY <1>1, <1>2 DEF ViewsExplained

LEMMA TerminalRequestViews ==
  ASSUME TypeOK, ViewsExplained, NEW c \in Clients, TerminalRequest(c)
  PROVE  ViewsExplained'
<1> USE DEF Goto, Finish, Ready, Sweeping, Inserting
<1>0. task \in [Clients -> Task]
  BY DEF TypeOK
<1>1. ASSUME NEW name \in MaybeTermName, TerminalCreate(c, name) \/ MuxCreate(c, name)
      PROVE  ViewsExplained'
  <2>1. \A x \in TermRefs : Explained(x) => Explained(x)'
    BY <1>1, CreateExplains DEF TerminalCreate, MuxCreate, Explained
  <2>2. task[c] = Idle /\ UNCHANGED views
    BY <1>1 DEF TerminalCreate, MuxCreate
  <2>3. task' = task \/ task' = [task EXCEPT ![c] = Finish]
    BY <1>1 DEF TerminalCreate, MuxCreate
  <2>4. QED
    BY <1>0, <2>1, <2>2, <2>3, ExplainedFrame DEF Idle
<1>2. ASSUME NEW ref \in TermRefs, TerminalKill(c, ref) PROVE ViewsExplained'
  <2>1. CASE \E i \in TermMatches(terminals, ref) :
               Kill(i, {ref}) /\ Goto(c, [at |-> "kill_views", id |-> ref])
    BY <1>2, <2>1, ExplainedKill, MatchesInDomain, TaskTypes DEF TerminalKill
  <2>2. CASE UNCHANGED <<terminals, unswept>> /\ Goto(c, Finish)
    <3>1. \A x \in TermRefs : Explained(x) => Explained(x)'
      BY <2>2 DEF Explained
    <3>2. task[c] = Idle /\ UNCHANGED views
      BY <1>2 DEF TerminalKill
    <3>3. QED
      BY <1>0, <2>2, <3>1, <3>2, ExplainedFrame DEF Idle
  <2>3. QED
    BY <1>2, <2>1, <2>2 DEF TerminalKill
<1>3. ASSUME NEW ref \in TermRefs, MuxKill(c, ref) PROVE ViewsExplained'
  BY <1>3, ExplainedKill, MatchesInDomain, TaskTypes DEF MuxKill
<1>4. ASSUME NEW ref \in TermRefs, TerminalSync(c, ref) \/ TerminalUnsync(c, ref)
      PROVE  ViewsExplained'
  <2>1. \A x \in TermRefs : Explained(x) => Explained(x)'
    BY <1>4 DEF TerminalSync, TerminalUnsync, Explained, tables
  <2>2. task[c] = Idle /\ UNCHANGED views
    BY <1>4 DEF TerminalSync, TerminalUnsync, tables
  <2>3. QED
    BY <1>0, <1>4, <2>1, <2>2, ExplainedFrame DEF TerminalSync, TerminalUnsync, Idle
<1>5. QED
  BY <1>1, <1>2, <1>3, <1>4 DEF TerminalRequest

LEMMA ViewRequestViews ==
  ASSUME TypeOK, ViewsExplained, NEW c \in Clients, ViewRequest(c)
  PROVE  ViewsExplained'
<1> USE DEF Goto, Finish, Ready, Sweeping, Inserting
<1>0. /\ task \in [Clients -> Task] /\ views \in [DOMAIN views -> View]
  BY DEF TypeOK, IsTable
<1>1. task[c] = Idle /\ UNCHANGED <<terminals, unswept>>
  BY DEF ViewRequest, ViewCreate, ViewDelete, ViewAddTerminal, ViewRemoveTerminal,
     ViewUpdateLayout, tables
<1>2. \A x \in TermRefs : Explained(x) => Explained(x)'
  BY <1>1 DEF Explained
<1>3. ASSUME UNCHANGED views,
             NEW t \in Task, task' = [task EXCEPT ![c] = t], NEW ref,
             t = Finish \/ (t.terminal_id = ref /\ HasTerminal(terminals, ref)),
             t.at \notin {"kill_views", "mux_kill_views"}
      PROVE  ViewsExplained'
  <2>1. DanglingExplained'
    BY <1>0, <1>1, <1>3 DEF ViewsExplained, DanglingExplained, Idle
  <2>2. PendingExplained'
    BY <1>0, <1>1, <1>3 DEF ViewsExplained, PendingExplained
  <2>3. QED
    BY <2>1, <2>2 DEF ViewsExplained
<1>4. ASSUME NEW name \in MaybeViewName, NEW ref \in TermRefs, ViewCreate(c, name, ref)
      PROVE  ViewsExplained'
  <2>1. CASE HasTerminal(terminals, ref)
    BY <1>3, <1>4, <2>1, TaskTypes DEF ViewCreate, tables
  <2>2. CASE ~HasTerminal(terminals, ref)
    BY <1>3, <1>4, <2>2, TaskTypes DEF ViewCreate, tables
  <2>3. QED
    BY <2>1, <2>2
<1>5. ASSUME NEW vref \in ViewRefs, NEW ref \in TermRefs, ViewAddTerminal(c, vref, ref)
      PROVE  ViewsExplained'
  <2>1. CASE HasTerminal(terminals, ref)
    BY <1>3, <1>5, <2>1, TaskTypes DEF ViewAddTerminal, tables
  <2>2. CASE ~HasTerminal(terminals, ref)
    BY <1>3, <1>5, <2>2, TaskTypes DEF ViewAddTerminal, tables
  <2>3. QED
    BY <2>1, <2>2
<1>6. ASSUME Goto(c, Finish),
             \A v \in DOMAIN views' : v \in DOMAIN views
                /\ views'[v].terminal_ids \subseteq views[v].terminal_ids
      PROVE  ViewsExplained'
  BY <1>0, <1>1, <1>2, <1>6, ExplainedFrame DEF Idle
<1>7. ASSUME NEW vref \in ViewRefs, ViewDelete(c, vref) PROVE ViewsExplained'
  BY <1>6, <1>7 DEF ViewDelete, Drop, Restrict
<1>8. ASSUME NEW vref \in ViewRefs, NEW ref \in TermRefs, ViewRemoveTerminal(c, vref, ref)
      PROVE  ViewsExplained'
  BY <1>0, <1>6, <1>8 DEF ViewRemoveTerminal, RemoveTerminalFromView, View
<1>9. ASSUME NEW vref \in ViewRefs, NEW ref \in TermRefs, NEW l \in Layouts,
             ViewUpdateLayout(c, vref, l, ref)
      PROVE  ViewsExplained'
  BY <1>0, <1>6, <1>9 DEF ViewUpdateLayout, UpdateLayout, View
<1>10. QED
  BY <1>4, <1>5, <1>7, <1>8, <1>9 DEF ViewRequest

LEMMA ContinueViews ==
  ASSUME TypeOK, ViewsExplained, NEW c \in Clients, Continue(c)
  PROVE  ViewsExplained'
<1> USE DEF Goto
<1>0. /\ task \in [Clients -> Task] /\ views \in [DOMAIN views -> View]
      /\ task[c] \in Task
  BY DEF TypeOK, IsTable
<1>1. UNCHANGED <<terminals, unswept>>
  BY DEF Continue, KillViews, MuxKillViews, ViewInsert, ViewAdd, Notify, tables
<1>2. \A x \in TermRefs : Explained(x) => Explained(x)'
  BY <1>1 DEF Explained
<1>3. task' = [task EXCEPT ![c] = Finish] \/ task' = [task EXCEPT ![c] = Idle]
  BY DEF Continue, KillViews, MuxKillViews, ViewInsert, ViewAdd, Notify
<1>4. PendingExplained'
  BY <1>0, <1>1, <1>3 DEF ViewsExplained, PendingExplained, Idle, Finish
<1>5. CASE KillViews(c) \/ MuxKillViews(c)
  <2>1. \A v \in DOMAIN views' : /\ v \in DOMAIN views
                              /\ views'[v].terminal_ids = views[v].terminal_ids \ {task[c].id}
    BY <1>0, <1>5 DEF KillViews, MuxKillViews, RemoveTerminal, View
  <2>2. DanglingExplained'
    BY <1>0, <1>1, <1>3, <2>1 DEF ViewsExplained, DanglingExplained
  <2>3. QED
    BY <1>4, <2>2 DEF ViewsExplained
<1>6. ASSUME task[c].at \in {"view_create", "view_add"},
             \A v \in DOMAIN views' : \A x \in views'[v].terminal_ids :
               x = task[c].terminal_id \/ (v \in DOMAIN views /\ x \in views[v].terminal_ids)
      PROVE  ViewsExplained'
  <2>1. Explained(task[c].terminal_id)
    BY <1>6 DEF ViewsExplained, PendingExplained, Explained
  <2>2. DanglingExplained'
    BY <1>0, <1>1, <1>3, <1>6, <2>1 DEF ViewsExplained, DanglingExplained, Explained
  <2>3. QED
    BY <1>4, <2>2 DEF ViewsExplained
<1>7. CASE ViewInsert(c)
  BY <1>6, <1>7 DEF ViewInsert, Put, NewView
<1>8. CASE ViewAdd(c)
  <2>1. CASE UNCHANGED views
    BY <1>6, <1>8, <2>1 DEF ViewAdd
  <2>2. ASSUME NEW w \in ViewMatches(views, task[c].view_id),
               views' = AddTerminal(views, w, task[c].terminal_id)
        PROVE  ViewsExplained'
    <3>1. \A v \in DOMAIN views' : \A x \in views'[v].terminal_ids :
            x = task[c].terminal_id \/ (v \in DOMAIN views /\ x \in views[v].terminal_ids)
      BY <1>0, <2>2, MatchesInDomain DEF AddTerminal, View
    <3>2. QED
      BY <1>6, <1>8, <3>1 DEF ViewAdd
  <2>3. QED
    BY <1>8, <2>1, <2>2 DEF ViewAdd
<1>9. CASE Notify(c)
  <2>1. UNCHANGED views /\ task[c] = Finish
    BY <1>9 DEF Notify, tables
  <2>2. QED
    BY <1>0, <1>2, <1>3, <2>1, ExplainedFrame DEF Sweeping, Inserting, Idle, Finish
<1>10. QED
  BY <1>5, <1>7, <1>8, <1>9 DEF Continue

LEMMA CloudStepViews ==
  ASSUME TypeOK, ActorServes, ViewsExplained, CloudStep
  PROVE  ViewsExplained'
<1> USE DEF Goto, Sweeping, Inserting
<1>0. task \in [Clients -> Task] /\ actor \in Actor
  BY DEF TypeOK
<1>1. ASSUME NEW c \in Clients, ActorTakeSync(c) \/ ActorUnsync(c) PROVE ViewsExplained'
  <2>1. \A x \in TermRefs : Explained(x) => Explained(x)'
    BY <1>1 DEF ActorTakeSync, ActorUnsync, tables, Explained
  <2>2. UNCHANGED views
    BY <1>1 DEF ActorTakeSync, ActorUnsync, tables
  <2>3. QED
    BY <1>0, <1>1, <2>1, <2>2, ExplainedFrame DEF ActorTakeSync, ActorUnsync, Finish
<1>2. CASE SyncInsert \/ SyncConfirm
  <2>1. \A x \in TermRefs : Explained(x) => Explained(x)'
    BY <1>2 DEF SyncInsert, SyncConfirm, Explained
  <2>2. UNCHANGED views
    BY <1>2 DEF SyncInsert, SyncConfirm
  <2>3. \A c \in Clients : task'[c] = task[c] \/ (task[c].at = "in_actor" /\ task'[c] = Finish)
    BY <1>0, <1>2, ActorFields DEF SyncInsert, SyncConfirm, Reply, ActorServes
  <2>4. QED
    BY <2>1, <2>2, <2>3, ExplainedFrame DEF Finish
<1>3. ASSUME UNCHANGED <<views, task>>, \A x \in TermRefs : Explained(x) => Explained(x)'
      PROVE  ViewsExplained'
  BY <1>3, ExplainedFrame
<1>4. CASE WebSync
  BY <1>3, <1>4 DEF WebSync, tables, Explained
<1>5. CASE WebKillTerminal
  <2>1. \A x \in TermRefs : Explained(x) => Explained(x)'
    BY <1>5, KillExplains, MatchesInDomain DEF WebKillTerminal, Explained
  <2>2. QED
    BY <1>3, <1>5, <2>1 DEF WebKillTerminal
<1>6. ASSUME NEW k \in TermRefs, TerminalExited(k) \/ WebKill(k) PROVE ViewsExplained'
  BY <1>3, <1>6 DEF TerminalExited, WebKill, Explained
<1>7. ASSUME NEW name \in MaybeTermName, WebCreate(name) PROVE ViewsExplained'
  <2>1. \A x \in TermRefs : Explained(x) => Explained(x)'
    BY <1>7, CreateExplains DEF WebCreate
  <2>2. QED
    BY <1>3, <1>7, <2>1 DEF WebCreate
<1>8. QED
  BY <1>1, <1>2, <1>4, <1>5, <1>6, <1>7 DEF CloudStep

LEMMA ServerStepViews ==
  ASSUME TypeOK, ViewsExplained, PersisterStep \/ Tick \/ LifeStep
  PROVE  ViewsExplained'
<1> USE DEF ViewsExplained, DanglingExplained, PendingExplained
<1>1. CASE PersisterStep \/ Tick
  BY <1>1 DEF PersisterStep, PersisterWake, PersisterLockTerminals,
     PersisterLockViews, Snapshot, SaveTruncate, SaveWrite, Tick, tables
<1>2. CASE Stop \/ Exit \/ Crash
  BY <1>2 DEF Stop, Exit, Crash, tables
<1>3. CASE ShutdownKill
  BY <1>3, TaskFields DEF ShutdownKill, TypeOK, IsTable, View
<1>4. CASE Restart
  BY <1>4 DEF Restart, EmptyTable, Idle
<1>5. QED
  BY <1>1, <1>2, <1>3, <1>4 DEF LifeStep

LEMMA ViewsStep ==
  TypeOK /\ ActorServes /\ ViewsExplained /\ [Next]_vars => ViewsExplained'
<1> SUFFICES ASSUME TypeOK, ActorServes, ViewsExplained, [Next]_vars
             PROVE  ViewsExplained'
  OBVIOUS
<1>1. CASE UNCHANGED vars
  BY <1>1 DEF vars, tables, ViewsExplained, DanglingExplained, PendingExplained
<1>2. CASE Next
  BY <1>2, TerminalRequestViews, ViewRequestViews, ContinueViews, CloudStepViews,
     ServerStepViews DEF Next
<1>3. QED
  BY <1>1, <1>2

\* Every way a view can come to list a terminal that does not exist: a kill
\* under way, or a kill that could not sweep the entry because it named the
\* terminal otherwise, came from the web, or ran between another handler's
\* check and its insertion (server/mod.rs ViewCreate, ViewAddTerminal,
\* TerminalKill, KillTerminal; cloud/manager.rs handle_web_kill).
THEOREM ViewsCorrect == Spec => []DanglingExplained
<1>1. Init => ViewsExplained
  BY DEF Init, EmptyTable, Idle, ViewsExplained, DanglingExplained, PendingExplained
<1>2. Spec => []ViewsExplained
  BY <1>1, TypeCorrect, LocksCorrect, ViewsStep, PTL DEF Spec
<1>3. ViewsExplained => DanglingExplained
  BY DEF ViewsExplained
<1>4. QED
  BY <1>2, <1>3, PTL

-----------------------------------------------------------------------------
(* The synced set.  SyncedExplained is inductive given the types.          *)

LEMMA SyncedStep == TypeOK /\ SyncedExplained /\ [Next]_vars => SyncedExplained'
<1> SUFFICES ASSUME TypeOK, SyncedExplained, [Next]_vars PROVE SyncedExplained'
  OBVIOUS
<1> USE DEF SyncedExplained
<1>1. ASSUME UNCHANGED <<synced, cloud, restored, actor>> PROVE SyncedExplained'
  BY <1>1
<1>2. ASSUME NEW c \in Clients, TerminalRequest(c) PROVE SyncedExplained'
  BY <1>1, <1>2 DEF TerminalRequest, TerminalCreate, MuxCreate, TerminalKill, MuxKill,
     TerminalSync, TerminalUnsync, tables, life
<1>3. ASSUME NEW c \in Clients, ViewRequest(c) PROVE SyncedExplained'
  BY <1>1, <1>3 DEF ViewRequest, ViewCreate, ViewDelete, ViewAddTerminal,
     ViewRemoveTerminal, ViewUpdateLayout, tables, life
<1>4. ASSUME NEW c \in Clients, Continue(c) PROVE SyncedExplained'
  BY <1>1, <1>4 DEF Continue, KillViews, MuxKillViews, ViewInsert, ViewAdd, Notify,
     tables, life
<1>5. ASSUME NEW c \in Clients, ActorTakeSync(c) \/ ActorUnsync(c) PROVE SyncedExplained'
  BY <1>5 DEF ActorTakeSync, ActorUnsync, ActorFree, Unsync, Idle, tables, life
<1>6. CASE SyncInsert
  <2>1. [actor EXCEPT !.at = "confirm"].at = "confirm"
        /\ [actor EXCEPT !.at = "confirm"].id = actor.id
    BY <1>6 DEF SyncInsert, TypeOK, Actor
  <2>2. QED
    BY <1>6, <2>1 DEF SyncInsert, life
<1>7. CASE SyncConfirm
  BY <1>7 DEF SyncConfirm, Idle, life
<1>8. CASE WebSync \/ WebKillTerminal
  BY <1>8 DEF WebSync, WebKillTerminal, Idle, tables, life
<1>9. ASSUME NEW k \in TermRefs, TerminalExited(k) \/ WebKill(k) PROVE SyncedExplained'
  BY <1>9 DEF TerminalExited, WebKill, ActorFree, Unsync, Idle, life
<1>10. ASSUME NEW name \in MaybeTermName, WebCreate(name) PROVE SyncedExplained'
  BY <1>10 DEF WebCreate, ActorFree, Idle, life
<1>11. CASE PersisterStep \/ Tick \/ Stop \/ ShutdownKill \/ Exit \/ Crash \/ UNCHANGED vars
  BY <1>1, <1>11 DEF PersisterStep, PersisterWake, PersisterLockTerminals,
     PersisterLockViews, Snapshot, SaveTruncate, SaveWrite, Tick, Stop, ShutdownKill,
     Exit, Crash, vars, tables, life
<1>12. CASE Restart
  BY <1>12 DEF Restart
<1>13. QED
  BY <1>2, <1>3, <1>4, <1>5, <1>6, <1>7, <1>8, <1>9, <1>10, <1>11, <1>12
     DEF Next, CloudStep, LifeStep

\* A sync that the cloud refuses leaves nothing behind in the synced set,
\* whatever exits, kills and restarts happen meanwhile (cloud/manager.rs
\* handle_sync, handle_unsync, handle_terminal_exited).
THEOREM SyncedCorrect == Spec => []SyncedExplained
<1>1. Init => SyncedExplained
  BY DEF Init, SyncedExplained
<1>2. QED
  BY <1>1, TypeCorrect, SyncedStep, PTL DEF Spec

-----------------------------------------------------------------------------
(* The refinement.  Most steps leave the abstract variables alone.         *)

SyncVars == <<synced, cloud, actor, server>>

LEMMA SyncsStep == TypeOK /\ [Next]_vars => [Syncs!Next]_Syncs!vars
<1> SUFFICES ASSUME TypeOK, [Next]_vars PROVE [Syncs!Next]_Syncs!vars
  OBVIOUS
<1> USE DEF Syncs!vars, Alive
<1>a. actor.at = "confirm" => actor.id \in TermRefs /\ actor.id # None
  BY ActorFields, NoneAssumption DEF TypeOK, TermRefs
<1>1. ASSUME UNCHANGED SyncVars PROVE UNCHANGED Syncs!vars
  BY <1>1 DEF SyncVars
<1>2. ASSUME NEW c \in Clients, TerminalRequest(c) \/ ViewRequest(c) \/ Continue(c)
      PROVE  UNCHANGED SyncVars
  BY <1>2 DEF SyncVars, TerminalRequest, TerminalCreate, MuxCreate, TerminalKill, MuxKill,
     TerminalSync, TerminalUnsync, ViewRequest, ViewCreate, ViewDelete, ViewAddTerminal,
     ViewRemoveTerminal, ViewUpdateLayout, Continue, KillViews, MuxKillViews, ViewInsert,
     ViewAdd, Notify, tables, life
<1>3. ASSUME NEW c \in Clients, ActorTakeSync(c) PROVE UNCHANGED Syncs!vars
  BY <1>3 DEF ActorTakeSync, ActorFree, Idle, tables, life
<1>4. ASSUME NEW c \in Clients, ActorUnsync(c) PROVE [Syncs!Next]_Syncs!vars
  <2>1. CASE UNCHANGED <<synced, cloud>>
    BY <1>4, <2>1 DEF ActorUnsync, life
  <2>2. CASE task[c].id \in cloud /\ Unsync(task[c].id)
    <3>1. task[c].id \in TermRefs
      BY <1>4, TaskFields DEF ActorUnsync, TypeOK
    <3>2. Syncs!Release(task[c].id)
      BY <1>4, <2>2 DEF ActorUnsync, ActorFree, Idle, Unsync, Syncs!Release, life
    <3>3. QED
      BY <3>1, <3>2 DEF Syncs!Next
  <2>3. QED
    BY <1>4, <2>1, <2>2 DEF ActorUnsync
<1>5. CASE SyncInsert
  <2>1. CASE actor' = Idle /\ UNCHANGED synced
    BY <1>5, <2>1 DEF SyncInsert, Idle, life
  <2>2. CASE synced' = synced \cup {actor.id} /\ actor' = [actor EXCEPT !.at = "confirm"]
    <3>1. actor.id \in TermRefs /\ actor'.at = "confirm" /\ actor'.id = actor.id
      BY <1>5, <2>2 DEF SyncInsert, TypeOK, Actor
    <3>2. Syncs!Begin(actor.id)
      BY <1>5, <2>2, <3>1 DEF SyncInsert, Syncs!Begin, life
    <3>3. QED
      BY <3>1, <3>2 DEF Syncs!Next
  <2>3. QED
    BY <1>5, <2>1, <2>2 DEF SyncInsert
<1>6. CASE SyncConfirm
  <2>1. CASE cloud' = cloud \cup {actor.id} /\ UNCHANGED synced
    BY <1>6, <2>1, <1>a DEF SyncConfirm, Idle, Syncs!Accept, Syncs!Next, life
  <2>2. CASE synced' = synced \ {actor.id} /\ UNCHANGED cloud
    BY <1>6, <2>2, <1>a DEF SyncConfirm, Idle, Syncs!Refuse, Syncs!Next, life
  <2>3. QED
    BY <1>6, <2>1, <2>2 DEF SyncConfirm
<1>7. CASE WebSync \/ WebKillTerminal \/ \E name \in MaybeTermName : WebCreate(name)
  BY <1>7 DEF WebSync, WebKillTerminal, WebCreate, ActorFree, Idle, tables, life
<1>8. ASSUME NEW k \in TermRefs, TerminalExited(k) \/ WebKill(k)
      PROVE  [Syncs!Next]_Syncs!vars
  <2>1. CASE UNCHANGED <<synced, cloud>>
    BY <1>8, <2>1 DEF TerminalExited, WebKill, ActorFree, Idle, life
  <2>2. CASE k \in cloud /\ Unsync(k)
    <3>1. Syncs!Release(k)
      BY <1>8, <2>2 DEF TerminalExited, WebKill, ActorFree, Idle, Unsync, Syncs!Release, life
    <3>2. QED
      BY <3>1 DEF Syncs!Next
  <2>3. QED
    BY <1>8, <2>1, <2>2 DEF TerminalExited, WebKill
<1>9. CASE PersisterStep \/ Tick \/ UNCHANGED vars
  BY <1>9 DEF PersisterStep, PersisterWake, PersisterLockTerminals, PersisterLockViews,
     Snapshot, SaveTruncate, SaveWrite, Tick, vars, tables, life
<1>10. CASE Stop \/ ShutdownKill \/ Exit \/ Crash
  BY <1>10 DEF Stop, ShutdownKill, Exit, Crash, Syncs!End, Syncs!Next, tables
<1>11. CASE Restart
  <2>1. disk \in SUBSET TermRefs
    BY DEF TypeOK
  <2>2. Syncs!Restart(disk)
    BY <1>11 DEF Restart, Idle, Syncs!Restart
  <2>3. QED
    BY <2>1, <2>2 DEF Syncs!Next
<1>12. QED
  BY <1>1, <1>2, <1>3, <1>4, <1>5, <1>6, <1>7, <1>8, <1>9, <1>10, <1>11
     DEF Next, CloudStep, LifeStep

\* Seen from the tables, the server is a SyncedTerminals: it changes the
\* synced set and the terminals it holds only in the ways CloudManager does,
\* and as a crash and a restart do.
THEOREM SyncsImplemented == Spec => SyncsAsPromised
<1>1. Init => Syncs!Init
  BY DEF Init, Idle, Syncs!Init, Alive
<1>2. QED
  BY <1>1, TypeCorrect, SyncsStep, PTL DEF Spec, SyncsAsPromised, Syncs!Spec

=============================================================================
