------------------------------ MODULE PtyReaders ------------------------------
(***************************************************************************)
(* Who reads the output of a terminal (server/mod.rs, terminal/pty.rs).    *)
(* Every session attached to a terminal has a blocking task of its own     *)
(* that reads a duplicate of the same PTY and sends what it reads through  *)
(* the session's bounded channel; a chunk of output goes to whoever reads  *)
(* it first.  Aborting such a task stops it only while it is queued for a  *)
(* thread: once it runs it goes on until the shell ends, or until it finds *)
(* its channel closed.                                                     *)
(*                                                                         *)
(* A session is a multiplexed connection or a plain attach; the cloud      *)
(* manager is one that never closes, whose syncs are Add and whose unsyncs *)
(* are Remove.  Sockets hold nothing here: what a session writes is drawn  *)
(* at once.  Chunks are numbered per terminal.  A PTY is taken to end with *)
(* its shell; a background process of the shell that holds on to it would  *)
(* keep its readers, and their threads, for as long as it runs.            *)
(***************************************************************************)
EXTENDS Integers, Sequences, FiniteSets

CONSTANTS
  Terms,      \* terminals
  Sessions,   \* sessions
  Plain,      \* those that are plain attaches, to one terminal each
  MaxTasks,   \* bound on the reader tasks that exist at once
  PoolSize,   \* threads for blocking tasks
  ChanCap,    \* room in a session's channel
  BufCap,     \* output a PTY holds before its shell blocks
  MaxOut      \* bound on the output of a terminal

ASSUME BoundsAssumption ==
  /\ IsFiniteSet(Terms) /\ Plain \subseteq Sessions
  /\ {MaxTasks, PoolSize, ChanCap, BufCap, MaxOut} \subseteq Nat \ {0}

VARIABLES
  alive,      \* the terminals whose shells run
  out,        \* how many chunks a shell has written
  taken,      \* how many of them were read
  task,       \* the reader tasks
  session,    \* "new", "on", "closed" (its client is gone), or "ended" (its
              \* receiver is gone as well)
  readers,    \* a session's map from its terminals to their tasks, 0 for none
  channel,    \* the chunks in a session's channel
  left,       \* how often each chunk was drawn or lost (history)
  drawn,      \* the last chunk a session's client drew of a terminal (history)
  losers,     \* the sessions with output that nobody saw (history)
  late,       \* how often a reader of a session found it ended (history)
  disorder,   \* the <<session, terminal>> whose output was drawn out of order
  doubled,    \* the <<session, terminal>> that had two tasks at once (history)
  removed     \* the sessions that let go of a terminal (history)

pty == <<alive, out, taken>>
history == <<left, drawn, losers, late, disorder, doubled, removed>>
vars == <<pty, task, session, readers, channel, history>>

Tasks == 1..MaxTasks

NoTask == [at |-> "none"]
Reader(s, t, l) == [at |-> l, s |-> s, t |-> t]
Sender(s, t, n) == [at |-> "sending", s |-> s, t |-> t, n |-> n]

IsOf(i, s, t) == task[i].at # "none" /\ task[i].s = s /\ task[i].t = t
Running == {i \in Tasks : task[i].at \in {"reading", "sending"}}

Init ==
  /\ alive = Terms /\ out = [t \in Terms |-> 0] /\ taken = [t \in Terms |-> 0]
  /\ task = [i \in Tasks |-> NoTask]
  /\ session = [s \in Sessions |-> "new"]
  /\ readers = [s \in Sessions |-> [t \in Terms |-> 0]]
  /\ channel = [s \in Sessions |-> <<>>]
  /\ left = [t \in Terms |-> [n \in 1..MaxOut |-> 0]]
  /\ drawn = [s \in Sessions |-> [t \in Terms |-> 0]]
  /\ losers = {} /\ late = [s \in Sessions |-> 0]
  /\ disorder = {} /\ doubled = {} /\ removed = {}

-----------------------------------------------------------------------------
(* Shells *)

Produce(t) ==
  /\ t \in alive /\ out[t] < MaxOut /\ out[t] - taken[t] < BufCap
  /\ out' = [out EXCEPT ![t] = @ + 1]
  /\ UNCHANGED <<alive, taken, task, session, readers, channel, history>>

Exit(t) ==
  /\ t \in alive /\ alive' = alive \ {t}
  /\ UNCHANGED <<out, taken, task, session, readers, channel, history>>

-----------------------------------------------------------------------------
(* Reader tasks, spawn_pty_reader *)

\* A thread of the pool takes a task from its queue.
Start(i) ==
  /\ task[i].at = "queued" /\ Cardinality(Running) < PoolSize
  /\ task' = [task EXCEPT ![i].at = "reading"]
  /\ UNCHANGED <<pty, session, readers, channel, history>>

\* A read returns a chunk; or fails, when there is no more and the shell ended.
Read(i) ==
  /\ task[i].at = "reading"
  /\ LET s == task[i].s
         t == task[i].t
     IN \/ /\ taken[t] < out[t]
           /\ taken' = [taken EXCEPT ![t] = @ + 1]
           /\ task' = [task EXCEPT ![i] = Sender(s, t, taken'[t])]
           /\ UNCHANGED <<alive, out>>
        \/ /\ taken[t] = out[t] /\ t \notin alive
           /\ task' = [task EXCEPT ![i] = NoTask]
           /\ UNCHANGED pty
  /\ UNCHANGED <<session, readers, channel, history>>

Chunk(r) == [t |-> r.t, n |-> r.n]

\* The chunks C, which s took, are seen by nobody.
Lose(s, C) ==
  /\ left' = [t \in Terms |-> [n \in 1..MaxOut |->
                left[t][n] + Cardinality({c \in C : c.t = t /\ c.n = n})]]
  /\ losers' = losers \cup {s}
  /\ UNCHANGED <<drawn, disorder, doubled, removed>>

LoseLate(i) ==
  LET s == task[i].s IN Lose(s, {Chunk(task[i])}) /\ late' = [late EXCEPT ![s] = @ + 1]

\* The client of s draws c.
Draw(s, c) ==
  /\ left' = [left EXCEPT ![c.t][c.n] = @ + 1]
  /\ drawn' = [drawn EXCEPT ![s][c.t] = c.n]
  /\ disorder' = IF c.n > drawn[s][c.t] THEN disorder ELSE disorder \cup {<<s, c.t>>}
  /\ UNCHANGED <<losers, late, doubled, removed>>

\* blocking_send waits for room in the channel.
Send(i) ==
  /\ task[i].at = "sending"
  /\ LET r == task[i] IN
     /\ session[r.s] # "ended" /\ Len(channel[r.s]) < ChanCap
     /\ channel' = [channel EXCEPT ![r.s] = Append(@, Chunk(r))]
     /\ task' = [task EXCEPT ![i] = Reader(r.s, r.t, "reading")]
  /\ UNCHANGED <<pty, session, readers, history>>

\* Mutant of SendFails: the task reads on.
SendFailsReadsOn(i) ==
  /\ task[i].at = "sending" /\ session[task[i].s] = "ended"
  /\ LoseLate(i)
  /\ task' = [task EXCEPT ![i] = Reader(task[i].s, task[i].t, "reading")]
  /\ UNCHANGED <<pty, session, readers, channel>>

\* It fails once the receiver is gone, and ends the task.
SendFails(i) ==
  /\ task[i].at = "sending" /\ session[task[i].s] = "ended"
  /\ LoseLate(i)
  /\ task' = [task EXCEPT ![i] = NoTask]
  /\ UNCHANGED <<pty, session, readers, channel>>

-----------------------------------------------------------------------------
(* Sessions *)

HandlesOf(s) == {readers[s][t] : t \in Terms}

\* abort() of the tasks H: those still in the queue never start.
Abort(H) ==
  [i \in Tasks |-> IF i \in H /\ task[i].at = "queued" THEN NoTask ELSE task[i]]

\* A reader for t; the task it takes the place of is aborted.
Spawn(s, t) ==
  LET free == {i \in Tasks : task[i] = NoTask}
      i == CHOOSE i \in free : TRUE
  IN /\ free # {}
     /\ task' = [Abort({readers[s][t]}) EXCEPT ![i] = Reader(s, t, "queued")]
     /\ readers' = [readers EXCEPT ![s][t] = i]
     /\ doubled' = IF \E j \in Tasks : IsOf(j, s, t)
                     THEN doubled \cup {<<s, t>>} ELSE doubled

Begins(s, t) ==
  /\ session[s] = "new" /\ session' = [session EXCEPT ![s] = "on"]
  /\ Spawn(s, t)
  /\ UNCHANGED <<pty, channel, left, drawn, losers, late, disorder, removed>>

\* handle_attach: a connection to one terminal.
Attach(s, t) == s \in Plain /\ Begins(s, t)

\* handle_multiplex_attach; it may go on with other terminals at once: each is
\* an Add.
MultiplexAttach(s, t) == s \notin Plain /\ Begins(s, t)

\* CreateTerminal and AddTerminal: a split makes one of each, so that the
\* new terminal has two readers.
Add(s, t) ==
  /\ session[s] = "on" /\ s \notin Plain
  /\ Spawn(s, t)
  /\ UNCHANGED <<pty, session, channel, left, drawn, losers, late, disorder, removed>>

\* RemoveTerminal and KillTerminal.
Remove(s, t) ==
  /\ session[s] = "on" /\ s \notin Plain /\ readers[s][t] # 0
  /\ task' = Abort({readers[s][t]})
  /\ readers' = [readers EXCEPT ![s][t] = 0]
  /\ removed' = removed \cup {s}
  /\ UNCHANGED <<pty, session, channel, left, drawn, losers, late, disorder, doubled>>

\* Mutant of Show: the newest frame goes first.
ShowNewest(s) ==
  /\ session[s] = "on" /\ channel[s] # <<>>
  /\ channel' = [channel EXCEPT ![s] = SubSeq(@, 1, Len(@) - 1)]
  /\ LET c == channel[s][Len(channel[s])] IN
       IF readers[s][c.t] # 0
         THEN Draw(s, c) ELSE Lose(s, {c}) /\ UNCHANGED late
  /\ UNCHANGED <<pty, task, session, readers>>

\* Mutant of Show: a frame is written again and again.
ShowAgain(s) ==
  /\ session[s] = "on" /\ channel[s] # <<>>
  /\ LET c == Head(channel[s]) IN
       IF readers[s][c.t] # 0
         THEN Draw(s, c) ELSE Lose(s, {c}) /\ UNCHANGED late
  /\ UNCHANGED <<pty, task, session, readers, channel>>

\* sock_write takes a frame, and the client draws it if it has the terminal.
Show(s) ==
  /\ session[s] = "on" /\ channel[s] # <<>>
  /\ channel' = [channel EXCEPT ![s] = Tail(@)]
  /\ LET c == Head(channel[s]) IN
       IF readers[s][c.t] # 0
         THEN Draw(s, c) ELSE Lose(s, {c}) /\ UNCHANGED late
  /\ UNCHANGED <<pty, task, session, readers>>

Closes(s) ==
  /\ session[s] = "on" /\ session' = [session EXCEPT ![s] = "closed"]
  /\ readers' = [readers EXCEPT ![s] = [t \in Terms |-> 0]]
  /\ UNCHANGED <<pty, channel, history>>

\* The client of a plain attach is gone; its reader is left alone.
Detach(s) == s \in Plain /\ Closes(s) /\ UNCHANGED task

\* "Abort remaining reader tasks on disconnect"
Disconnect(s) == s \notin Plain /\ Closes(s) /\ task' = Abort(HandlesOf(s))

\* Mutant of WriteFails: the task keeps its receiver and waits.
WriteFailsSilently(s) ==
  /\ session[s] = "closed" /\ channel[s] # <<>>
  /\ UNCHANGED vars

\* sock_write, which nobody waits for any more, finds that out by failing.
WriteFails(s) ==
  /\ session[s] = "closed" /\ channel[s] # <<>>
  /\ session' = [session EXCEPT ![s] = "ended"]
  /\ channel' = [channel EXCEPT ![s] = <<>>]
  /\ Lose(s, {channel[s][k] : k \in DOMAIN channel[s]}) /\ UNCHANGED late
  /\ UNCHANGED <<pty, task, readers>>

-----------------------------------------------------------------------------
TaskStep(i) == Start(i) \/ Read(i) \/ Send(i) \/ SendFails(i)

Next ==
  \/ \E t \in Terms : Produce(t) \/ Exit(t)
  \/ \E i \in Tasks : TaskStep(i)
  \/ \E s \in Sessions : Show(s) \/ Detach(s) \/ Disconnect(s) \/ WriteFails(s)
  \/ \E s \in Sessions, t \in Terms :
       Attach(s, t) \/ MultiplexAttach(s, t) \/ Add(s, t) \/ Remove(s, t)

\* Threads go on, and so do the tasks that write.  A channel lets its senders
\* in by turns.
Fairness ==
  /\ \A i \in Tasks : SF_vars(Read(i) \/ Send(i) \/ SendFails(i))
  /\ \A s \in Sessions : WF_vars(WriteFails(s))

Spec == Init /\ [][Next]_vars /\ Fairness

-----------------------------------------------------------------------------
(* Properties *)

Chunks == [t : Terms, n : 1..MaxOut]

Task ==
  {NoTask} \cup [at : {"queued", "reading"}, s : Sessions, t : Terms]
           \cup [at : {"sending"}, s : Sessions, t : Terms, n : 1..MaxOut]

\* Every variable stays in its type.
TypeOK ==
  /\ alive \subseteq Terms
  /\ {out, taken} \subseteq [Terms -> 0..MaxOut]
  /\ \A t \in Terms : out[t] - taken[t] \in 0..BufCap
  /\ task \in [Tasks -> Task] /\ Cardinality(Running) <= PoolSize
  /\ session \in [Sessions -> {"new", "on", "closed", "ended"}]
  /\ readers \in [Sessions -> [Terms -> 0..MaxTasks]]
  /\ channel \in [Sessions -> Seq(Chunks)]
  /\ \A s \in Sessions : Len(channel[s]) <= ChanCap
  /\ left \in [Terms -> [1..MaxOut -> 0..1]]
  /\ losers \subseteq Sessions /\ late \in [Sessions -> Nat]
  /\ drawn \in [Sessions -> [Terms -> 0..MaxOut]]
  /\ disorder \cup doubled \subseteq Sessions \X Terms /\ removed \subseteq Sessions

\* Where chunk n of terminal t is between the read and the client.
Places(t, n) ==
  LET Is(c) == c.t = t /\ c.n = n
  IN {<<"task", i>> : i \in {j \in Tasks : task[j].at = "sending" /\ Is(task[j])}}
     \cup UNION {{<<"channel", s, k>> : k \in {j \in DOMAIN channel[s] : Is(channel[s][j])}}
                  : s \in Sessions}

\* However many sessions read a terminal and whatever becomes of them, every
\* chunk that was read is in one place: none goes astray or is seen twice
\* (clone_reader, spawn_pty_reader).
EachChunkOnce ==
  \A t \in Terms, n \in 1..MaxOut :
    Cardinality(Places(t, n)) + left[t][n] = IF n <= taken[t] THEN 1 ELSE 0

\* A client draws the output of a terminal in order, unless its session had
\* two readers for it at once: after a split, or when the terminal was removed
\* and added again, since RemoveTerminal does not stop the first.
DrawnInOrder == disorder \subseteq doubled

\* Output is lost only where a client leaves or lets go of a terminal.  "Abort
\* remaining reader tasks on disconnect" (server/mod.rs) stops none that runs,
\* but once the receiver is gone each takes at most one chunk more from
\* whoever attaches next.
LossIsBounded ==
  \A s \in Sessions :
    /\ s \in losers => session[s] = "ended" \/ s \in removed
    /\ (\A t \in Terms : <<s, t>> \notin doubled) => late[s] <= Cardinality(Terms)

\* No reader outlives both its client and its shell.  The process of a
\* stopped server ends only when its last thread does (main.rs drops the
\* runtime): it kills the shells, and then the threads must all end, though
\* nobody takes what is left in the channels.
ThreadsEnd ==
  alive = {} /\ (\A s \in Sessions : session[s] \in {"closed", "ended"}) ~> Running = {}

=============================================================================
