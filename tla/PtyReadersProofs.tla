-------------------------- MODULE PtyReadersProofs --------------------------
(* Theorems about PtyReaders, for any sessions, terminals and capacities. *)
EXTENDS PtyReaders, FiniteSetTheorems, TLAPS

-----------------------------------------------------------------------------
(* Why every chunk is in one place. *)

\* Chunk n of terminal t is what task i sends, or at k in the channel of s.
InTask(i, t, n) == task[i].at = "sending" /\ task[i].t = t /\ task[i].n = n
InChannel(s, k, t, n) ==
  k \in DOMAIN channel[s] /\ channel[s][k].t = t /\ channel[s][k].n = n

WithTask(t, n) == \E i \in Tasks : InTask(i, t, n)
WithSession(t, n) == \E s \in Sessions : \E k \in DOMAIN channel[s] : InChannel(s, k, t, n)

InOnePlace(t, n) ==
  /\ \A i, j \in Tasks : InTask(i, t, n) /\ InTask(j, t, n) => i = j
  /\ \A r, s \in Sessions : \A k \in DOMAIN channel[r], l \in DOMAIN channel[s] :
       InChannel(r, k, t, n) /\ InChannel(s, l, t, n) => r = s /\ k = l
  /\ ~(WithTask(t, n) /\ WithSession(t, n))

\* A chunk that was read is under way, or was drawn or lost, not both.
Accounted(t, n) ==
  /\ left[t][n] \in {0, 1}
  /\ WithTask(t, n) \/ WithSession(t, n) <=> n <= taken[t] /\ left[t][n] = 0
  /\ left[t][n] = 1 => n <= taken[t]

OnceInv == \A t \in Terms, n \in 1..MaxOut : InOnePlace(t, n) /\ Accounted(t, n)

-----------------------------------------------------------------------------
(* Why output is drawn in order. *)

OneReader(s, t) == \A i, j \in Tasks : IsOf(i, s, t) /\ IsOf(j, s, t) => i = j

\* What a session has of a terminal is older than what is read next.
NumbersKnown ==
  /\ \A s \in Sessions, t \in Terms :
       /\ drawn[s][t] <= taken[t]
       /\ \A k \in DOMAIN channel[s] : channel[s][k].t = t => channel[s][k].n <= taken[t]
  /\ \A i \in Tasks : task[i].at = "sending" => task[i].n <= taken[task[i].t]

\* Drawn comes before the channel, and that before what the reader has.
InOrder(s, t) ==
  /\ \A k \in DOMAIN channel[s] : channel[s][k].t = t => drawn[s][t] < channel[s][k].n
  /\ \A j, k \in DOMAIN channel[s] :
       j < k /\ channel[s][j].t = t /\ channel[s][k].t = t => channel[s][j].n < channel[s][k].n
  /\ \A i \in Tasks : IsOf(i, s, t) /\ task[i].at = "sending" =>
       /\ drawn[s][t] < task[i].n
       /\ \A k \in DOMAIN channel[s] : channel[s][k].t = t => channel[s][k].n < task[i].n

SinglesInOrder ==
  \A s \in Sessions, t \in Terms :
    <<s, t>> \notin doubled => OneReader(s, t) /\ InOrder(s, t)

-----------------------------------------------------------------------------
(* Why little is lost. *)

\* A session has output only of terminals it reads, while it lets go of none.
OutputIsWanted ==
  \A s \in Sessions, t \in Terms :
    \/ session[s] = "new"
    \/ session[s] = "on" /\ s \notin removed /\ readers[s][t] = 0
    => /\ \A i \in Tasks : ~IsOf(i, s, t)
       /\ \A k \in DOMAIN channel[s] : channel[s][k].t # t

\* Each of a session's readers outlives it by one chunk.
Live(s) == {t \in Terms : \E i \in Tasks : IsOf(i, s, t)}

LateIsBounded ==
  \A s \in Sessions :
    /\ session[s] # "ended" => late[s] = 0
    /\ (\A t \in Terms : <<s, t>> \notin doubled)
         => late[s] + Cardinality(Live(s)) <= Cardinality(Terms)

LossInv == OutputIsWanted /\ LateIsBounded /\ LossIsBounded

-----------------------------------------------------------------------------
(* Lemmas about tasks *)

\* What a task's position says of its fields.
LEMMA TaskFields ==
  /\ NoTask \in Task /\ NoTask.at = "none"
  /\ \A s \in Sessions, t \in Terms, l \in {"queued", "reading"} :
       /\ Reader(s, t, l) \in Task /\ Reader(s, t, l).at = l
       /\ Reader(s, t, l).s = s /\ Reader(s, t, l).t = t
  /\ \A s \in Sessions, t \in Terms, n \in 1..MaxOut :
       /\ Sender(s, t, n) \in Task /\ Sender(s, t, n).at = "sending"
       /\ Sender(s, t, n).s = s /\ Sender(s, t, n).t = t /\ Sender(s, t, n).n = n
  /\ \A r \in Task :
       /\ r.at \in {"none", "queued", "reading", "sending"}
       /\ r.at = "none" <=> r = NoTask
       /\ r.at # "none" => r.s \in Sessions /\ r.t \in Terms
       /\ r.at = "sending" => r.n \in 1..MaxOut
       /\ r.at = "queued" => [r EXCEPT !.at = "reading"] = Reader(r.s, r.t, "reading")
  BY DEF Task, NoTask, Reader, Sender

\* Task i becomes r, and the others stay.
Becomes(i, r) == task' = [task EXCEPT ![i] = r]

\* Tasks are aborted at most: none that runs.
Aborts == /\ task' \in [Tasks -> Task]
          /\ \A j \in Tasks : task'[j] = task[j] \/ (task[j].at = "queued" /\ task'[j] = NoTask)

\* The types as the steps need them.
LEMMA Types ==
  ASSUME TypeOK
  PROVE  /\ MaxTasks \in Nat \ {0} /\ PoolSize \in Nat \ {0} /\ ChanCap \in Nat \ {0}
         /\ BufCap \in Nat \ {0} /\ MaxOut \in Nat \ {0}
         /\ out \in [Terms -> 0..MaxOut] /\ taken \in [Terms -> 0..MaxOut]
         /\ task \in [Tasks -> Task] /\ channel \in [Sessions -> Seq(Chunks)]
  BY BoundsAssumption DEF TypeOK

LEMMA StartStep ==
  ASSUME TypeOK, NEW i \in Tasks, Start(i)
  PROVE  /\ task[i].at = "queued"
         /\ Becomes(i, Reader(task[i].s, task[i].t, "reading"))
         /\ Cardinality(Running) < PoolSize
<1>1. task[i].at = "queued" /\ task' = [task EXCEPT ![i] = [task[i] EXCEPT !.at = "reading"]]
      /\ Cardinality(Running) < PoolSize
  BY DEF Start
<1>2. task[i] \in Task
  BY Types
<1>3. [task[i] EXCEPT !.at = "reading"] = Reader(task[i].s, task[i].t, "reading")
  BY <1>1, <1>2, TaskFields
<1>4. QED
  BY <1>1, <1>3, Zenon DEF Becomes

\* A read that returned a chunk.
Reads(i) ==
  LET t == task[i].t IN
    /\ task[i].at = "reading" /\ taken[t] < out[t] /\ taken[t] + 1 \in 1..MaxOut
    /\ taken' = [taken EXCEPT ![t] = @ + 1] /\ taken'[t] = taken[t] + 1
    /\ Becomes(i, Sender(task[i].s, t, taken[t] + 1))
    /\ UNCHANGED <<alive, out, session, readers, channel, history>>

\* One that failed.
Quits(i) ==
  /\ task[i].at = "reading" /\ Becomes(i, NoTask)
  /\ UNCHANGED <<pty, session, readers, channel, history>>

LEMMA ReadStep ==
  ASSUME TypeOK, NEW i \in Tasks, Read(i)
  PROVE  Reads(i) \/ Quits(i)
<1> DEFINE t == task[i].t
<1>1. task[i].at = "reading" /\ t \in Terms
  <2>1. task[i].at = "reading" /\ task[i].at # "none"
    BY DEF Read
  <2>2. task[i] \in Task
    BY Types
  <2>3. QED
    BY <2>1, <2>2, TaskFields
<1>2. CASE taken[t] < out[t]
  <2>1. taken[t] \in 0..MaxOut /\ out[t] \in 0..MaxOut
    BY <1>1, Types
  <2>2. taken' = [taken EXCEPT ![t] = @ + 1]
        /\ task' = [task EXCEPT ![i] = Sender(task[i].s, t, taken'[t])]
        /\ UNCHANGED <<alive, out, session, readers, channel, history>>
    BY <1>2, <2>1 DEF Read, pty
  <2>3. taken'[t] = taken[t] + 1
    BY <1>1, <2>2, Types
  <2>4. QED
    <3>1. taken[t] + 1 \in 1..MaxOut
      BY <1>2, <2>1, Types
    <3>2. QED
      BY <1>1, <1>2, <2>2, <2>3, <3>1, Zenon DEF Reads, Becomes
<1>3. CASE ~(taken[t] < out[t])
  BY <1>1, <1>3 DEF Read, Quits, Becomes
<1>4. QED
  BY <1>2, <1>3

LEMMA AbortFacts ==
  ASSUME TypeOK, NEW H
  PROVE  /\ Abort(H) \in [Tasks -> Task]
         /\ \A j \in Tasks : \/ Abort(H)[j] = task[j]
                             \/ task[j].at = "queued" /\ Abort(H)[j] = NoTask
<1>1. \A j \in Tasks : task[j] \in Task /\ NoTask \in Task
  BY Types, TaskFields
<1>2. \A j \in Tasks : (IF j \in H /\ task[j].at = "queued" THEN NoTask ELSE task[j]) \in Task
  BY <1>1
<1>3. \A j \in Tasks :
        Abort(H)[j] = IF j \in H /\ task[j].at = "queued" THEN NoTask ELSE task[j]
  BY Zenon DEF Abort
<1>4. Abort(H) \in [Tasks -> Task]
  BY <1>2, Zenon DEF Abort
<1>5. QED
  BY <1>3, <1>4, Zenon

LEMMA AbortStep ==
  ASSUME TypeOK, NEW H, task' = Abort(H)
  PROVE  Aborts
  BY AbortFacts DEF Aborts

\* A new task i for s and t, queued.
LEMMA SpawnStep ==
  ASSUME TypeOK, NEW s \in Sessions, NEW t \in Terms, Spawn(s, t)
  PROVE  \E i \in Tasks :
           /\ task[i] = NoTask /\ task'[i] = Reader(s, t, "queued")
           /\ task' \in [Tasks -> Task]
           /\ \A j \in Tasks \ {i} :
                task'[j] = task[j] \/ (task[j].at = "queued" /\ task'[j] = NoTask)
           /\ readers' = [readers EXCEPT ![s][t] = i]
<1> DEFINE free == {i \in Tasks : task[i] = NoTask}
           i == CHOOSE j \in free : TRUE
           A == Abort({readers[s][t]})
<1>1. i \in Tasks /\ task[i] = NoTask
  BY DEF Spawn
<1>2. task' = [A EXCEPT ![i] = Reader(s, t, "queued")] /\ readers' = [readers EXCEPT ![s][t] = i]
  BY DEF Spawn
<1>3. A \in [Tasks -> Task] /\ \A j \in Tasks : A[j] = task[j] \/ (task[j].at = "queued" /\ A[j] = NoTask)
  BY AbortFacts
<1>4. Reader(s, t, "queued") \in Task
  BY TaskFields
<1> HIDE DEF i, A
<1>5. task' \in [Tasks -> Task] /\ task'[i] = Reader(s, t, "queued")
      /\ \A j \in Tasks \ {i} : task'[j] = A[j]
  BY <1>1, <1>2, <1>3, <1>4
<1>6. QED
  BY <1>1, <1>2, <1>3, <1>5

-----------------------------------------------------------------------------
(* The steps *)

\* The steps that give a session a reader, and those that take readers away.
Spawns(s, t) ==
  /\ Spawn(s, t)
  /\ \/ session[s] = "new" /\ session' = [session EXCEPT ![s] = "on"]
     \/ session[s] = "on" /\ session' = session
  /\ UNCHANGED <<pty, channel, left, drawn, losers, late, disorder, removed>>

Ends(s) == Closes(s) /\ Aborts

Removes(s, t) ==
  /\ Aborts /\ session[s] = "on" /\ removed' = removed \cup {s}
  /\ readers' = [readers EXCEPT ![s][t] = 0]
  /\ UNCHANGED <<pty, session, channel, left, drawn, losers, late, disorder, doubled>>

\* The step gives s's first frame to its client, or drops it.
Shows(s) ==
  LET c == Head(channel[s]) IN
    /\ session[s] = "on" /\ channel[s] # <<>>
    /\ channel' = [channel EXCEPT ![s] = Tail(@)]
    /\ \/ readers[s][c.t] # 0 /\ Draw(s, c)
       \/ readers[s][c.t] = 0 /\ Lose(s, {c}) /\ late' = late
    /\ UNCHANGED <<pty, task, session, readers>>

LEMMA NextCases ==
  ASSUME TypeOK, Next
  PROVE  \/ \E t \in Terms : Produce(t) \/ Exit(t)
         \/ \E i \in Tasks : Start(i) \/ Reads(i) \/ Quits(i) \/ Send(i) \/ SendFails(i)
         \/ \E s \in Sessions : Shows(s) \/ Ends(s) \/ WriteFails(s)
         \/ \E s \in Sessions, t \in Terms : Spawns(s, t) \/ Removes(s, t)
<1>1. ASSUME NEW s \in Sessions, Show(s) PROVE Shows(s)
  BY <1>1 DEF Show, Shows
<1>2. ASSUME NEW s \in Sessions, Detach(s) PROVE Ends(s)
  <2>1. Aborts
    BY <1>2, Types, Zenon DEF Detach, Aborts
  <2>2. QED
    BY <1>2, <2>1 DEF Detach, Ends
<1>3. ASSUME NEW s \in Sessions, Disconnect(s) PROVE Ends(s)
  BY <1>3, AbortStep DEF Disconnect, Ends
<1>4. ASSUME NEW s \in Sessions, NEW t \in Terms, Remove(s, t) PROVE Removes(s, t)
  BY <1>4, AbortStep DEF Remove, Removes
<1>5. ASSUME NEW s \in Sessions, NEW t \in Terms,
             Attach(s, t) \/ MultiplexAttach(s, t) \/ Add(s, t)
      PROVE  Spawns(s, t)
  BY <1>5 DEF Attach, MultiplexAttach, Begins, Add, Spawns
<1>6. QED
  BY <1>1, <1>2, <1>3, <1>4, <1>5, ReadStep DEF Next, TaskStep

-----------------------------------------------------------------------------
(* Typing *)

PtyOK ==
  /\ alive \subseteq Terms
  /\ {out, taken} \subseteq [Terms -> 0..MaxOut]
  /\ \A t \in Terms : out[t] - taken[t] \in 0..BufCap

TaskOK == task \in [Tasks -> Task] /\ Cardinality(Running) <= PoolSize

SessionOK ==
  /\ session \in [Sessions -> {"new", "on", "closed", "ended"}]
  /\ readers \in [Sessions -> [Terms -> 0..MaxTasks]]

ChannelOK ==
  /\ channel \in [Sessions -> Seq(Chunks)]
  /\ \A s \in Sessions : Len(channel[s]) <= ChanCap

SeenOK ==
  /\ losers \subseteq Sessions /\ late \in [Sessions -> Nat]
  /\ drawn \in [Sessions -> [Terms -> 0..MaxOut]]
  /\ disorder \cup doubled \subseteq Sessions \X Terms /\ removed \subseteq Sessions

LEMMA TypeParts ==
  TypeOK <=> /\ PtyOK /\ TaskOK /\ SessionOK /\ ChannelOK /\ SeenOK
             /\ left \in [Terms -> [1..MaxOut -> 0..1]]
  BY DEF TypeOK, PtyOK, TaskOK, SessionOK, ChannelOK, SeenOK

LEMMA PtyType == ASSUME TypeOK, Next PROVE PtyOK'
<1> USE Types
<1>1. ASSUME NEW t \in Terms, Produce(t) PROVE PtyOK'
  <2>1. out[t] \in 0..MaxOut /\ taken[t] \in 0..MaxOut
    OBVIOUS
  <2>2. out' = [out EXCEPT ![t] = out[t] + 1] /\ out[t] + 1 \in 0..MaxOut /\ taken' = taken
        /\ alive' = alive /\ (out[t] + 1) - taken[t] \in 0..BufCap
    BY <1>1, <2>1 DEF Produce, TypeOK
  <2>3. QED
    BY <2>2 DEF PtyOK, TypeOK
<1>2. ASSUME NEW t \in Terms, Exit(t) PROVE PtyOK'
  BY <1>2 DEF Exit, PtyOK, TypeOK
<1>3. ASSUME NEW i \in Tasks, Reads(i) PROVE PtyOK'
  <2> DEFINE t == task[i].t
  <2>1. t \in Terms
    BY <1>3, TaskFields DEF Reads
  <2>2. out[t] \in 0..MaxOut /\ taken[t] \in 0..MaxOut
    BY <2>1
  <2>3. taken' = [taken EXCEPT ![t] = taken[t] + 1] /\ taken[t] + 1 \in 0..MaxOut /\ out' = out
        /\ alive' = alive /\ out[t] - (taken[t] + 1) \in 0..BufCap
    <3>1. taken[t] < out[t] /\ taken' = [taken EXCEPT ![t] = taken[t] + 1]
          /\ out' = out /\ alive' = alive
      BY <1>3, Zenon DEF Reads
    <3>2. out[t] - taken[t] \in 0..BufCap
      BY <2>1 DEF TypeOK
    <3>3. \A m \in 0..MaxOut, n \in 0..MaxOut :
            n < m /\ m - n \in 0..BufCap => n + 1 \in 0..MaxOut /\ m - (n + 1) \in 0..BufCap
      OBVIOUS
    <3>4. QED
      BY <2>2, <3>1, <3>2, <3>3, Zenon
  <2>4. QED
    BY <2>1, <2>3 DEF PtyOK, TypeOK
<1>4. ASSUME UNCHANGED pty PROVE PtyOK'
  BY <1>4 DEF PtyOK, pty, TypeOK
<1>5. QED
  BY <1>1, <1>2, <1>3, <1>4, NextCases, Zenon
  DEF Start, Quits, Send, SendFails, Shows, Ends, Closes, WriteFails, Spawns, Removes

\* Only Start adds to the tasks that run, and it looks for a free thread.
LEMMA RunningType ==
  /\ IsFiniteSet(Tasks) /\ IsFiniteSet(Running)
  /\ \A S \in SUBSET Running : IsFiniteSet(S) /\ Cardinality(S) <= Cardinality(Running)
  /\ Cardinality(Running) \in Nat
<1>1. IsFiniteSet(Tasks)
  BY FS_Interval, BoundsAssumption DEF Tasks
<1>2. IsFiniteSet(Running)
  BY <1>1, FS_Subset DEF Running
<1>3. QED
  BY <1>1, <1>2, FS_Subset, FS_CardinalityType

LEMMA TaskType == ASSUME TypeOK, Next PROVE TaskOK'
<1>1. ASSUME Running' \subseteq Running PROVE Cardinality(Running') <= PoolSize
  <2>1. Cardinality(Running') <= Cardinality(Running)
    BY <1>1, RunningType
  <2>2. Cardinality(Running') \in Nat
    BY <1>1, RunningType, FS_CardinalityType
  <2>3. QED
    BY <2>1, <2>2, RunningType, Types DEF TypeOK
<1>2. ASSUME NEW i \in Tasks, NEW r \in Task, Becomes(i, r), r.at \in {"reading", "sending"} => i \in Running
      PROVE  TaskOK'
  <2>1. task' \in [Tasks -> Task] /\ \A j \in Tasks : task'[j] = IF j = i THEN r ELSE task[j]
    BY <1>2, Types DEF Becomes
  <2>2. Running' \subseteq Running
    BY <1>2, <2>1 DEF Running
  <2>3. QED
    BY <1>1, <2>1, <2>2 DEF TaskOK
<1>3. ASSUME NEW i \in Tasks, Start(i) PROVE TaskOK'
  <2> DEFINE r == Reader(task[i].s, task[i].t, "reading")
  <2>1. r \in Task /\ r.at = "reading"
    <3>1. task[i] \in Task /\ task[i].at = "queued"
      BY <1>3, StartStep, Types
    <3>2. task[i].s \in Sessions /\ task[i].t \in Terms
      BY <3>1, TaskFields
    <3>3. QED
      BY <3>2, TaskFields
  <2>2. task' \in [Tasks -> Task] /\ \A j \in Tasks : task'[j] = IF j = i THEN r ELSE task[j]
    BY <1>3, <2>1, StartStep, Types DEF Becomes
  <2>3. Running' = Running \cup {i} /\ i \notin Running
    BY <1>3, <2>1, <2>2, StartStep DEF Running
  <2>4. Cardinality(Running') = Cardinality(Running) + 1
    BY <2>3, RunningType, FS_AddElement
  <2>5. Cardinality(Running') <= PoolSize
    BY <1>3, <2>4, StartStep, RunningType, Types
  <2>6. QED
    BY <2>2, <2>5 DEF TaskOK
<1>4. ASSUME NEW i \in Tasks, Reads(i) \/ Quits(i) \/ Send(i) \/ SendFails(i) PROVE TaskOK'
  <2>1. task[i] \in Task /\ i \in Running /\ task[i].at \in {"reading", "sending"}
    BY <1>4, Types DEF Reads, Quits, Send, SendFails, Running
  <2>2. task[i].s \in Sessions /\ task[i].t \in Terms
    BY <2>1, TaskFields
  <2>3. \E r \in Task : Becomes(i, r)
    BY <1>4, <2>2, TaskFields DEF Reads, Quits, Send, SendFails, Becomes
  <2>4. QED
    BY <1>2, <2>1, <2>3
<1>5. ASSUME NEW s \in Sessions, NEW t \in Terms, Spawns(s, t) PROVE TaskOK'
  <2>1. Spawn(s, t)
    BY <1>5 DEF Spawns
  <2>2. task' \in [Tasks -> Task] /\ Running' \subseteq Running
    BY <2>1, SpawnStep, TaskFields DEF Running
  <2>3. QED
    BY <1>1, <2>2 DEF TaskOK
<1>6. ASSUME Aborts PROVE TaskOK'
  <2>1. Running' \subseteq Running
    BY <1>6, TaskFields DEF Aborts, Running
  <2>2. QED
    BY <1>1, <1>6, <2>1 DEF Aborts, TaskOK
<1>7. ASSUME UNCHANGED task PROVE TaskOK'
  BY <1>7 DEF TaskOK, TypeOK, Running
<1>8. QED
  BY <1>3, <1>4, <1>5, <1>6, <1>7, NextCases, Zenon
  DEF Produce, Exit, Shows, Ends, WriteFails, Removes

LEMMA SessionType == ASSUME TypeOK, Next PROVE SessionOK'
<1> DEFINE Phase == {"new", "on", "closed", "ended"}
<1>1. session \in [Sessions -> Phase] /\ readers \in [Sessions -> [Terms -> 0..MaxTasks]]
  BY DEF TypeOK
<1>2. ASSUME NEW s \in Sessions, NEW l \in Phase, session' = [session EXCEPT ![s] = l]
      PROVE  session' \in [Sessions -> Phase]
  BY <1>1, <1>2
<1>3. ASSUME NEW s \in Sessions, NEW t \in Terms, NEW n \in 0..MaxTasks,
             readers' = [readers EXCEPT ![s][t] = n]
      PROVE  readers' \in [Sessions -> [Terms -> 0..MaxTasks]]
  BY <1>1, <1>3
<1>4. ASSUME NEW s \in Sessions, NEW t \in Terms, Spawns(s, t) PROVE SessionOK'
  <2>1. session' \in [Sessions -> Phase]
    BY <1>1, <1>2, <1>4 DEF Spawns
  <2>2. PICK i \in Tasks : readers' = [readers EXCEPT ![s][t] = i]
    BY <1>4, SpawnStep DEF Spawns
  <2>3. i \in 0..MaxTasks
    BY Types DEF Tasks
  <2>4. readers' \in [Sessions -> [Terms -> 0..MaxTasks]]
    BY <1>3, <2>2, <2>3
  <2>5. QED
    BY <2>1, <2>4 DEF SessionOK
<1>5. ASSUME NEW s \in Sessions, NEW t \in Terms, Removes(s, t) PROVE SessionOK'
  <2>1. 0 \in 0..MaxTasks
    BY Types
  <2>2. QED
    BY <1>1, <1>3, <1>5, <2>1 DEF Removes, SessionOK
<1>6. ASSUME NEW s \in Sessions, Ends(s) \/ WriteFails(s) PROVE SessionOK'
  <2>1. session' \in [Sessions -> Phase]
    BY <1>1, <1>2, <1>6 DEF Ends, Closes, WriteFails
  <2>2. [t \in Terms |-> 0] \in [Terms -> 0..MaxTasks]
    BY Types
  <2>3. readers' \in [Sessions -> [Terms -> 0..MaxTasks]]
    BY <1>1, <1>6, <2>2 DEF Ends, Closes, WriteFails
  <2>4. QED
    BY <2>1, <2>3 DEF SessionOK
<1>7. ASSUME UNCHANGED <<session, readers>> PROVE SessionOK'
  BY <1>1, <1>7 DEF SessionOK
<1>8. QED
  BY <1>4, <1>5, <1>6, <1>7, NextCases, Zenon
  DEF Produce, Exit, Start, Reads, Quits, Send, SendFails, Shows

\* Appending to a channel, and taking its head.
LEMMA AppendFacts ==
  ASSUME NEW S, NEW c \in Seq(S), NEW e \in S
  PROVE  /\ Append(c, e) \in Seq(S) /\ Len(Append(c, e)) = Len(c) + 1
         /\ DOMAIN c = 1..Len(c) /\ DOMAIN Append(c, e) = 1..(Len(c) + 1)
         /\ \A j \in 1..Len(c) : Append(c, e)[j] = c[j]
         /\ Append(c, e)[Len(c) + 1] = e
         /\ Len(c) \in Nat
  OBVIOUS

LEMMA TailFacts ==
  ASSUME NEW S, NEW c \in Seq(S), c # <<>>
  PROVE  /\ Tail(c) \in Seq(S) /\ Len(Tail(c)) = Len(c) - 1
         /\ Len(c) \in Nat \ {0}
         /\ DOMAIN c = 1..Len(c) /\ DOMAIN Tail(c) = 1..(Len(c) - 1)
         /\ \A j \in 1..(Len(c) - 1) : Tail(c)[j] = c[j + 1]
         /\ Head(c) = c[1] /\ Head(c) \in S
  OBVIOUS

LEMMA EmptyFacts == \A S : <<>> \in Seq(S) /\ Len(<<>>) = 0 /\ DOMAIN <<>> = {}
  OBVIOUS

\* What a task sends is a chunk.
LEMMA SenderFacts ==
  ASSUME TypeOK, NEW i \in Tasks, task[i].at = "sending"
  PROVE  /\ task[i].s \in Sessions /\ task[i].t \in Terms /\ task[i].n \in 1..MaxOut
         /\ Chunk(task[i]) \in Chunks
         /\ Chunk(task[i]).t = task[i].t /\ Chunk(task[i]).n = task[i].n
<1>1. task[i].s \in Sessions /\ task[i].t \in Terms /\ task[i].n \in 1..MaxOut
  BY TaskFields, Types
<1>2. QED
  BY <1>1 DEF Chunk, Chunks

LEMMA HeadFacts ==
  ASSUME TypeOK, NEW s \in Sessions, channel[s] # <<>>
  PROVE  LET c == Head(channel[s]) IN
           c \in Chunks /\ c.t \in Terms /\ c.n \in 1..MaxOut
           /\ 1 \in DOMAIN channel[s] /\ channel[s][1] = c
<1>1. channel[s] \in Seq(Chunks)
  BY Types
<1>2. Head(channel[s]) \in Chunks /\ 1 \in DOMAIN channel[s] /\ channel[s][1] = Head(channel[s])
  BY <1>1, TailFacts
<1>3. QED
  BY <1>2 DEF Chunks

LEMMA ChannelType == ASSUME TypeOK, Next PROVE ChannelOK'
<1>1. ASSUME NEW s \in Sessions, NEW q \in Seq(Chunks), Len(q) <= ChanCap,
             channel' = [channel EXCEPT ![s] = q]
      PROVE  ChannelOK'
  BY <1>1, Types DEF ChannelOK, TypeOK
<1>2. ASSUME NEW i \in Tasks, Send(i) PROVE ChannelOK'
  <2> DEFINE s == task[i].s
             q == Append(channel[s], Chunk(task[i]))
  <2>1. s \in Sessions /\ Chunk(task[i]) \in Chunks
    BY <1>2, SenderFacts DEF Send
  <2>2. channel[s] \in Seq(Chunks) /\ Len(channel[s]) < ChanCap /\ channel' = [channel EXCEPT ![s] = q]
    BY <1>2, <2>1, Types DEF Send
  <2>3. q \in Seq(Chunks) /\ Len(q) <= ChanCap
    BY <2>1, <2>2, AppendFacts, Types
  <2>4. QED
    BY <1>1, <2>1, <2>2, <2>3
<1>3. ASSUME NEW s \in Sessions, Shows(s) PROVE ChannelOK'
  <2>1. channel[s] \in Seq(Chunks) /\ channel[s] # <<>> /\ channel' = [channel EXCEPT ![s] = Tail(channel[s])]
    BY <1>3, Types DEF Shows
  <2>2. Tail(channel[s]) \in Seq(Chunks) /\ Len(Tail(channel[s])) <= ChanCap
    BY <2>1, TailFacts, Types DEF TypeOK
  <2>3. QED
    BY <1>1, <2>1, <2>2
<1>4. ASSUME NEW s \in Sessions, WriteFails(s) PROVE ChannelOK'
  <2>1. <<>> \in Seq(Chunks) /\ Len(<<>>) <= ChanCap
    BY EmptyFacts, Types
  <2>2. QED
    BY <1>1, <1>4, <2>1 DEF WriteFails
<1>5. ASSUME UNCHANGED channel PROVE ChannelOK'
  BY <1>5 DEF ChannelOK, TypeOK
<1>6. QED
  BY <1>2, <1>3, <1>4, <1>5, NextCases, Zenon
  DEF Produce, Exit, Start, Reads, Quits, SendFails, Ends, Closes, Spawns, Removes

LEMMA SeenType == ASSUME TypeOK, Next PROVE SeenOK'
<1> USE DEF SeenOK
<1>1. ASSUME NEW i \in Tasks, SendFails(i) PROVE SeenOK'
  <2>1. task[i].s \in Sessions
    BY <1>1, SenderFacts DEF SendFails
  <2>2. losers' = losers \cup {task[i].s} /\ late' = [late EXCEPT ![task[i].s] = @ + 1]
        /\ UNCHANGED <<drawn, disorder, doubled, removed>>
    BY <1>1 DEF SendFails, LoseLate, Lose
  <2>3. QED
    BY <2>1, <2>2 DEF TypeOK
<1>2. ASSUME NEW s \in Sessions, Shows(s) PROVE SeenOK'
  <2> DEFINE c == Head(channel[s])
  <2>1. c.t \in Terms /\ c.n \in 0..MaxOut
    BY <1>2, HeadFacts DEF Shows
  <2>2. CASE Draw(s, c)
    <3>1. drawn' = [drawn EXCEPT ![s][c.t] = c.n] /\ disorder' \subseteq disorder \cup {<<s, c.t>>}
          /\ UNCHANGED <<losers, late, doubled, removed>>
      BY <2>2 DEF Draw
    <3>2. QED
      <4>1. drawn' \in [Sessions -> [Terms -> 0..MaxOut]]
        BY <2>1, <3>1 DEF TypeOK
      <4>2. disorder' \cup doubled' \subseteq Sessions \X Terms
        <5>1. <<s, c.t>> \in Sessions \X Terms
          BY <2>1
        <5>2. QED
          BY <3>1, <5>1, Zenon DEF TypeOK
      <4>3. QED
        BY <3>1, <4>1, <4>2 DEF TypeOK
  <2>3. CASE Lose(s, {c}) /\ late' = late
    BY <2>3 DEF Lose, TypeOK
  <2>4. QED
    BY <1>2, <2>2, <2>3 DEF Shows
<1>3. ASSUME NEW s \in Sessions, WriteFails(s) PROVE SeenOK'
  BY <1>3 DEF WriteFails, Lose, TypeOK
<1>4. ASSUME NEW s \in Sessions, NEW t \in Terms, Spawns(s, t) PROVE SeenOK'
  <2>1. doubled' \subseteq doubled \cup {<<s, t>>}
    BY <1>4 DEF Spawns, Spawn
  <2>2. QED
    <3>1. <<s, t>> \in Sessions \X Terms
      OBVIOUS
    <3>2. disorder' \cup doubled' \subseteq Sessions \X Terms
      BY <1>4, <2>1, <3>1, Zenon DEF Spawns, TypeOK
    <3>3. QED
      BY <1>4, <3>2 DEF Spawns, TypeOK
<1>5. ASSUME NEW s \in Sessions, NEW t \in Terms, Removes(s, t) PROVE SeenOK'
  BY <1>5 DEF Removes, TypeOK
<1>6. ASSUME UNCHANGED history PROVE SeenOK'
  BY <1>6 DEF history, TypeOK
<1>7. QED
  BY <1>1, <1>2, <1>3, <1>4, <1>5, <1>6, NextCases, Zenon
  DEF Produce, Exit, Start, Reads, Quits, Send, Ends, Closes

-----------------------------------------------------------------------------
(* Every chunk in one place *)

\* Losing chunks counts each of them once.
LEMMA LostOnce ==
  ASSUME TypeOK, NEW s, NEW C \in SUBSET Chunks, Lose(s, C)
  PROVE  \A t \in Terms, n \in 1..MaxOut :
           left'[t][n] = left[t][n] + IF \E c \in C : c.t = t /\ c.n = n THEN 1 ELSE 0
<1> SUFFICES ASSUME NEW t \in Terms, NEW n \in 1..MaxOut
             PROVE  left'[t][n] = left[t][n] + IF \E c \in C : c.t = t /\ c.n = n THEN 1 ELSE 0
  OBVIOUS
<1> DEFINE L == {c \in C : c.t = t /\ c.n = n}
<1>1. left'[t][n] = left[t][n] + Cardinality(L)
  BY DEF Lose
<1>2. CASE \E c \in C : c.t = t /\ c.n = n
  <2>1. L = {[t |-> t, n |-> n]}
    BY <1>2 DEF Chunks
  <2>2. Cardinality(L) = 1
    BY <2>1, FS_Singleton
  <2>3. QED
    BY <1>1, <1>2, <2>2
<1>3. CASE ~\E c \in C : c.t = t /\ c.n = n
  <2>1. L = {}
    BY <1>3
  <2>2. Cardinality(L) = 0
    BY <2>1, FS_EmptySet
  <2>3. QED
    BY <1>1, <1>3, <2>2
<1>4. QED
  BY <1>2, <1>3

LEMMA LeftFacts == ASSUME TypeOK PROVE \A t \in Terms, n \in 1..MaxOut : left[t][n] \in {0, 1}
<1>1. \A t \in Terms : left[t] \in [1..MaxOut -> 0..1]
  BY DEF TypeOK
<1>2. \A t \in Terms, n \in 1..MaxOut : left[t][n] \in 0..1
  BY <1>1, Zenon
<1>3. 0..1 = {0, 1}
  OBVIOUS
<1>4. QED
  BY <1>2, <1>3, Zenon

\* Steps that neither take a chunk from anywhere nor put one there.
LEMMA SamePlaces ==
  ASSUME TypeOK, OnceInv, UNCHANGED <<taken, channel, left>>,
         \A i \in Tasks, t \in Terms, n \in 1..MaxOut : InTask(i, t, n)' <=> InTask(i, t, n)
  PROVE  OnceInv'
<1>1. ASSUME NEW t \in Terms, NEW n \in 1..MaxOut PROVE InOnePlace(t, n)' /\ Accounted(t, n)'
  <2>1. InOnePlace(t, n) /\ Accounted(t, n)
    BY DEF OnceInv
  <2>2. \A s, k : InChannel(s, k, t, n)' <=> InChannel(s, k, t, n)
    BY DEF InChannel
  <2>3. (WithTask(t, n)' <=> WithTask(t, n)) /\ (WithSession(t, n)' <=> WithSession(t, n))
    BY <2>2 DEF WithTask, WithSession
  <2>4. QED
    BY <2>1, <2>2, <2>3 DEF InOnePlace, Accounted
<1>2. QED
  BY <1>1 DEF OnceInv

\* A task that was not sending and is not goes on or ends; or is put aside.
LEMMA IdleOnce ==
  ASSUME TypeOK, OnceInv,
         \/ \E i \in Tasks : Start(i) \/ Quits(i)
         \/ Aborts /\ UNCHANGED <<taken, channel, left>>
         \/ \E s \in Sessions, t \in Terms : Spawns(s, t)
  PROVE  OnceInv'
<1>1. ASSUME NEW i \in Tasks, Start(i) \/ Quits(i) PROVE OnceInv'
  <2>1. UNCHANGED <<taken, channel, left>>
    BY <1>1 DEF Start, Quits, history, pty
  <2>2. task[i].at # "sending"
    BY <1>1 DEF Start, Quits
  <2>3. \E r \in Task : r.at # "sending" /\ Becomes(i, r)
    <3>1. CASE Start(i)
      <4>1. task[i] \in Task /\ task[i].at = "queued"
        BY <3>1, StartStep, Types
      <4>2. task[i].s \in Sessions /\ task[i].t \in Terms
        BY <4>1, TaskFields
      <4>3. QED
        BY <3>1, <4>2, StartStep, TaskFields
    <3>2. CASE Quits(i)
      BY <3>2, TaskFields DEF Quits
    <3>3. QED
      BY <1>1, <3>1, <3>2
  <2>4. \A j \in Tasks : \/ task'[j] = task[j]
                         \/ task'[j].at # "sending" /\ task[j].at # "sending"
    BY <2>2, <2>3, Types DEF Becomes
  <2>5. QED
    BY <2>1, <2>4, SamePlaces DEF InTask
<1>2. ASSUME Aborts, UNCHANGED <<taken, channel, left>> PROVE OnceInv'
  <2>1. \A j \in Tasks : \/ task'[j] = task[j]
                         \/ task'[j].at # "sending" /\ task[j].at # "sending"
    BY <1>2, TaskFields DEF Aborts
  <2>2. QED
    BY <1>2, <2>1, SamePlaces DEF InTask
<1>3. ASSUME NEW s \in Sessions, NEW t \in Terms, Spawns(s, t) PROVE OnceInv'
  <2>1. UNCHANGED <<taken, channel, left>> /\ Spawn(s, t)
    BY <1>3 DEF Spawns, pty
  <2>2. \A j \in Tasks : \/ task'[j] = task[j]
                         \/ task'[j].at # "sending" /\ task[j].at # "sending"
    <3>1. PICK i \in Tasks :
             /\ task[i] = NoTask /\ task'[i] = Reader(s, t, "queued")
             /\ \A j \in Tasks \ {i} :
                  task'[j] = task[j] \/ (task[j].at = "queued" /\ task'[j] = NoTask)
      BY <2>1, SpawnStep
    <3>2. QED
      BY <3>1, TaskFields
  <2>3. QED
    BY <2>1, <2>2, SamePlaces DEF InTask
<1>4. QED
  BY <1>1, <1>2, <1>3

\* The chunk a read returns is new.
LEMMA ReadOnce == ASSUME TypeOK, OnceInv, NEW i \in Tasks, Reads(i) PROVE OnceInv'
<1> DEFINE u == task[i].t
           m == taken[u] + 1
<1>1. task[i] \in Task /\ task[i].at = "reading"
  BY Types DEF Reads
<1>2. u \in Terms /\ task[i].s \in Sessions
  BY <1>1, TaskFields
<1>3. m \in 1..MaxOut /\ UNCHANGED <<channel, left>>
      /\ \A t \in Terms : taken'[t] = IF t = u THEN m ELSE taken[t]
  BY <1>2, Types DEF Reads, history
<1>4. \A j \in Tasks : task'[j] = IF j = i THEN Sender(task[i].s, u, m) ELSE task[j]
  BY Types DEF Reads, Becomes
<1> HIDE DEF m, u
<1>5. \A j \in Tasks : \A t, n : InTask(j, t, n)' <=> (InTask(j, t, n) \/ (j = i /\ t = u /\ n = m))
  BY <1>1, <1>2, <1>3, <1>4, TaskFields DEF InTask
<1>6. ~WithTask(u, m) /\ ~WithSession(u, m) /\ left[u][m] = 0
  <2>1. ~(m <= taken[u])
    BY <1>2, Types DEF m
  <2>2. QED
    BY <1>2, <1>3, <2>1 DEF OnceInv, Accounted
<1>7. ASSUME NEW t \in Terms, NEW n \in 1..MaxOut PROVE InOnePlace(t, n)' /\ Accounted(t, n)'
  <2>1. InOnePlace(t, n) /\ Accounted(t, n)
    BY DEF OnceInv
  <2>2. \A s, k : InChannel(s, k, t, n)' <=> InChannel(s, k, t, n)
    BY <1>3 DEF InChannel
  <2>3. WithSession(t, n)' <=> WithSession(t, n)
    BY <1>3, <2>2 DEF WithSession
  <2>4. WithTask(t, n)' <=> (WithTask(t, n) \/ (t = u /\ n = m))
    BY <1>5 DEF WithTask
  <2>5. InOnePlace(t, n)'
    BY <1>3, <1>5, <1>6, <2>1, <2>2, <2>3, <2>4 DEF InOnePlace, WithTask
  <2>6. Accounted(t, n)'
    <3>1. n <= taken'[t] <=> (n <= taken[t] \/ (t = u /\ n = m))
      BY <1>2, <1>3, Types DEF m
    <3>2. t = u /\ n = m => left[t][n] = 0
      BY <1>6
    <3>3. QED
      BY <1>3, <2>1, <2>3, <2>4, <3>1, <3>2 DEF Accounted
  <2>7. QED
    BY <2>5, <2>6
<1>8. QED
  BY <1>7 DEF OnceInv

\* The chunk a task sent is at the end of the channel.
LEMMA SendOnce == ASSUME TypeOK, OnceInv, NEW i \in Tasks, Send(i) PROVE OnceInv'
<1> DEFINE r == task[i].s
           u == task[i].t
           m == task[i].n
           l == Len(channel[r]) + 1
<1>1. /\ task[i].at = "sending" /\ r \in Sessions /\ u \in Terms /\ m \in 1..MaxOut
      /\ Chunk(task[i]) \in Chunks /\ Chunk(task[i]).t = u /\ Chunk(task[i]).n = m
  BY SenderFacts DEF Send
<1>2. UNCHANGED <<taken, left>> /\ channel' = [channel EXCEPT ![r] = Append(@, Chunk(task[i]))]
      /\ task' = [task EXCEPT ![i] = Reader(r, u, "reading")]
  BY DEF Send, pty, history
<1>3. \A j \in Tasks : \A t, n : InTask(j, t, n)' <=> (InTask(j, t, n) /\ j # i)
  BY <1>1, <1>2, TaskFields, Types DEF InTask
<1>4. \A s \in Sessions : \A k, t, n :
        InChannel(s, k, t, n)' <=> (InChannel(s, k, t, n) \/ (s = r /\ k = l /\ t = u /\ n = m))
  <2>1. channel[r] \in Seq(Chunks) /\ channel'[r] = Append(channel[r], Chunk(task[i]))
        /\ \A s \in Sessions : s # r => channel'[s] = channel[s]
    BY <1>1, <1>2, Types
  <2>2. /\ DOMAIN channel[r] = 1..Len(channel[r]) /\ DOMAIN channel'[r] = 1..l
        /\ \A j \in 1..Len(channel[r]) : channel'[r][j] = channel[r][j]
        /\ channel'[r][l] = Chunk(task[i]) /\ Len(channel[r]) \in Nat
    BY <1>1, <2>1, AppendFacts
  <2>3. \A k : k \in 1..l <=> (k \in 1..Len(channel[r]) \/ k = l)
    BY <2>2
  <2>4. ~(l \in 1..Len(channel[r]))
    BY <2>2
  <2> HIDE DEF l, r, u, m
  <2>5. ASSUME NEW s \in Sessions, NEW k, NEW t, NEW n
        PROVE  InChannel(s, k, t, n)' <=> (InChannel(s, k, t, n) \/ (s = r /\ k = l /\ t = u /\ n = m))
    <3>1. CASE s # r
      BY <2>1, <3>1 DEF InChannel
    <3>2. CASE s = r /\ k = l
      BY <1>1, <2>2, <2>3, <2>4, <3>2 DEF InChannel
    <3>3. CASE s = r /\ k # l
      BY <2>2, <2>3, <3>3 DEF InChannel
    <3>4. QED
      BY <3>1, <3>2, <3>3
  <2>6. QED
    BY <2>5
<1>5. InTask(i, u, m)
  BY <1>1 DEF InTask
<1>6. \A k : ~InChannel(r, k, u, m)
  <2>1. WithTask(u, m) /\ InOnePlace(u, m)
    BY <1>1, <1>5 DEF WithTask, OnceInv
  <2>2. QED
    BY <1>1, <2>1 DEF InOnePlace, WithSession, InChannel
<1> HIDE DEF l, r, u, m
<1>7. ASSUME NEW t \in Terms, NEW n \in 1..MaxOut PROVE InOnePlace(t, n)' /\ Accounted(t, n)'
  <2>1. InOnePlace(t, n) /\ Accounted(t, n)
    BY DEF OnceInv
  <2>2. \A s \in Sessions : \A k : InChannel(s, k, t, n) => k \in DOMAIN channel[s]
    BY DEF InChannel
  <2>3. \A s \in Sessions : \A k : InChannel(s, k, t, n)' => k \in DOMAIN channel'[s]
    BY DEF InChannel
  <2>4. WithSession(t, n)' <=> (WithSession(t, n) \/ (t = u /\ n = m))
    BY <1>1, <1>4, <2>2, <2>3 DEF WithSession
  <2>5. WithTask(t, n)' <=> (WithTask(t, n) /\ ~(t = u /\ n = m))
    <3>1. \A j \in Tasks : InTask(j, t, n) => (j = i <=> (t = u /\ n = m))
      BY <1>5, <2>1 DEF InOnePlace, InTask, u, m
    <3>2. QED
      BY <1>3, <3>1 DEF WithTask
  <2>6. (t = u /\ n = m) => WithTask(t, n)
    BY <1>5 DEF WithTask
  <2>7. InOnePlace(t, n)'
    <3>1. \A j, k \in Tasks : InTask(j, t, n)' /\ InTask(k, t, n)' => j = k
      BY <1>3, <2>1 DEF InOnePlace
    <3>2. ~(WithTask(t, n)' /\ WithSession(t, n)')
      BY <2>1, <2>4, <2>5 DEF InOnePlace
    <3>3. ASSUME NEW a \in Sessions, NEW b \in Sessions,
                 NEW j, NEW k, InChannel(a, j, t, n)', InChannel(b, k, t, n)'
          PROVE  a = b /\ j = k
      <4>1. CASE t = u /\ n = m
        <5>1. ~InChannel(a, j, t, n) /\ ~InChannel(b, k, t, n)
          BY <2>1, <2>2, <2>6, <4>1 DEF InOnePlace, WithSession
        <5>2. QED
          BY <1>4, <3>3, <5>1
      <4>2. CASE ~(t = u /\ n = m)
        BY <1>4, <2>1, <2>2, <3>3, <4>2 DEF InOnePlace
      <4>3. QED
        BY <4>1, <4>2
    <3>4. QED
      BY <3>1, <3>2, <3>3 DEF InOnePlace
  <2>8. Accounted(t, n)'
    BY <1>2, <2>1, <2>4, <2>5, <2>6 DEF Accounted
  <2>9. QED
    BY <2>7, <2>8
<1>8. QED
  BY <1>7 DEF OnceInv

\* Or, with the receiver gone, it is lost.
LEMMA SendFailsOnce == ASSUME TypeOK, OnceInv, NEW i \in Tasks, SendFails(i) PROVE OnceInv'
<1> DEFINE u == task[i].t
           m == task[i].n
<1>1. /\ task[i].at = "sending" /\ u \in Terms /\ m \in 1..MaxOut
      /\ Chunk(task[i]) \in Chunks /\ Chunk(task[i]).t = u /\ Chunk(task[i]).n = m
  BY SenderFacts DEF SendFails
<1>2. UNCHANGED <<taken, channel>> /\ task' = [task EXCEPT ![i] = NoTask]
      /\ Lose(task[i].s, {Chunk(task[i])})
  BY DEF SendFails, LoseLate, pty
<1>3. \A j \in Tasks : \A t, n : InTask(j, t, n)' <=> (InTask(j, t, n) /\ j # i)
  BY <1>1, <1>2, TaskFields, Types DEF InTask
<1>4. \A t \in Terms, n \in 1..MaxOut :
        left'[t][n] = left[t][n] + IF t = u /\ n = m THEN 1 ELSE 0
  BY <1>1, <1>2, LostOnce
<1>5. InTask(i, u, m)
  BY <1>1 DEF InTask
<1> HIDE DEF u, m
<1>6. ASSUME NEW t \in Terms, NEW n \in 1..MaxOut PROVE InOnePlace(t, n)' /\ Accounted(t, n)'
  <2>1. InOnePlace(t, n) /\ Accounted(t, n)
    BY DEF OnceInv
  <2>2. \A s, k : InChannel(s, k, t, n)' <=> InChannel(s, k, t, n)
    BY <1>2 DEF InChannel
  <2>3. WithSession(t, n)' <=> WithSession(t, n)
    BY <1>2, <2>2 DEF WithSession
  <2>4. WithTask(t, n)' <=> (WithTask(t, n) /\ ~(t = u /\ n = m))
    <3>1. \A j \in Tasks : InTask(j, t, n) => (j = i <=> (t = u /\ n = m))
      BY <1>5, <2>1 DEF InOnePlace, InTask, u, m
    <3>2. QED
      BY <1>3, <3>1 DEF WithTask
  <2>5. (t = u /\ n = m) => WithTask(t, n)
    BY <1>5 DEF WithTask
  <2>6. InOnePlace(t, n)'
    BY <1>2, <1>3, <2>1, <2>2, <2>3, <2>4 DEF InOnePlace
  <2>7. Accounted(t, n)'
    <3>1. CASE t = u /\ n = m
      BY <1>2, <1>4, <2>1, <2>3, <2>4, <2>5, <3>1 DEF Accounted, InOnePlace
    <3>2. CASE ~(t = u /\ n = m)
      BY <1>2, <1>4, <2>1, <2>3, <2>4, <3>2 DEF Accounted
    <3>3. QED
      BY <3>1, <3>2
  <2>8. QED
    BY <2>6, <2>7
<1>7. QED
  BY <1>6 DEF OnceInv

\* The first frame leaves the channel and is drawn or lost.
LEMMA ShowOnce == ASSUME TypeOK, OnceInv, NEW s \in Sessions, Shows(s) PROVE OnceInv'
<1> DEFINE c == Head(channel[s])
           u == c.t
           m == c.n
<1>1. c \in Chunks /\ u \in Terms /\ m \in 1..MaxOut /\ 1 \in DOMAIN channel[s] /\ channel[s][1] = c
  BY HeadFacts DEF Shows
<1>2. UNCHANGED <<taken, task>> /\ channel' = [channel EXCEPT ![s] = Tail(@)] /\ channel[s] # <<>>
  BY DEF Shows, pty
<1>3. \A t \in Terms, n \in 1..MaxOut :
        left'[t][n] = left[t][n] + IF t = u /\ n = m THEN 1 ELSE 0
  <2>1. CASE Draw(s, c)
    <3>1. left' = [left EXCEPT ![u][m] = @ + 1]
      BY <2>1 DEF Draw
    <3>2. ASSUME NEW t \in Terms, NEW n \in 1..MaxOut
          PROVE  left'[t][n] = left[t][n] + IF t = u /\ n = m THEN 1 ELSE 0
      <4>1. left \in [Terms -> [1..MaxOut -> 0..1]] /\ left[t] \in [1..MaxOut -> 0..1]
            /\ left[t][n] \in {0, 1}
        BY LeftFacts DEF TypeOK
      <4>2. left'[t] = IF t = u THEN [left[t] EXCEPT ![m] = @ + 1] ELSE left[t]
        BY <1>1, <3>1, <4>1
      <4>3. left'[t][n] = IF t = u /\ n = m THEN left[t][n] + 1 ELSE left[t][n]
        BY <1>1, <4>1, <4>2
      <4>4. QED
        BY <4>1, <4>3
    <3>3. QED
      BY <3>2
  <2>2. CASE Lose(s, {c})
    BY <1>1, <2>2, LostOnce
  <2>3. QED
    BY <2>1, <2>2 DEF Shows
<1>4. InChannel(s, 1, u, m)
  BY <1>1 DEF InChannel
<1>5. \A t, n, k : InChannel(s, k, t, n)' <=> (k \in Nat \ {0} /\ InChannel(s, k + 1, t, n))
  <2>1. channel[s] \in Seq(Chunks) /\ channel'[s] = Tail(channel[s])
    BY <1>2, Types
  <2>2. /\ Len(channel[s]) \in Nat \ {0}
        /\ DOMAIN channel[s] = 1..Len(channel[s]) /\ DOMAIN channel'[s] = 1..(Len(channel[s]) - 1)
        /\ \A j \in 1..(Len(channel[s]) - 1) : channel'[s][j] = channel[s][j + 1]
    BY <1>2, <2>1, TailFacts
  <2>3. \A k : k \in 1..(Len(channel[s]) - 1) <=> (k \in Nat \ {0} /\ k + 1 \in 1..Len(channel[s]))
    BY <2>2
  <2>4. QED
    BY <2>2, <2>3 DEF InChannel
<1>6. \A r \in Sessions : \A k, t, n : r # s => (InChannel(r, k, t, n)' <=> InChannel(r, k, t, n))
  <2>1. \A r \in Sessions : r # s => channel'[r] = channel[r]
    BY <1>2, Types
  <2>2. QED
    BY <2>1 DEF InChannel
<1>7. \A k, t, n : InChannel(s, k, t, n) =>
        \/ k = 1 /\ t = u /\ n = m
        \/ k - 1 \in Nat \ {0} /\ (k - 1) + 1 = k
  <2>1. DOMAIN channel[s] = 1..Len(channel[s]) /\ Len(channel[s]) \in Nat
    BY <1>2, TailFacts, Types
  <2>2. \A k \in 1..Len(channel[s]) : k = 1 \/ (k - 1 \in Nat \ {0} /\ (k - 1) + 1 = k)
    BY <2>1
  <2>3. QED
    BY <1>1, <2>1, <2>2 DEF InChannel
<1> HIDE DEF c, u, m
<1>8. ASSUME NEW t \in Terms, NEW n \in 1..MaxOut PROVE InOnePlace(t, n)' /\ Accounted(t, n)'
  <2>1. InOnePlace(t, n) /\ Accounted(t, n)
    BY DEF OnceInv
  <2>2. \A j : InTask(j, t, n)' <=> InTask(j, t, n)
    BY <1>2 DEF InTask
  <2>3. WithTask(t, n)' <=> WithTask(t, n)
    BY <2>2 DEF WithTask
  <2>4. \A r \in Sessions : \A k : InChannel(r, k, t, n) => k \in DOMAIN channel[r]
    BY DEF InChannel
  <2>5. \A r \in Sessions : \A k : InChannel(r, k, t, n)' => k \in DOMAIN channel'[r]
    BY DEF InChannel
  <2>6. t = u /\ n = m => \A r \in Sessions : \A k : InChannel(r, k, t, n) => r = s /\ k = 1
    BY <1>4, <2>1, <2>4 DEF InOnePlace
  <2>7. t = u /\ n = m => \A r \in Sessions : \A k : ~InChannel(r, k, t, n)'
    <3>1. \A k : k \in Nat \ {0} => k + 1 # 1
      OBVIOUS
    <3>2. QED
      BY <1>5, <1>6, <2>6, <3>1
  <2>8. WithSession(t, n)' <=> (WithSession(t, n) /\ ~(t = u /\ n = m))
    <3>1. WithSession(t, n)' => WithSession(t, n)
      BY <1>5, <1>6, <2>4, <2>5 DEF WithSession
    <3>2. t = u /\ n = m => ~WithSession(t, n)'
      BY <2>7 DEF WithSession
    <3>3. ASSUME NEW r \in Sessions, NEW k, InChannel(r, k, t, n), ~(t = u /\ n = m)
          PROVE  WithSession(t, n)'
      <4>1. CASE r = s
        <5>1. k - 1 \in Nat \ {0} /\ (k - 1) + 1 = k
          BY <1>7, <3>3, <4>1
        <5>2. InChannel(s, k - 1, t, n)'
          BY <1>5, <3>3, <4>1, <5>1
        <5>3. QED
          BY <2>5, <5>2 DEF WithSession
      <4>2. CASE r # s
        BY <1>6, <2>5, <3>3, <4>2 DEF WithSession
      <4>3. QED
        BY <4>1, <4>2
    <3>4. QED
      BY <3>1, <3>2, <3>3 DEF WithSession
  <2>9. t = u /\ n = m => WithSession(t, n)
    BY <1>1, <1>4 DEF WithSession
  <2>10. InOnePlace(t, n)'
    <3>1. \A j, k \in Tasks : InTask(j, t, n)' /\ InTask(k, t, n)' => j = k
      BY <2>1, <2>2 DEF InOnePlace
    <3>2. ~(WithTask(t, n)' /\ WithSession(t, n)')
      BY <2>1, <2>3, <2>8 DEF InOnePlace
    <3>3. ASSUME NEW a \in Sessions, NEW b \in Sessions,
                 NEW j, NEW k, InChannel(a, j, t, n)', InChannel(b, k, t, n)'
          PROVE  a = b /\ j = k
      <4>1. \E x : InChannel(a, x, t, n) /\ (IF a = s THEN j \in Nat /\ x = j + 1 ELSE x = j)
        BY <1>5, <1>6, <3>3
      <4>2. \E x : InChannel(b, x, t, n) /\ (IF b = s THEN k \in Nat /\ x = k + 1 ELSE x = k)
        BY <1>5, <1>6, <3>3
      <4>3. QED
        BY <2>1, <2>4, <4>1, <4>2 DEF InOnePlace
    <3>4. QED
      BY <3>1, <3>2, <3>3 DEF InOnePlace
  <2>11. Accounted(t, n)'
    <3>1. CASE t = u /\ n = m
      BY <1>2, <1>3, <2>1, <2>3, <2>8, <2>9, <3>1 DEF Accounted, InOnePlace
    <3>2. CASE ~(t = u /\ n = m)
      BY <1>2, <1>3, <2>1, <2>3, <2>8, <3>2 DEF Accounted
    <3>3. QED
      BY <3>1, <3>2
  <2>12. QED
    BY <2>10, <2>11
<1>9. QED
  BY <1>8 DEF OnceInv

\* All that was in the channel is lost.
LEMMA WriteFailsOnce == ASSUME TypeOK, OnceInv, NEW s \in Sessions, WriteFails(s) PROVE OnceInv'
<1> DEFINE C == {channel[s][k] : k \in DOMAIN channel[s]}
<1>1. UNCHANGED <<taken, task>> /\ channel' = [channel EXCEPT ![s] = <<>>] /\ Lose(s, C)
  BY DEF WriteFails, pty
<1>2. channel[s] \in Seq(Chunks)
  BY Types
<1>3. C \subseteq Chunks
  <2>1. \A k \in DOMAIN channel[s] : channel[s][k] \in Chunks
    BY <1>2
  <2>2. QED
    BY <2>1
<1>4. \A t \in Terms, n \in 1..MaxOut :
        left'[t][n] = left[t][n] + IF \E k : InChannel(s, k, t, n) THEN 1 ELSE 0
  <2>1. ASSUME NEW t \in Terms, NEW n \in 1..MaxOut
        PROVE  left'[t][n] = left[t][n] + IF \E k : InChannel(s, k, t, n) THEN 1 ELSE 0
    <3>1. (\E c \in C : c.t = t /\ c.n = n) <=> (\E k : InChannel(s, k, t, n))
      BY DEF InChannel
    <3> HIDE DEF C
    <3>2. left'[t][n] = left[t][n] + IF \E c \in C : c.t = t /\ c.n = n THEN 1 ELSE 0
      BY <1>1, <1>3, LostOnce
    <3>3. QED
      BY <3>1, <3>2
  <2>2. QED
    BY <2>1
<1>5. \A k, t, n : ~InChannel(s, k, t, n)'
  <2>1. channel'[s] = <<>> /\ DOMAIN <<>> = {}
    BY <1>1, Types, EmptyFacts
  <2>2. QED
    BY <2>1 DEF InChannel
<1>6. \A r \in Sessions : \A k, t, n : r # s => (InChannel(r, k, t, n)' <=> InChannel(r, k, t, n))
  <2>1. \A r \in Sessions : r # s => channel'[r] = channel[r]
    BY <1>1, Types
  <2>2. QED
    BY <2>1 DEF InChannel
<1> HIDE DEF C
<1>7. ASSUME NEW t \in Terms, NEW n \in 1..MaxOut PROVE InOnePlace(t, n)' /\ Accounted(t, n)'
  <2>1. InOnePlace(t, n) /\ Accounted(t, n)
    BY DEF OnceInv
  <2>2. \A j : InTask(j, t, n)' <=> InTask(j, t, n)
    BY <1>1 DEF InTask
  <2>3. WithTask(t, n)' <=> WithTask(t, n)
    BY <2>2 DEF WithTask
  <2>4. \A r \in Sessions : \A k : InChannel(r, k, t, n) => k \in DOMAIN channel[r]
    BY DEF InChannel
  <2>5. \A r \in Sessions : \A k : InChannel(r, k, t, n)' => k \in DOMAIN channel'[r]
    BY DEF InChannel
  <2>6. \A r \in Sessions : \A k : InChannel(r, k, t, n)' <=> (InChannel(r, k, t, n) /\ r # s)
    BY <1>5, <1>6
  <2>7. InOnePlace(t, n)'
    <3>1. \A j, k \in Tasks : InTask(j, t, n)' /\ InTask(k, t, n)' => j = k
      BY <2>1, <2>2 DEF InOnePlace
    <3>2. ~(WithTask(t, n)' /\ WithSession(t, n)')
      BY <2>1, <2>3, <2>4, <2>6 DEF InOnePlace, WithSession
    <3>3. \A a, b \in Sessions : \A j, k : InChannel(a, j, t, n)' /\ InChannel(b, k, t, n)' => a = b /\ j = k
      BY <2>1, <2>4, <2>6 DEF InOnePlace
    <3>4. QED
      BY <3>1, <3>2, <3>3 DEF InOnePlace
  <2>8. Accounted(t, n)'
    <3>1. CASE \E k : InChannel(s, k, t, n)
      <4>1. WithSession(t, n) /\ ~WithTask(t, n) /\ left[t][n] = 0
        BY <2>1, <2>4, <3>1 DEF WithSession, InOnePlace, Accounted
      <4>2. \A r \in Sessions : \A k : InChannel(r, k, t, n) => r = s
        BY <2>1, <2>4, <3>1 DEF InOnePlace
      <4>3. ~WithSession(t, n)'
        BY <2>6, <4>2 DEF WithSession
      <4>4. left'[t][n] = 1 /\ taken'[t] = taken[t]
        BY <1>1, <1>4, <3>1, <4>1
      <4>5. QED
        BY <2>1, <2>3, <4>1, <4>3, <4>4 DEF Accounted
    <3>2. CASE ~\E k : InChannel(s, k, t, n)
      <4>1. left'[t][n] = left[t][n] /\ taken'[t] = taken[t]
        BY <1>1, <1>4, <3>2, <2>1 DEF Accounted
      <4>2. WithSession(t, n)' <=> WithSession(t, n)
        BY <2>4, <2>5, <2>6, <3>2 DEF WithSession
      <4>3. QED
        BY <2>1, <2>3, <4>1, <4>2 DEF Accounted
    <3>3. QED
      BY <3>1, <3>2
  <2>9. QED
    BY <2>7, <2>8
<1>8. QED
  BY <1>7 DEF OnceInv

LEMMA NextOnce == ASSUME TypeOK, OnceInv, Next PROVE OnceInv'
<1>1. ASSUME NEW t \in Terms, Produce(t) \/ Exit(t) PROVE OnceInv'
  BY <1>1, SamePlaces DEF Produce, Exit, InTask, history
<1>2. ASSUME NEW s \in Sessions, Ends(s) PROVE OnceInv'
  BY <1>2, IdleOnce DEF Ends, Closes, pty, history
<1>3. ASSUME NEW s \in Sessions, NEW t \in Terms, Removes(s, t) PROVE OnceInv'
  BY <1>3, IdleOnce DEF Removes, pty
<1>4. QED
  BY <1>1, <1>2, <1>3, NextCases, IdleOnce, ReadOnce, SendOnce, SendFailsOnce, ShowOnce,
     WriteFailsOnce

\* Nothing changes in a step that is none.
LEMMA StutterType == ASSUME TypeOK, UNCHANGED vars PROVE TypeOK'
  BY DEF vars, pty, history, TypeOK, Running

LEMMA StutterOnce == ASSUME TypeOK, OnceInv, UNCHANGED vars PROVE OnceInv'
  BY SamePlaces DEF vars, pty, history, InTask

LEMMA LeftType ==
  ASSUME TypeOK, Next, OnceInv'
  PROVE  left' \in [Terms -> [1..MaxOut -> 0..1]]
<1> DEFINE Ok == left' \in [Terms -> [1..MaxOut -> 0..1]]
<1>1. \A t \in Terms, n \in 1..MaxOut : left'[t][n] \in 0..1
  BY DEF OnceInv, Accounted
<1>2. left \in [Terms -> [1..MaxOut -> 0..1]]
  BY DEF TypeOK
<1>3. ASSUME NEW s, NEW C, Lose(s, C) PROVE Ok
  <2> DEFINE E(t, n) == left[t][n] + Cardinality({c \in C : c.t = t /\ c.n = n})
  <2>1. left' = [t \in Terms |-> [n \in 1..MaxOut |-> E(t, n)]]
    BY <1>3, Zenon DEF Lose
  <2> HIDE DEF E
  <2>2. \A t \in Terms, n \in 1..MaxOut : left'[t][n] = E(t, n)
    BY <2>1
  <2>3. \A t \in Terms, n \in 1..MaxOut : E(t, n) \in 0..1
    BY <1>1, <2>2
  <2>4. QED
    BY <2>1, <2>3
<1>4. ASSUME NEW t \in Terms, NEW n \in 1..MaxOut, left' = [left EXCEPT ![t][n] = @ + 1] PROVE Ok
  <2>1. left[t] \in [1..MaxOut -> 0..1]
    BY <1>2
  <2>2. left' = [left EXCEPT ![t] = [left[t] EXCEPT ![n] = left[t][n] + 1]]
    BY <1>4
  <2>3. left'[t][n] = left[t][n] + 1
    BY <1>2, <2>1, <2>2
  <2>4. left[t][n] + 1 \in 0..1
    BY <1>1, <2>3
  <2>5. [left[t] EXCEPT ![n] = left[t][n] + 1] \in [1..MaxOut -> 0..1]
    BY <2>1, <2>4
  <2>6. QED
    BY <1>2, <2>2, <2>5
<1>5. ASSUME left' = left PROVE Ok
  BY <1>2, <1>5
<1>6. ASSUME NEW s \in Sessions, Shows(s) PROVE Ok
  <2>1. CASE Draw(s, Head(channel[s]))
    BY <1>4, <1>6, <2>1, HeadFacts DEF Draw, Shows
  <2>2. QED
    BY <1>3, <1>6, <2>1 DEF Shows
<1>7. ASSUME NEW i \in Tasks, SendFails(i) PROVE Ok
  BY <1>3, <1>7 DEF SendFails, LoseLate
<1>8. ASSUME NEW s \in Sessions, WriteFails(s) PROVE Ok
  BY <1>3, <1>8 DEF WriteFails
<1> HIDE DEF Ok
<1>9. Ok
  BY <1>5, <1>6, <1>7, <1>8, NextCases, Zenon
  DEF Produce, Exit, Start, Reads, Quits, Send, Ends, Closes, Spawns, Removes, history
<1>10. QED
  BY <1>9 DEF Ok

LEMMA InitInv == Init => TypeOK /\ OnceInv
<1> SUFFICES ASSUME Init PROVE TypeOK /\ OnceInv
  OBVIOUS
<1> USE BoundsAssumption
<1>1. PtyOK
  BY DEF Init, PtyOK
<1>2. TaskOK
  <2>1. task \in [Tasks -> Task] /\ \A i \in Tasks : task[i].at = "none"
    BY TaskFields DEF Init
  <2>2. Running = {}
    BY <2>1 DEF Running
  <2>3. QED
    BY <2>1, <2>2, FS_EmptySet DEF TaskOK
<1>3. SessionOK
  BY DEF Init, SessionOK
<1>4. ChannelOK
  <2>1. <<>> \in Seq(Chunks) /\ Len(<<>>) = 0
    BY EmptyFacts
  <2>2. QED
    BY <2>1 DEF Init, ChannelOK
<1>5. SeenOK
  BY DEF Init, SeenOK
<1>6. left \in [Terms -> [1..MaxOut -> 0..1]]
  BY DEF Init
<1>7. TypeOK
  BY <1>1, <1>2, <1>3, <1>4, <1>5, <1>6, TypeParts
<1>8. ASSUME NEW t \in Terms, NEW n \in 1..MaxOut PROVE InOnePlace(t, n) /\ Accounted(t, n)
  <2>1. \A i \in Tasks : ~InTask(i, t, n)
    BY TaskFields DEF Init, InTask
  <2>2. \A s \in Sessions : DOMAIN channel[s] = {}
    BY EmptyFacts DEF Init
  <2>3. ~WithTask(t, n) /\ ~WithSession(t, n)
    BY <2>1, <2>2 DEF WithTask, WithSession
  <2>4. left[t][n] = 0 /\ taken[t] = 0
    BY DEF Init
  <2>5. QED
    BY <2>1, <2>2, <2>3, <2>4 DEF InOnePlace, Accounted
<1>9. QED
  BY <1>7, <1>8 DEF OnceInv

LEMMA NextInv == TypeOK /\ OnceInv /\ [Next]_vars => TypeOK' /\ OnceInv'
<1> SUFFICES ASSUME TypeOK, OnceInv, [Next]_vars PROVE TypeOK' /\ OnceInv'
  OBVIOUS
<1>1. CASE Next
  <2>1. OnceInv'
    BY <1>1, NextOnce
  <2>2. TypeOK'
    <3>1. PtyOK' /\ TaskOK' /\ SessionOK' /\ ChannelOK' /\ SeenOK'
      BY <1>1, PtyType, TaskType, SessionType, ChannelType, SeenType
    <3>2. left' \in [Terms -> [1..MaxOut -> 0..1]]
      BY <1>1, <2>1, LeftType
    <3>3. QED
      BY <3>1, <3>2 DEF TypeOK, PtyOK, TaskOK, SessionOK, ChannelOK, SeenOK
  <2>3. QED
    BY <2>1, <2>2
<1>2. CASE UNCHANGED vars
  BY <1>2, StutterType, StutterOnce
<1>3. QED
  BY <1>1, <1>2

\* Every state of the readers is of its type: threads and channels hold what
\* they have room for, whoever comes and goes (server/mod.rs).
THEOREM TypeCorrect == Spec => []TypeOK
BY InitInv, NextInv, PTL DEF Spec

\* The places of a chunk are that of a task and those of the channels.
LEMMA PlacesCounted ==
  ASSUME TypeOK, OnceInv, NEW t \in Terms, NEW n \in 1..MaxOut
  PROVE  Cardinality(Places(t, n)) + left[t][n] = IF n <= taken[t] THEN 1 ELSE 0
<1> DEFINE T == {<<"task", i>> : i \in {j \in Tasks : InTask(j, t, n)}}
           K(s) == {<<"channel", s, k>> : k \in {j \in DOMAIN channel[s] : InChannel(s, j, t, n)}}
           C == UNION {K(s) : s \in Sessions}
<1>1. Places(t, n) = T \cup C
  BY DEF Places, InTask, InChannel
<1>2. InOnePlace(t, n) /\ Accounted(t, n)
  BY DEF OnceInv
<1>3. \A p : p \in T <=> \E i \in Tasks : InTask(i, t, n) /\ p = <<"task", i>>
  OBVIOUS
<1>4. \A p : p \in C <=> \E s \in Sessions : \E k \in DOMAIN channel[s] :
                           InChannel(s, k, t, n) /\ p = <<"channel", s, k>>
  OBVIOUS
<1> HIDE DEF T, C
<1>5. CASE WithTask(t, n)
  <2>1. PICK i \in Tasks : InTask(i, t, n)
    BY <1>5 DEF WithTask
  <2>2. T = {<<"task", i>>}
    BY <1>2, <1>3, <2>1 DEF InOnePlace
  <2>3. C = {}
    BY <1>2, <1>4, <1>5 DEF InOnePlace, WithSession
  <2>4. Cardinality(Places(t, n)) = 1
    <3>1. Places(t, n) = {<<"task", i>>}
      BY <1>1, <2>2, <2>3
    <3>2. QED
      BY <3>1, FS_Singleton
  <2>5. QED
    BY <1>2, <1>5, <2>4 DEF Accounted
<1>6. CASE WithSession(t, n)
  <2>1. PICK s \in Sessions : \E k \in DOMAIN channel[s] : InChannel(s, k, t, n)
    BY <1>6 DEF WithSession
  <2>2. PICK k \in DOMAIN channel[s] : InChannel(s, k, t, n)
    BY <2>1
  <2>3. C = {<<"channel", s, k>>}
    BY <1>2, <1>4, <2>1, <2>2 DEF InOnePlace
  <2>4. T = {}
    BY <1>2, <1>3, <1>6 DEF InOnePlace, WithTask
  <2>5. Cardinality(Places(t, n)) = 1
    <3>1. Places(t, n) = {<<"channel", s, k>>}
      BY <1>1, <2>3, <2>4
    <3>2. QED
      BY <3>1, FS_Singleton
  <2>6. QED
    BY <1>2, <1>6, <2>5 DEF Accounted
<1>7. CASE ~WithTask(t, n) /\ ~WithSession(t, n)
  <2>1. T = {} /\ C = {}
    BY <1>3, <1>4, <1>7 DEF WithTask, WithSession
  <2>2. Cardinality(Places(t, n)) = 0
    BY <1>1, <2>1, FS_EmptySet
  <2>3. QED
    BY <1>2, <1>7, <2>2 DEF Accounted
<1>8. QED
  BY <1>5, <1>6, <1>7

\* However many sessions read a terminal and whatever becomes of them, every
\* chunk that was read is in one place: none goes astray or is seen twice
\* (clone_reader, spawn_pty_reader).
THEOREM ChunksCorrect == Spec => []EachChunkOnce
<1>1. TypeOK /\ OnceInv => EachChunkOnce
  BY PlacesCounted DEF EachChunkOnce
<1>2. QED
  BY <1>1, InitInv, NextInv, PTL DEF Spec

-----------------------------------------------------------------------------
(* Order *)

OrderInv == NumbersKnown /\ SinglesInOrder /\ DrawnInOrder

\* The steps that give no session another reader, and make no task send.
Calms ==
  /\ \A j \in Tasks : \A s, t : IsOf(j, s, t)' => IsOf(j, s, t)
  /\ \A j \in Tasks : task'[j].at = "sending" => task'[j] = task[j]

LEMMA CalmSteps ==
  ASSUME TypeOK, NEW i \in Tasks, NEW r \in Task, Becomes(i, r), r.at # "sending",
         r.at # "none" => task[i].at # "none" /\ r.s = task[i].s /\ r.t = task[i].t
  PROVE  Calms
<1>1. \A j \in Tasks : task'[j] = IF j = i THEN r ELSE task[j]
  BY Types DEF Becomes
<1>2. QED
  BY <1>1 DEF Calms, IsOf

LEMMA TaskCalms ==
  ASSUME TypeOK, NEW i \in Tasks, Start(i) \/ Quits(i) \/ Send(i) \/ SendFails(i)
  PROVE  Calms
<1>1. CASE Start(i) \/ Send(i)
  <2> DEFINE r == Reader(task[i].s, task[i].t, "reading")
  <2>1. task[i] \in Task /\ task[i].at \in {"queued", "sending"} /\ Becomes(i, r)
    BY <1>1, StartStep, Types DEF Start, Send, Becomes
  <2>2. task[i].s \in Sessions /\ task[i].t \in Terms
    BY <2>1, TaskFields
  <2>3. r \in Task /\ r.at = "reading" /\ r.s = task[i].s /\ r.t = task[i].t
    BY <2>2, TaskFields
  <2> HIDE DEF r
  <2>4. QED
    BY <2>1, <2>3, CalmSteps
<1>2. CASE Quits(i) \/ SendFails(i)
  <2>1. Becomes(i, NoTask)
    BY <1>2 DEF Quits, SendFails, Becomes
  <2>2. QED
    BY <2>1, TaskFields, CalmSteps
<1>3. QED
  BY <1>1, <1>2

LEMMA AbortCalms == ASSUME TypeOK, Aborts PROVE Calms
  BY TaskFields DEF Aborts, Calms, IsOf

LEMMA SameCalms == ASSUME UNCHANGED task PROVE Calms
  BY DEF Calms, IsOf

\* These keep what a session has in order, when the channel stays.
LEMMA CalmOrder ==
  ASSUME TypeOK, OrderInv, Calms, UNCHANGED <<taken, channel, drawn, disorder, doubled>>
  PROVE  OrderInv'
<1>1. NumbersKnown'
  BY DEF OrderInv, NumbersKnown, Calms
<1>2. ASSUME NEW s \in Sessions, NEW t \in Terms, <<s, t>> \notin doubled'
      PROVE  OneReader(s, t)' /\ InOrder(s, t)'
  <2>1. OneReader(s, t) /\ InOrder(s, t)
    BY <1>2 DEF OrderInv, SinglesInOrder
  <2>2. OneReader(s, t)'
    BY <2>1 DEF OneReader, Calms
  <2>3. ASSUME NEW j \in Tasks, IsOf(j, s, t)', task'[j].at = "sending"
        PROVE  IsOf(j, s, t) /\ task[j].at = "sending" /\ task'[j].n = task[j].n
    BY <2>3 DEF Calms
  <2>4. InOrder(s, t)'
    BY <2>1, <2>3 DEF InOrder
  <2>5. QED
    BY <2>2, <2>4
<1>3. DrawnInOrder'
  BY DEF OrderInv, DrawnInOrder
<1>4. QED
  BY <1>1, <1>2, <1>3 DEF OrderInv, SinglesInOrder

\* A session that had no reader for a terminal has one now; or else two.
LEMMA SpawnOrder ==
  ASSUME TypeOK, OrderInv, NEW s \in Sessions, NEW t \in Terms, Spawns(s, t)
  PROVE  OrderInv'
<1>1. UNCHANGED <<taken, channel, drawn, disorder>> /\ Spawn(s, t)
  BY DEF Spawns, pty
<1>2. PICK i \in Tasks :
         /\ task[i] = NoTask /\ task'[i] = Reader(s, t, "queued")
         /\ \A j \in Tasks \ {i} :
              task'[j] = task[j] \/ (task[j].at = "queued" /\ task'[j] = NoTask)
  BY <1>1, SpawnStep
<1>3. doubled \subseteq doubled' /\ (<<s, t>> \notin doubled' => \A j \in Tasks : ~IsOf(j, s, t))
  BY <1>1 DEF Spawn
<1>4. \A j \in Tasks : task'[j].at = "sending" => task'[j] = task[j]
  BY <1>2, TaskFields
<1>5. \A j \in Tasks : \A r, u : IsOf(j, r, u)' => (IsOf(j, r, u) \/ (j = i /\ r = s /\ u = t))
  BY <1>2, TaskFields DEF IsOf
<1>6. NumbersKnown'
  BY <1>1, <1>4 DEF OrderInv, NumbersKnown
<1>7. ASSUME NEW r \in Sessions, NEW u \in Terms, <<r, u>> \notin doubled'
      PROVE  OneReader(r, u)' /\ InOrder(r, u)'
  <2>1. OneReader(r, u) /\ InOrder(r, u)
    BY <1>3, <1>7 DEF OrderInv, SinglesInOrder
  <2>2. OneReader(r, u)'
    <3>1. CASE r = s /\ u = t
      BY <1>3, <1>5, <1>7, <3>1 DEF OneReader
    <3>2. CASE ~(r = s /\ u = t)
      BY <1>5, <2>1, <3>2 DEF OneReader
    <3>3. QED
      BY <3>1, <3>2
  <2>3. ASSUME NEW j \in Tasks, IsOf(j, r, u)', task'[j].at = "sending"
        PROVE  IsOf(j, r, u) /\ task[j].at = "sending" /\ task'[j].n = task[j].n
    BY <1>4, <2>3 DEF IsOf
  <2>4. InOrder(r, u)'
    BY <1>1, <2>1, <2>3 DEF InOrder
  <2>5. QED
    BY <2>2, <2>4
<1>8. DrawnInOrder'
  BY <1>1, <1>3 DEF OrderInv, DrawnInOrder
<1>9. QED
  BY <1>6, <1>7, <1>8 DEF OrderInv, SinglesInOrder

\* A task keeps its session and terminal as it reads.
LEMMA ReadsIsOf ==
  ASSUME TypeOK, NEW i \in Tasks, Reads(i)
  PROVE  \A j \in Tasks : \A s, t : IsOf(j, s, t)' <=> IsOf(j, s, t)
<1>1. task[i] \in Task /\ task[i].at = "reading"
  BY Types DEF Reads
<1>2. task[i].s \in Sessions /\ task[i].t \in Terms /\ taken[task[i].t] + 1 \in 1..MaxOut
  BY <1>1, TaskFields DEF Reads
<1>3. \A j \in Tasks :
        task'[j] = IF j = i THEN Sender(task[i].s, task[i].t, taken[task[i].t] + 1) ELSE task[j]
  BY Types DEF Reads, Becomes
<1>4. /\ task'[i].at = "sending" /\ task'[i].s = task[i].s /\ task'[i].t = task[i].t
      /\ \A j \in Tasks : j # i => task'[j] = task[j]
  BY <1>2, <1>3, TaskFields
<1>5. QED
  BY <1>1, <1>4 DEF IsOf

\* The numbers of chunks are natural.
LEMMA NumberFacts ==
  ASSUME TypeOK, NEW s \in Sessions
  PROVE  /\ \A k \in DOMAIN channel[s] :
              channel[s][k] \in Chunks /\ channel[s][k].t \in Terms /\ channel[s][k].n \in Nat
         /\ \A t \in Terms : drawn[s][t] \in Nat
<1>1. channel[s] \in Seq(Chunks)
  BY Types
<1>2. \A k \in DOMAIN channel[s] : channel[s][k] \in Chunks
  BY <1>1
<1>3. \A t \in Terms : drawn[s][t] \in Nat
  BY Types DEF TypeOK
<1>4. MaxOut \in Nat
  BY Types
<1>5. QED
  BY <1>2, <1>3, <1>4 DEF Chunks

\* What is read is newer than all that was.
LEMMA ReadOrder == ASSUME TypeOK, OrderInv, NEW i \in Tasks, Reads(i) PROVE OrderInv'
<1> DEFINE r == task[i].s
           u == task[i].t
           m == taken[u] + 1
<1>1. task[i] \in Task /\ task[i].at = "reading"
  BY Types DEF Reads
<1>2. u \in Terms /\ r \in Sessions
  BY <1>1, TaskFields
<1>3. m \in 1..MaxOut /\ UNCHANGED <<channel, drawn, disorder, doubled>>
      /\ \A t \in Terms : taken'[t] = IF t = u THEN m ELSE taken[t]
  BY <1>2, Types DEF Reads, history
<1>4. \A j \in Tasks : task'[j] = IF j = i THEN Sender(r, u, m) ELSE task[j]
  BY Types DEF Reads, Becomes
<1>5. /\ task'[i].at = "sending" /\ task'[i].s = r /\ task'[i].t = u /\ task'[i].n = m
      /\ \A j \in Tasks : j # i => task'[j] = task[j]
  BY <1>2, <1>3, <1>4, TaskFields
<1>6. \A t \in Terms : taken[t] \in Nat
  BY Types
<1> HIDE DEF m
<1>7. m = taken[u] + 1 /\ \A t \in Terms : taken[t] <= taken'[t]
  BY <1>2, <1>3, <1>6 DEF m
<1>8. \A j \in Tasks : \A s, t : IsOf(j, s, t)' <=> IsOf(j, s, t)
  BY ReadsIsOf
<1>9. NumbersKnown'
  <2>1. \A s \in Sessions, t \in Terms :
          /\ drawn[s][t] \in Nat
          /\ \A k \in DOMAIN channel[s] : channel[s][k].n \in Nat
    BY NumberFacts
  <2>2. \A s \in Sessions, t \in Terms :
          /\ drawn'[s][t] <= taken'[t]
          /\ \A k \in DOMAIN channel'[s] : channel'[s][k].t = t => channel'[s][k].n <= taken'[t]
    BY <1>3, <1>6, <1>7, <2>1 DEF OrderInv, NumbersKnown
  <2>3. \A j \in Tasks : task'[j].at = "sending" => task'[j].n <= taken'[task'[j].t]
    <3>1. ASSUME NEW j \in Tasks, j # i, task[j].at = "sending" PROVE task[j].n <= taken'[task[j].t]
      <4>1. task[j].t \in Terms /\ task[j].n \in 1..MaxOut
        BY <3>1, SenderFacts
      <4>2. task[j].n <= taken[task[j].t]
        BY <3>1 DEF OrderInv, NumbersKnown
      <4>3. QED
        BY <1>3, <1>6, <1>7, <4>1, <4>2
    <3>2. m <= taken'[u]
      BY <1>2, <1>3
    <3>3. QED
      BY <1>5, <3>1, <3>2
  <2>4. QED
    BY <2>2, <2>3 DEF NumbersKnown
<1>10. ASSUME NEW s \in Sessions, NEW t \in Terms, <<s, t>> \notin doubled'
       PROVE  OneReader(s, t)' /\ InOrder(s, t)'
  <2>1. OneReader(s, t) /\ InOrder(s, t)
    BY <1>3, <1>10 DEF OrderInv, SinglesInOrder
  <2>2. OneReader(s, t)'
    BY <1>8, <2>1 DEF OneReader
  <2>3. ASSUME NEW j \in Tasks, IsOf(j, s, t)', task'[j].at = "sending"
        PROVE  /\ drawn[s][t] < task'[j].n
               /\ \A k \in DOMAIN channel[s] : channel[s][k].t = t => channel[s][k].n < task'[j].n
    <3>1. CASE j = i
      <4>1. s = r /\ t = u /\ task'[j].n = taken[t] + 1
        BY <1>5, <1>7, <2>3, <3>1 DEF IsOf
      <4>2. drawn[s][t] <= taken[t]
            /\ \A k \in DOMAIN channel[s] : channel[s][k].t = t => channel[s][k].n <= taken[t]
        BY DEF OrderInv, NumbersKnown
      <4>3. drawn[s][t] \in Nat /\ \A k \in DOMAIN channel[s] : channel[s][k].n \in Nat
        BY NumberFacts
      <4>4. QED
        BY <1>6, <4>1, <4>2, <4>3
    <3>2. CASE j # i
      BY <1>5, <1>8, <2>1, <2>3, <3>2 DEF InOrder
    <3>3. QED
      BY <3>1, <3>2
  <2>4. InOrder(s, t)'
    BY <1>3, <2>1, <2>3 DEF InOrder
  <2>5. QED
    BY <2>2, <2>4
<1>11. DrawnInOrder'
  BY <1>3 DEF OrderInv, DrawnInOrder
<1>12. QED
  BY <1>9, <1>10, <1>11 DEF OrderInv, SinglesInOrder

\* What is sent goes behind all that was; the task, if the session has no
\* other for the terminal, has nothing newer in hand.
LEMMA SendOrder == ASSUME TypeOK, OrderInv, NEW i \in Tasks, Send(i) PROVE OrderInv'
<1> DEFINE r == task[i].s
           u == task[i].t
           l == Len(channel[r]) + 1
           c == Chunk(task[i])
<1>1. /\ task[i].at = "sending" /\ r \in Sessions /\ u \in Terms
      /\ c \in Chunks /\ c.t = u /\ c.n = task[i].n
  BY SenderFacts DEF Send
<1>2. UNCHANGED <<taken, drawn, disorder, doubled>> /\ Calms
      /\ channel' = [channel EXCEPT ![r] = Append(@, c)]
      /\ task'[i].at # "sending"
  <2>1. task'[i] = Reader(r, u, "reading")
    BY Types DEF Send
  <2>2. task'[i].at # "sending"
    BY <1>1, <2>1, TaskFields
  <2>3. QED
    BY <2>2, TaskCalms DEF Send, pty, history
<1>3. /\ \A s \in Sessions : s # r => channel'[s] = channel[s]
      /\ DOMAIN channel[r] = 1..Len(channel[r]) /\ DOMAIN channel'[r] = 1..l
      /\ \A j \in 1..Len(channel[r]) : channel'[r][j] = channel[r][j]
      /\ channel'[r][l] = c /\ Len(channel[r]) \in Nat
  BY <1>1, <1>2, AppendFacts, Types
<1>4. \A k : k \in 1..l <=> (k \in 1..Len(channel[r]) \/ k = l)
  BY <1>3
<1>5. \A j \in 1..l, k \in 1..l : j < k => j \in 1..Len(channel[r])
  BY <1>3
<1>6. c.n <= taken[u]
  BY <1>1 DEF OrderInv, NumbersKnown
<1> HIDE DEF c, l, r, u
<1>7. NumbersKnown'
  <2>1. ASSUME NEW s \in Sessions, NEW t \in Terms
        PROVE  /\ drawn'[s][t] <= taken'[t]
               /\ \A k \in DOMAIN channel'[s] : channel'[s][k].t = t => channel'[s][k].n <= taken'[t]
    <3>1. drawn[s][t] <= taken[t]
          /\ \A k \in DOMAIN channel[s] : channel[s][k].t = t => channel[s][k].n <= taken[t]
      BY DEF OrderInv, NumbersKnown
    <3>2. CASE s = r
      BY <1>1, <1>2, <1>3, <1>4, <1>6, <3>1, <3>2
    <3>3. CASE s # r
      BY <1>2, <1>3, <3>1, <3>3
    <3>4. QED
      BY <3>2, <3>3
  <2>2. \A j \in Tasks : task'[j].at = "sending" => task'[j].n <= taken'[task'[j].t]
    BY <1>2 DEF OrderInv, NumbersKnown, Calms
  <2>3. QED
    BY <2>1, <2>2 DEF NumbersKnown
<1>8. ASSUME NEW s \in Sessions, NEW t \in Terms, <<s, t>> \notin doubled'
      PROVE  OneReader(s, t)' /\ InOrder(s, t)'
  <2>1. OneReader(s, t) /\ InOrder(s, t)
    BY <1>2, <1>8 DEF OrderInv, SinglesInOrder
  <2>2. OneReader(s, t)'
    BY <1>2, <2>1 DEF OneReader, Calms
  <2>3. ASSUME NEW j \in Tasks, IsOf(j, s, t)', task'[j].at = "sending"
        PROVE  IsOf(j, s, t) /\ task[j].at = "sending" /\ task'[j].n = task[j].n /\ j # i
    BY <1>2, <2>3 DEF Calms
  <2>4. CASE s = r /\ t = u
    <3>1. IsOf(i, s, t)
      BY <1>1, <2>4 DEF IsOf, r, u
    <3>2. \A j \in Tasks : ~(IsOf(j, s, t)' /\ task'[j].at = "sending")
      BY <2>1, <2>3, <3>1 DEF OneReader
    <3>3. drawn[s][t] < c.n /\ \A k \in DOMAIN channel[s] : channel[s][k].t = t => channel[s][k].n < c.n
      BY <1>1, <2>1, <3>1 DEF InOrder
    <3>4. \A k \in DOMAIN channel'[s] : channel'[s][k].t = t => drawn'[s][t] < channel'[s][k].n
      BY <1>2, <1>3, <1>4, <2>1, <2>4, <3>3 DEF InOrder
    <3>5. ASSUME NEW j \in DOMAIN channel'[s], NEW k \in DOMAIN channel'[s],
                 j < k, channel'[s][j].t = t, channel'[s][k].t = t
          PROVE  channel'[s][j].n < channel'[s][k].n
      <4>1. j \in DOMAIN channel[s] /\ channel'[s][j] = channel[s][j]
        BY <1>3, <1>5, <2>4, <3>5
      <4>2. CASE k = l
        BY <1>3, <2>4, <3>3, <3>5, <4>1, <4>2
      <4>3. CASE k \in DOMAIN channel[s]
        BY <1>3, <2>1, <2>4, <3>5, <4>1, <4>3 DEF InOrder
      <4>4. QED
        BY <1>3, <1>4, <2>4, <4>2, <4>3
    <3>6. QED
      BY <2>2, <3>2, <3>4, <3>5 DEF InOrder
  <2>5. CASE s = r /\ t # u
    <3>1. \A k \in DOMAIN channel'[s] : channel'[s][k].t = t =>
            k \in DOMAIN channel[s] /\ channel'[s][k] = channel[s][k]
      BY <1>1, <1>3, <1>4, <2>5
    <3>2. InOrder(s, t)'
      BY <1>2, <2>1, <2>3, <3>1 DEF InOrder
    <3>3. QED
      BY <2>2, <3>2
  <2>6. CASE s # r
    <3>1. InOrder(s, t)'
      BY <1>2, <1>3, <2>1, <2>3, <2>6 DEF InOrder
    <3>2. QED
      BY <2>2, <3>1
  <2>7. QED
    BY <2>4, <2>5, <2>6
<1>9. DrawnInOrder'
  BY <1>2 DEF OrderInv, DrawnInOrder
<1>10. QED
  BY <1>7, <1>8, <1>9 DEF OrderInv, SinglesInOrder

\* The frames that leave the channel are the oldest ones.
LEMMA ShowOrder == ASSUME TypeOK, OrderInv, NEW s \in Sessions, Shows(s) PROVE OrderInv'
<1> DEFINE c == Head(channel[s])
           l == Len(channel[s])
<1>1. c \in Chunks /\ c.t \in Terms /\ c.n \in 1..MaxOut /\ 1 \in DOMAIN channel[s] /\ channel[s][1] = c
  BY HeadFacts DEF Shows
<1>2. UNCHANGED <<taken, task, doubled>> /\ channel' = [channel EXCEPT ![s] = Tail(@)]
      /\ channel[s] # <<>>
  BY DEF Shows, pty, Draw, Lose
<1>3. /\ \A r \in Sessions : r # s => channel'[r] = channel[r]
      /\ l \in Nat \ {0} /\ DOMAIN channel[s] = 1..l /\ DOMAIN channel'[s] = 1..(l - 1)
      /\ \A j \in 1..(l - 1) : channel'[s][j] = channel[s][j + 1]
  BY <1>2, TailFacts, Types
<1>4. \A j \in 1..(l - 1) : j + 1 \in 1..l /\ 1 < j + 1 /\ \A k \in 1..(l - 1) : j < k => j + 1 < k + 1
  BY <1>3
<1>5. \/ drawn' = drawn /\ disorder' = disorder
      \/ drawn' = [drawn EXCEPT ![s][c.t] = c.n] /\ (c.n > drawn[s][c.t] => disorder' = disorder)
         /\ disorder' \subseteq disorder \cup {<<s, c.t>>}
  BY DEF Shows, Draw, Lose
<1>6. \A r \in Sessions, t \in Terms :
        drawn'[r][t] = drawn[r][t] \/ (r = s /\ t = c.t /\ drawn'[r][t] = c.n)
  <2>1. drawn \in [Sessions -> [Terms -> 0..MaxOut]]
    BY DEF TypeOK
  <2>2. QED
    BY <1>1, <1>5, <2>1
<1> HIDE DEF c, l
<1>7. NumbersKnown'
  <2>1. ASSUME NEW r \in Sessions, NEW t \in Terms
        PROVE  /\ drawn'[r][t] <= taken'[t]
               /\ \A k \in DOMAIN channel'[r] : channel'[r][k].t = t => channel'[r][k].n <= taken'[t]
    <3>1. drawn[r][t] <= taken[t]
          /\ \A k \in DOMAIN channel[r] : channel[r][k].t = t => channel[r][k].n <= taken[t]
      BY DEF OrderInv, NumbersKnown
    <3>2. drawn'[r][t] <= taken'[t]
      BY <1>1, <1>2, <1>6, <3>1
    <3>3. ASSUME NEW k \in DOMAIN channel'[r], channel'[r][k].t = t
          PROVE  channel'[r][k].n <= taken'[t]
      BY <1>2, <1>3, <1>4, <3>1, <3>3
    <3>4. QED
      BY <3>2, <3>3
  <2>2. \A j \in Tasks : task'[j].at = "sending" => task'[j].n <= taken'[task'[j].t]
    BY <1>2 DEF OrderInv, NumbersKnown
  <2>3. QED
    BY <2>1, <2>2 DEF NumbersKnown
<1>8. ASSUME NEW r \in Sessions, NEW t \in Terms, <<r, t>> \notin doubled'
      PROVE  OneReader(r, t)' /\ InOrder(r, t)'
  <2>1. OneReader(r, t) /\ InOrder(r, t)
    BY <1>2, <1>8 DEF OrderInv, SinglesInOrder
  <2>2. OneReader(r, t)'
    BY <1>2, <2>1 DEF OneReader, IsOf
  <2>3. \A j \in Tasks : (IsOf(j, r, t)' <=> IsOf(j, r, t)) /\ task'[j] = task[j]
    BY <1>2 DEF IsOf
  <2>4. CASE r = s
    <3>1. \A k \in DOMAIN channel'[s] : /\ k + 1 \in DOMAIN channel[s] /\ 1 < k + 1
                                        /\ channel'[s][k] = channel[s][k + 1]
      BY <1>3, <1>4
    <3>2. \A j, k \in DOMAIN channel'[s] : j < k => j + 1 < k + 1
      BY <1>3, <1>4
    <3>3. InOrder(s, t)
      BY <2>1, <2>4
    <3>4. \A k \in DOMAIN channel'[s] : channel'[s][k].t = t =>
            /\ drawn[s][t] < channel'[s][k].n
            /\ t = c.t => c.n < channel'[s][k].n
      BY <1>1, <3>1, <3>3 DEF InOrder
    <3>5. \A k \in DOMAIN channel'[s] : channel'[s][k].t = t => drawn'[s][t] < channel'[s][k].n
      BY <1>6, <3>4
    <3>6. ASSUME NEW j \in DOMAIN channel'[s], NEW k \in DOMAIN channel'[s],
                 j < k, channel'[s][j].t = t, channel'[s][k].t = t
          PROVE  channel'[s][j].n < channel'[s][k].n
      BY <3>1, <3>2, <3>3, <3>6 DEF InOrder
    <3>7. ASSUME NEW j \in Tasks, IsOf(j, s, t), task[j].at = "sending"
          PROVE  /\ drawn'[s][t] < task[j].n
                 /\ \A k \in DOMAIN channel'[s] : channel'[s][k].t = t => channel'[s][k].n < task[j].n
      <4>1. drawn[s][t] < task[j].n
            /\ \A k \in DOMAIN channel[s] : channel[s][k].t = t => channel[s][k].n < task[j].n
        BY <3>3, <3>7 DEF InOrder
      <4>2. drawn'[s][t] < task[j].n
        BY <1>1, <1>6, <4>1
      <4>3. QED
        BY <3>1, <4>1, <4>2
    <3>8. InOrder(r, t)'
      BY <2>3, <2>4, <3>5, <3>6, <3>7 DEF InOrder
    <3>9. QED
      BY <2>2, <3>8
  <2>5. CASE r # s
    <3>1. drawn'[r][t] = drawn[r][t] /\ channel'[r] = channel[r]
      BY <1>3, <1>6, <2>5
    <3>2. InOrder(r, t)'
      BY <2>1, <2>3, <3>1 DEF InOrder
    <3>3. QED
      BY <2>2, <3>2
  <2>6. QED
    BY <2>4, <2>5
<1>9. DrawnInOrder'
  <2>1. CASE <<s, c.t>> \in doubled
    BY <1>2, <1>5, <2>1 DEF OrderInv, DrawnInOrder
  <2>2. CASE <<s, c.t>> \notin doubled
    <3>1. InOrder(s, c.t)
      BY <1>1, <2>2 DEF OrderInv, SinglesInOrder
    <3>2. drawn[s][c.t] < c.n
      BY <1>1, <3>1 DEF InOrder
    <3>3. drawn[s][c.t] \in Nat /\ c.n \in Nat
      BY <1>1, NumberFacts, Types
    <3>4. disorder' = disorder
      BY <1>5, <3>2, <3>3
    <3>5. QED
      BY <1>2, <3>4 DEF OrderInv, DrawnInOrder
  <2>3. QED
    BY <2>1, <2>2
<1>10. QED
  BY <1>7, <1>8, <1>9 DEF OrderInv, SinglesInOrder

LEMMA WriteFailsOrder == ASSUME TypeOK, OrderInv, NEW s \in Sessions, WriteFails(s) PROVE OrderInv'
<1>1. UNCHANGED <<taken, task, drawn, disorder, doubled>> /\ channel' = [channel EXCEPT ![s] = <<>>]
  BY DEF WriteFails, Lose, pty
<1>2. \A r \in Sessions : channel'[r] = channel[r] \/ DOMAIN channel'[r] = {}
  BY <1>1, EmptyFacts, Types
<1>3. NumbersKnown'
  BY <1>1, <1>2 DEF OrderInv, NumbersKnown
<1>4. ASSUME NEW r \in Sessions, NEW t \in Terms, <<r, t>> \notin doubled'
      PROVE  OneReader(r, t)' /\ InOrder(r, t)'
  <2>1. OneReader(r, t) /\ InOrder(r, t)
    BY <1>1, <1>4 DEF OrderInv, SinglesInOrder
  <2>2. OneReader(r, t)'
    BY <1>1, <2>1 DEF OneReader, IsOf
  <2>3. \A j \in Tasks : (IsOf(j, r, t)' <=> IsOf(j, r, t)) /\ task'[j] = task[j]
    BY <1>1 DEF IsOf
  <2>4. InOrder(r, t)'
    BY <1>1, <1>2, <2>1, <2>3 DEF InOrder
  <2>5. QED
    BY <2>2, <2>4
<1>5. DrawnInOrder'
  BY <1>1 DEF OrderInv, DrawnInOrder
<1>6. QED
  BY <1>3, <1>4, <1>5 DEF OrderInv, SinglesInOrder

LEMMA NextOrder == TypeOK /\ OrderInv /\ [Next]_vars => OrderInv'
<1> SUFFICES ASSUME TypeOK, OrderInv, [Next]_vars PROVE OrderInv'
  OBVIOUS
<1>1. ASSUME NEW t \in Terms, Produce(t) \/ Exit(t) PROVE OrderInv'
  BY <1>1, SameCalms, CalmOrder DEF Produce, Exit, history
<1>2. ASSUME NEW i \in Tasks, Start(i) \/ Quits(i) \/ SendFails(i) PROVE OrderInv'
  BY <1>2, TaskCalms, CalmOrder DEF Start, Quits, SendFails, LoseLate, Lose, pty, history
<1>3. ASSUME NEW s \in Sessions, Ends(s) PROVE OrderInv'
  BY <1>3, AbortCalms, CalmOrder DEF Ends, Closes, pty, history
<1>4. ASSUME NEW s \in Sessions, NEW t \in Terms, Removes(s, t) PROVE OrderInv'
  BY <1>4, AbortCalms, CalmOrder DEF Removes, pty
<1>5. CASE UNCHANGED vars
  BY <1>5, SameCalms, CalmOrder DEF vars, pty, history
<1>6. CASE Next
  BY <1>1, <1>2, <1>3, <1>4, <1>6, NextCases, ReadOrder, SendOrder, ShowOrder, WriteFailsOrder,
     SpawnOrder
<1>7. QED
  BY <1>5, <1>6

LEMMA InitOrder == Init => OrderInv
<1> SUFFICES ASSUME Init PROVE OrderInv
  OBVIOUS
<1>1. \A i \in Tasks : task[i].at = "none"
  BY TaskFields DEF Init
<1>2. \A s \in Sessions : DOMAIN channel[s] = {}
  BY EmptyFacts DEF Init
<1>3. NumbersKnown
  BY <1>1, <1>2 DEF Init, NumbersKnown
<1>4. SinglesInOrder
  BY <1>1, <1>2 DEF SinglesInOrder, OneReader, InOrder, IsOf
<1>5. DrawnInOrder
  BY DEF Init, DrawnInOrder
<1>6. QED
  BY <1>3, <1>4, <1>5 DEF OrderInv

\* A client draws the output of a terminal in order, unless its session had
\* two readers for it at once: after a split, or when the terminal was removed
\* and added again (RemoveTerminal, terminal/attach.rs).
THEOREM OrderCorrect == Spec => []DrawnInOrder
<1>1. Init => TypeOK /\ OnceInv /\ OrderInv
  BY InitInv, InitOrder
<1>2. TypeOK /\ OnceInv /\ OrderInv /\ [Next]_vars => TypeOK' /\ OnceInv' /\ OrderInv'
  BY NextInv, NextOrder
<1>3. OrderInv => DrawnInOrder
  BY DEF OrderInv
<1>4. QED
  BY <1>1, <1>2, <1>3, PTL DEF Spec

-----------------------------------------------------------------------------
(* Loss *)

\* The session lets go of nothing and does not read t.
Unread(s, t) ==
  session[s] = "new" \/ (session[s] = "on" /\ s \notin removed /\ readers[s][t] = 0)

NothingOf(s, t) ==
  /\ \A i \in Tasks : ~IsOf(i, s, t)
  /\ \A k \in DOMAIN channel[s] : channel[s][k].t # t

LEMMA WantedIs == OutputIsWanted <=> \A s \in Sessions, t \in Terms : Unread(s, t) => NothingOf(s, t)
  BY DEF OutputIsWanted, Unread, NothingOf

\* Steps that give a session no reader and no output.
LEMMA WantedStays ==
  ASSUME OutputIsWanted, Calms,
         \A s \in Sessions, t \in Terms : Unread(s, t)' => Unread(s, t),
         \A s \in Sessions : \A k \in DOMAIN channel'[s] :
           \E j \in DOMAIN channel[s] : channel'[s][k].t = channel[s][j].t
  PROVE  OutputIsWanted'
<1>1. ASSUME NEW s \in Sessions, NEW t \in Terms, Unread(s, t)' PROVE NothingOf(s, t)'
  <2>1. NothingOf(s, t)
    BY <1>1, WantedIs
  <2>2. QED
    BY <2>1 DEF NothingOf, Calms
<1>2. QED
  BY <1>1, WantedIs DEF OutputIsWanted, Unread, NothingOf

LEMMA SpawnWanted ==
  ASSUME TypeOK, OutputIsWanted, NEW s \in Sessions, NEW t \in Terms, Spawns(s, t)
  PROVE  OutputIsWanted' /\ \A j \in Tasks : \A r, u : (r # s \/ u # t) /\ IsOf(j, r, u)' => IsOf(j, r, u)
<1>1. PICK i \in Tasks :
         /\ task[i] = NoTask /\ task'[i] = Reader(s, t, "queued")
         /\ \A j \in Tasks \ {i} :
              task'[j] = task[j] \/ (task[j].at = "queued" /\ task'[j] = NoTask)
         /\ readers' = [readers EXCEPT ![s][t] = i]
  BY SpawnStep DEF Spawns
<1>2. \A j \in Tasks : \A r, u : (r # s \/ u # t) /\ IsOf(j, r, u)' => IsOf(j, r, u)
  BY <1>1, TaskFields DEF IsOf
<1>3. \A r \in Sessions, u \in Terms :
        readers'[r][u] = IF r = s /\ u = t THEN i ELSE readers[r][u]
  BY <1>1 DEF TypeOK
<1>4. i # 0 /\ session[s] \in {"new", "on"} /\ session'[s] = "on"
      /\ \A r \in Sessions : r # s => session'[r] = session[r]
  BY Types DEF Spawns, Tasks, TypeOK
<1>5. UNCHANGED <<channel, removed>>
  BY DEF Spawns
<1>6. ASSUME NEW r \in Sessions, NEW u \in Terms, Unread(r, u)' PROVE NothingOf(r, u)'
  <2>1. r # s \/ u # t
    BY <1>3, <1>4, <1>6 DEF Unread
  <2>2. Unread(r, u)
    BY <1>3, <1>4, <1>5, <1>6, <2>1 DEF Unread
  <2>3. NothingOf(r, u)
    BY <2>2, WantedIs
  <2>4. QED
    BY <1>2, <1>5, <2>1, <2>3 DEF NothingOf
<1>7. QED
  BY <1>2, <1>6 DEF OutputIsWanted, Unread, NothingOf

LEMMA SendWanted == ASSUME TypeOK, OutputIsWanted, NEW i \in Tasks, Send(i) PROVE OutputIsWanted'
<1> DEFINE r == task[i].s
           c == Chunk(task[i])
<1>1. task[i].at = "sending" /\ r \in Sessions /\ c \in Chunks /\ c.t = task[i].t /\ task[i].t \in Terms
  BY SenderFacts DEF Send
<1>2. Calms
  BY TaskCalms
<1>3. channel' = [channel EXCEPT ![r] = Append(@, c)] /\ UNCHANGED <<session, readers, removed>>
  BY DEF Send, history
<1>4. \A s \in Sessions : s # r => channel'[s] = channel[s]
  BY <1>3, Types
<1>5. \A k \in DOMAIN channel'[r] : \/ k \in DOMAIN channel[r] /\ channel'[r][k] = channel[r][k]
                                 \/ channel'[r][k] = c
  <2>1. /\ DOMAIN channel[r] = 1..Len(channel[r]) /\ DOMAIN channel'[r] = 1..(Len(channel[r]) + 1)
        /\ \A j \in 1..Len(channel[r]) : channel'[r][j] = channel[r][j]
        /\ channel'[r][Len(channel[r]) + 1] = c /\ Len(channel[r]) \in Nat
    BY <1>1, <1>3, AppendFacts, Types
  <2>2. ASSUME NEW k \in DOMAIN channel'[r] PROVE k \in DOMAIN channel[r] \/ k = Len(channel[r]) + 1
    BY <2>1
  <2>3. QED
    BY <2>1, <2>2
<1>6. IsOf(i, r, task[i].t)
  BY <1>1 DEF IsOf
<1> HIDE DEF r, c
<1>7. ASSUME NEW s \in Sessions, NEW t \in Terms, Unread(s, t)' PROVE NothingOf(s, t)'
  <2>1. NothingOf(s, t)
    BY <1>3, <1>7, WantedIs DEF Unread
  <2>2. ~(s = r /\ t = c.t)
    BY <1>1, <1>6, <2>1 DEF NothingOf
  <2>3. \A k \in DOMAIN channel'[s] : channel'[s][k].t # t
    BY <1>4, <1>5, <2>1, <2>2 DEF NothingOf
  <2>4. QED
    BY <1>2, <2>1, <2>3 DEF NothingOf, Calms
<1>8. QED
  BY <1>7 DEF OutputIsWanted, Unread, NothingOf

LEMMA NextWanted == ASSUME TypeOK, OutputIsWanted, [Next]_vars PROVE OutputIsWanted'
<1>1. ASSUME Calms, UNCHANGED <<session, readers, channel, removed>> PROVE OutputIsWanted'
  BY <1>1, WantedStays DEF Unread
<1>2. ASSUME NEW t \in Terms, Produce(t) \/ Exit(t) PROVE OutputIsWanted'
  BY <1>1, <1>2, SameCalms DEF Produce, Exit, history
<1>3. ASSUME NEW i \in Tasks, Start(i) \/ Quits(i) \/ SendFails(i) PROVE OutputIsWanted'
  BY <1>1, <1>3, TaskCalms DEF Start, Quits, SendFails, LoseLate, Lose, history
<1>4. ASSUME NEW i \in Tasks, Reads(i) PROVE OutputIsWanted'
  <2>1. UNCHANGED <<session, readers, channel, removed>>
    BY <1>4 DEF Reads, history
  <2>2. \A j \in Tasks : \A s, t : IsOf(j, s, t)' <=> IsOf(j, s, t)
    BY <1>4, ReadsIsOf
  <2>3. QED
    BY <2>1, <2>2 DEF OutputIsWanted
<1>5. ASSUME NEW s \in Sessions, Shows(s) PROVE OutputIsWanted'
  <2>1. UNCHANGED <<task, session, readers, removed>> /\ channel' = [channel EXCEPT ![s] = Tail(@)]
        /\ channel[s] # <<>>
    BY <1>5 DEF Shows, Draw, Lose
  <2>2. \A r \in Sessions : r # s => channel'[r] = channel[r]
    BY <2>1, Types
  <2>3. \A k \in DOMAIN channel'[s] : k + 1 \in DOMAIN channel[s] /\ channel'[s][k] = channel[s][k + 1]
    <3>1. /\ Len(channel[s]) \in Nat \ {0}
          /\ DOMAIN channel[s] = 1..Len(channel[s]) /\ DOMAIN channel'[s] = 1..(Len(channel[s]) - 1)
          /\ \A j \in 1..(Len(channel[s]) - 1) : channel'[s][j] = channel[s][j + 1]
      BY <2>1, TailFacts, Types
    <3>2. QED
      BY <3>1
  <2>4. QED
    BY <2>1, <2>2, <2>3, SameCalms, WantedStays DEF Unread
<1>6. ASSUME NEW s \in Sessions, Ends(s) \/ WriteFails(s) PROVE OutputIsWanted'
  <2>1. session'[s] \in {"closed", "ended"} /\ UNCHANGED removed
        /\ \A r \in Sessions : r # s => session'[r] = session[r] /\ readers'[r] = readers[r]
    BY <1>6 DEF Ends, Closes, WriteFails, Lose, history, TypeOK
  <2>2. Calms
    BY <1>6, AbortCalms, SameCalms DEF Ends, WriteFails
  <2>3. \A r \in Sessions : channel'[r] = channel[r] \/ DOMAIN channel'[r] = {}
    BY <1>6, EmptyFacts, Types DEF Ends, Closes, WriteFails
  <2>4. \A r \in Sessions, t \in Terms : Unread(r, t)' => Unread(r, t)
    BY <2>1 DEF Unread
  <2>5. QED
    BY <2>2, <2>3, <2>4, WantedStays
<1>7. ASSUME NEW s \in Sessions, NEW t \in Terms, Removes(s, t) PROVE OutputIsWanted'
  <2>1. UNCHANGED <<session, channel>> /\ removed' = removed \cup {s} /\ Calms
        /\ \A r \in Sessions : r # s => readers'[r] = readers[r]
    BY <1>7, AbortCalms DEF Removes, TypeOK
  <2>2. \A r \in Sessions, u \in Terms : Unread(r, u)' => Unread(r, u)
    BY <1>7, <2>1 DEF Unread, Removes
  <2>3. QED
    BY <2>1, <2>2, WantedStays
<1>8. CASE UNCHANGED vars
  BY <1>1, <1>8, SameCalms DEF vars, history
<1>9. CASE Next
  BY <1>2, <1>3, <1>4, <1>5, <1>6, <1>7, <1>9, NextCases, SpawnWanted, SendWanted
<1>10. QED
  BY <1>8, <1>9

\* A session's live readers.
LEMMA LiveFacts ==
  /\ IsFiniteSet(Terms) /\ Cardinality(Terms) \in Nat
  /\ \A S : S \subseteq Terms => /\ IsFiniteSet(S) /\ Cardinality(S) \in Nat
                                 /\ Cardinality(S) <= Cardinality(Terms)
  /\ \A S, T : T \subseteq Terms /\ S \subseteq T => Cardinality(S) <= Cardinality(T)
<1>1. IsFiniteSet(Terms)
  BY BoundsAssumption
<1>2. ASSUME NEW T, T \subseteq Terms, NEW S, S \subseteq T PROVE Cardinality(S) <= Cardinality(T)
  <2>1. IsFiniteSet(T)
    BY <1>1, <1>2, FS_Subset
  <2>2. QED
    BY <1>2, <2>1, FS_Subset
<1>3. QED
  BY <1>1, <1>2, FS_Subset, FS_CardinalityType

LateOf(s) ==
  /\ session[s] # "ended" => late[s] = 0
  /\ (\A t \in Terms : <<s, t>> \notin doubled)
       => late[s] + Cardinality(Live(s)) <= Cardinality(Terms)

\* A session that gets no reader, and loses no chunk late.
LEMMA LateStays ==
  ASSUME TypeOK, NEW s \in Sessions, LateOf(s),
         session[s] = "ended" <=> session'[s] = "ended", late'[s] = late[s],
         doubled \subseteq doubled',
         session[s] # "ended" \/ \A j \in Tasks, t \in Terms : IsOf(j, s, t)' => IsOf(j, s, t)
  PROVE  LateOf(s)'
<1>1. Live(s) \subseteq Terms /\ Live(s)' \subseteq Terms /\ late[s] \in Nat
  BY DEF Live, TypeOK
<1>2. Cardinality(Live(s)) \in Nat /\ Cardinality(Live(s)') \in Nat /\ Cardinality(Terms) \in Nat
      /\ Cardinality(Live(s)') <= Cardinality(Terms)
  BY <1>1, LiveFacts
<1>3. CASE session[s] # "ended"
  BY <1>2, <1>3 DEF LateOf
<1>4. CASE \A j \in Tasks, t \in Terms : IsOf(j, s, t)' => IsOf(j, s, t)
  <2>1. Live(s)' \subseteq Live(s)
    BY <1>4 DEF Live
  <2>2. Cardinality(Live(s)') <= Cardinality(Live(s))
    BY <1>1, <2>1, LiveFacts
  <2>3. QED
    BY <1>1, <1>2, <2>2 DEF LateOf
<1>5. QED
  BY <1>3, <1>4

\* A chunk lost late is the last of its reader.
LEMMA SendFailsLate ==
  ASSUME TypeOK, SinglesInOrder, NEW i \in Tasks, SendFails(i),
         \A s \in Sessions : LateOf(s)
  PROVE  \A s \in Sessions : LateOf(s)'
<1> DEFINE r == task[i].s
           u == task[i].t
<1>1. task[i].at = "sending" /\ r \in Sessions /\ u \in Terms /\ session[r] = "ended"
  BY SenderFacts DEF SendFails
<1>2. UNCHANGED <<session, doubled>> /\ late' = [late EXCEPT ![r] = @ + 1]
      /\ task' = [task EXCEPT ![i] = NoTask]
  BY DEF SendFails, LoseLate, Lose
<1>3. ASSUME NEW s \in Sessions, s # r PROVE LateOf(s)'
  <2>1. late'[s] = late[s]
    BY <1>2, <1>3 DEF TypeOK
  <2>2. \A j \in Tasks : \A t : IsOf(j, s, t)' => IsOf(j, s, t)
    BY TaskCalms DEF Calms
  <2>3. QED
    BY <1>2, <1>3, <2>1, <2>2, LateStays
<1>4. ASSUME NEW s \in Sessions, s = r PROVE LateOf(s)'
  <2>1. late[s] \in Nat /\ late'[s] = late[s] + 1
    BY <1>1, <1>2, <1>4 DEF TypeOK
  <2>2. ASSUME \A t \in Terms : <<s, t>> \notin doubled'
        PROVE  late'[s] + Cardinality(Live(s)') <= Cardinality(Terms)
    <3>1. Live(s) \subseteq Terms /\ u \in Live(s)
      BY <1>1, <1>4 DEF Live, IsOf
    <3>2. Live(s)' \subseteq Live(s) \ {u}
      <4>1. \A j \in Tasks : \A t : IsOf(j, s, t)' => IsOf(j, s, t) /\ j # i
        <5>1. task'[i] = NoTask
          BY <1>2, Types
        <5>2. \A t : ~IsOf(i, s, t)'
          BY <5>1, TaskFields DEF IsOf
        <5>3. Calms
          BY TaskCalms
        <5>4. QED
          BY <5>2, <5>3 DEF Calms
      <4>2. OneReader(s, u) /\ IsOf(i, s, u)
        BY <1>1, <1>2, <1>4, <2>2 DEF SinglesInOrder, IsOf
      <4> HIDE DEF u
      <4>3. ASSUME NEW t \in Terms, NEW j \in Tasks, IsOf(j, s, t)' PROVE t \in Live(s) \ {u}
        <5>1. IsOf(j, s, t) /\ j # i
          BY <4>1, <4>3
        <5>2. t # u
          BY <4>2, <5>1 DEF OneReader
        <5>3. QED
          BY <5>1, <5>2 DEF Live
      <4>4. QED
        BY <4>3 DEF Live
    <3>3. Cardinality(Live(s) \ {u}) = Cardinality(Live(s)) - 1
      BY <3>1, LiveFacts, FS_RemoveElement
    <3>4. Cardinality(Live(s)') <= Cardinality(Live(s) \ {u})
      BY <3>1, <3>2, LiveFacts
    <3>5. Cardinality(Live(s)) \in Nat /\ Cardinality(Live(s)') \in Nat /\ Cardinality(Terms) \in Nat
      BY <3>1, <3>2, LiveFacts
    <3>6. late[s] + Cardinality(Live(s)) <= Cardinality(Terms)
      BY <1>1, <1>2, <1>4, <2>2 DEF LateOf
    <3>7. QED
      BY <2>1, <3>3, <3>4, <3>5, <3>6
  <2>3. QED
    BY <1>1, <1>2, <1>4, <2>2 DEF LateOf
<1>5. QED
  BY <1>3, <1>4

LEMMA NextLate ==
  ASSUME TypeOK, OutputIsWanted, SinglesInOrder, LateIsBounded, [Next]_vars
  PROVE  LateIsBounded'
<1> SUFFICES \A s \in Sessions : LateOf(s)'
  BY DEF LateIsBounded, LateOf
<1>1. \A s \in Sessions : LateOf(s)
  BY DEF LateIsBounded, LateOf
<1>2. ASSUME Calms, UNCHANGED <<session, late, doubled>> PROVE \A s \in Sessions : LateOf(s)'
  BY <1>1, <1>2, LateStays DEF Calms
<1>3. ASSUME NEW t \in Terms, Produce(t) \/ Exit(t) PROVE \A s \in Sessions : LateOf(s)'
  BY <1>2, <1>3, SameCalms DEF Produce, Exit, history
<1>4. ASSUME NEW i \in Tasks, Start(i) \/ Quits(i) \/ Send(i) PROVE \A s \in Sessions : LateOf(s)'
  BY <1>2, <1>4, TaskCalms DEF Start, Quits, Send, history
<1>5. ASSUME NEW i \in Tasks, Reads(i) PROVE \A s \in Sessions : LateOf(s)'
  <2>1. UNCHANGED <<session, late, doubled>>
    BY <1>5 DEF Reads, history
  <2>2. \A j \in Tasks : \A s, t : IsOf(j, s, t)' <=> IsOf(j, s, t)
    BY <1>5, ReadsIsOf
  <2>3. QED
    BY <1>1, <2>1, <2>2, LateStays
<1>6. ASSUME NEW s \in Sessions, Shows(s) PROVE \A r \in Sessions : LateOf(r)'
  BY <1>2, <1>6, SameCalms DEF Shows, Draw, Lose
<1>7. ASSUME NEW s \in Sessions, Ends(s) \/ WriteFails(s) PROVE \A r \in Sessions : LateOf(r)'
  <2>1. UNCHANGED <<late, doubled>> /\ Calms
    BY <1>7, AbortCalms, SameCalms DEF Ends, Closes, WriteFails, Lose, history
  <2>2. session[s] # "ended" /\ session[s] \in {"on", "closed"}
        /\ \A r \in Sessions : r # s => session'[r] = session[r]
    BY <1>7 DEF Ends, Closes, WriteFails, TypeOK
  <2>3. ASSUME NEW r \in Sessions, r # s PROVE LateOf(r)'
    BY <1>1, <2>1, <2>2, <2>3, LateStays DEF Calms
  <2>4. LateOf(s)'
    <3>1. late'[s] = 0
      BY <1>1, <2>1, <2>2 DEF LateOf
    <3>2. Live(s)' \subseteq Terms
      BY DEF Live
    <3>3. Cardinality(Live(s)') \in Nat /\ Cardinality(Live(s)') <= Cardinality(Terms)
      BY <3>2, LiveFacts
    <3>4. QED
      BY <3>1, <3>3 DEF LateOf
  <2>5. QED
    BY <2>3, <2>4
<1>8. ASSUME NEW s \in Sessions, NEW t \in Terms, Removes(s, t) PROVE \A r \in Sessions : LateOf(r)'
  BY <1>2, <1>8, AbortCalms DEF Removes
<1>9. ASSUME NEW s \in Sessions, NEW t \in Terms, Spawns(s, t) PROVE \A r \in Sessions : LateOf(r)'
  <2>1. late' = late /\ doubled \subseteq doubled'
    BY <1>9 DEF Spawns, Spawn
  <2>2. session[s] # "ended" /\ session'[s] # "ended"
        /\ \A r \in Sessions : r # s => session'[r] = session[r]
    BY <1>9 DEF Spawns, TypeOK
  <2>3. \A j \in Tasks : \A r, u : r # s /\ IsOf(j, r, u)' => IsOf(j, r, u)
    BY <1>9, SpawnWanted
  <2>4. QED
    BY <1>1, <2>1, <2>2, <2>3, LateStays
<1>10. CASE UNCHANGED vars
  BY <1>2, <1>10, SameCalms DEF vars, history
<1>11. CASE Next
  BY <1>1, <1>3, <1>4, <1>5, <1>6, <1>7, <1>8, <1>9, <1>11, NextCases, SendFailsLate
<1>12. QED
  BY <1>10, <1>11

LEMMA NextLoss ==
  ASSUME TypeOK, OrderInv, LossInv, [Next]_vars
  PROVE  LossInv'
<1>1. OutputIsWanted' /\ LateIsBounded'
  BY NextWanted, NextLate DEF LossInv, OrderInv
<1>2. \A s \in Sessions : session[s] = "ended" => session'[s] = "ended"
  <2>1. ASSUME NEW r \in Sessions, session[r] # "ended",
               \A s \in Sessions : s # r => session'[s] = session[s]
        PROVE  \A s \in Sessions : session[s] = "ended" => session'[s] = "ended"
    BY <2>1
  <2>2. ASSUME NEW s \in Sessions, Ends(s) \/ WriteFails(s)
        PROVE  session[s] # "ended" /\ \A r \in Sessions : r # s => session'[r] = session[r]
    BY <2>2 DEF Ends, Closes, WriteFails, TypeOK
  <2>3. ASSUME NEW s \in Sessions, NEW t \in Terms, Spawns(s, t)
        PROVE  session[s] # "ended" /\ \A r \in Sessions : r # s => session'[r] = session[r]
    BY <2>3 DEF Spawns, TypeOK
  <2>4. CASE UNCHANGED session
    BY <2>4
  <2>5. UNCHANGED session \/ \E s \in Sessions : Ends(s) \/ WriteFails(s) \/ \E t \in Terms : Spawns(s, t)
    BY NextCases, Zenon
    DEF Produce, Exit, Start, Reads, Quits, Send, SendFails, Shows, Removes, vars
  <2>6. QED
    BY <2>1, <2>2, <2>3, <2>4, <2>5
<1>3. removed \subseteq removed'
  BY NextCases, Zenon
  DEF Produce, Exit, Start, Reads, Quits, Send, SendFails, LoseLate, Lose, Shows, Draw, Ends, Closes,
      WriteFails, Spawns, Removes, vars, history
<1>4. \A s \in Sessions : s \in losers' => s \in losers \/ session'[s] = "ended" \/ s \in removed'
  <2>1. ASSUME NEW i \in Tasks, SendFails(i)
        PROVE  losers' = losers \cup {task[i].s} /\ session'[task[i].s] = "ended"
    BY <2>1 DEF SendFails, LoseLate, Lose
  <2>2. ASSUME NEW s \in Sessions, WriteFails(s) PROVE losers' = losers \cup {s} /\ session'[s] = "ended"
    BY <2>2 DEF WriteFails, Lose, TypeOK
  <2>3. ASSUME NEW s \in Sessions, Shows(s)
        PROVE  losers' = losers \/ (losers' = losers \cup {s} /\ s \in removed')
    <3> DEFINE c == Head(channel[s])
    <3>1. c.t \in Terms /\ 1 \in DOMAIN channel[s] /\ channel[s][1] = c /\ session[s] = "on"
      BY <2>3, HeadFacts DEF Shows
    <3>2. CASE readers[s][c.t] = 0
      <4>1. ~Unread(s, c.t)
        BY <3>1, WantedIs DEF NothingOf, LossInv
      <4>2. s \in removed
        BY <3>1, <3>2, <4>1 DEF Unread
      <4>3. QED
        BY <1>3, <2>3, <4>2 DEF Shows, Draw, Lose
    <3>3. CASE readers[s][c.t] # 0
      BY <2>3, <3>3 DEF Shows, Draw
    <3>4. QED
      BY <3>2, <3>3
  <2>4. \/ losers' = losers
        \/ \E i \in Tasks : SendFails(i)
        \/ \E s \in Sessions : WriteFails(s) \/ Shows(s)
    BY NextCases, Zenon
    DEF Produce, Exit, Start, Reads, Quits, Send, Ends, Closes, Spawns, Removes, vars, history
  <2>5. QED
    BY <2>1, <2>2, <2>3, <2>4
<1>5. ASSUME NEW s \in Sessions
      PROVE  /\ s \in losers' => session'[s] = "ended" \/ s \in removed'
             /\ (\A t \in Terms : <<s, t>> \notin doubled') => late'[s] <= Cardinality(Terms)
  <2>1. s \in losers' => session'[s] = "ended" \/ s \in removed'
    BY <1>2, <1>3, <1>4 DEF LossInv, LossIsBounded
  <2>2. ASSUME \A t \in Terms : <<s, t>> \notin doubled' PROVE late'[s] <= Cardinality(Terms)
    <3>1. late'[s] + Cardinality(Live(s)') <= Cardinality(Terms)
      BY <1>1, <2>2 DEF LateIsBounded
    <3>2. Live(s)' \subseteq Terms
      BY DEF Live
    <3>3. Cardinality(Live(s)') \in Nat /\ Cardinality(Terms) \in Nat
      BY <3>2, LiveFacts
    <3>4. late'[s] \in Nat
      <4>1. SeenOK'
        BY SeenType DEF TypeOK, SeenOK, vars, history
      <4>2. QED
        BY <4>1 DEF SeenOK
    <3>5. QED
      BY <3>1, <3>3, <3>4
  <2>3. QED
    BY <2>1, <2>2
<1>6. LossIsBounded'
  BY <1>5 DEF LossIsBounded
<1>7. QED
  BY <1>1, <1>6 DEF LossInv

LEMMA InitLoss == Init => LossInv
<1> SUFFICES ASSUME Init PROVE LossInv
  OBVIOUS
<1>1. \A i \in Tasks : task[i].at = "none"
  BY TaskFields DEF Init
<1>2. \A s \in Sessions : DOMAIN channel[s] = {}
  BY EmptyFacts DEF Init
<1>3. OutputIsWanted
  BY <1>1, <1>2 DEF OutputIsWanted, IsOf
<1>4. ASSUME NEW s \in Sessions PROVE late[s] = 0 /\ Live(s) = {}
  BY <1>1 DEF Init, Live, IsOf
<1>5. Cardinality({}) = 0 /\ Cardinality(Terms) \in Nat
  BY FS_EmptySet, LiveFacts
<1>6. LateIsBounded
  BY <1>4, <1>5 DEF LateIsBounded
<1>7. LossIsBounded
  BY <1>4, <1>5 DEF Init, LossIsBounded
<1>8. QED
  BY <1>3, <1>6, <1>7 DEF LossInv

\* Output is lost only where a client leaves or lets go of a terminal.  "Abort
\* remaining reader tasks on disconnect" (server/mod.rs) stops none that runs,
\* but once the receiver is gone each takes at most one chunk more from
\* whoever attaches next.
THEOREM LossCorrect == Spec => []LossIsBounded
<1> DEFINE I == TypeOK /\ OnceInv /\ OrderInv /\ LossInv
<1>1. Init => I
  BY InitInv, InitOrder, InitLoss
<1>2. I /\ [Next]_vars => I'
  BY NextInv, NextOrder, NextLoss
<1>3. I => LossIsBounded
  BY DEF LossInv
<1>4. QED
  BY <1>1, <1>2, <1>3, PTL DEF Spec

=============================================================================
