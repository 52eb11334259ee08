------------------------ MODULE ServerLifecycleProofs ------------------------
(***************************************************************************)
(* Theorems about ServerLifecycle, for any number of processes: typing,    *)
(* and that without overlapping starts at most one process runs at a time, *)
(* from which OneServer and ServingIsReachable follow.                     *)
(***************************************************************************)
EXTENDS ServerLifecycle, TLAPS

\* Every variable keeps its type; a socket or pid is that of a process that made it.
THEOREM TypeCorrect == Spec => []TypeOK
<1> USE DEF Starts, Serves, Ended
<1>1. Init => TypeOK
  BY ProcsAssumption DEF Init, TypeOK
<1>2. ASSUME TypeOK, [Next]_vars PROVE TypeOK'
  <2> USE <1>2, ProcsAssumption DEF TypeOK, Moves
  <2>1. ASSUME NEW p \in Procs, Check(p) PROVE TypeOK'
    BY <2>1 DEF Check
  <2>2. ASSUME NEW p \in Procs, Look(p) PROVE TypeOK'
    BY <2>2 DEF Look
  <2>3. ASSUME NEW p \in Procs, Unlink(p) PROVE TypeOK'
    BY <2>3 DEF Unlink
  <2>4. ASSUME NEW p \in Procs, Bind(p) PROVE TypeOK'
    BY <2>4 DEF Bind
  <2>5. ASSUME NEW p \in Procs, TruncatePid(p) PROVE TypeOK'
    BY <2>5 DEF TruncatePid
  <2>6. ASSUME NEW p \in Procs, WritePid(p) PROVE TypeOK'
    BY <2>6 DEF WritePid
  <2>7. ASSUME NEW p \in Procs, Stop(p) PROVE TypeOK'
    BY <2>7 DEF Stop
  <2>8. ASSUME NEW p \in Procs, RemoveSocket(p) PROVE TypeOK'
    BY <2>8 DEF RemoveSocket
  <2>9. ASSUME NEW p \in Procs, RemovePid(p) PROVE TypeOK'
    BY <2>9 DEF RemovePid
  <2>10. ASSUME NEW p \in Procs, Crash(p) PROVE TypeOK'
    BY <2>10 DEF Crash, Alive
  <2>11. CASE UNCHANGED vars
    BY <2>11 DEF vars
  <2>12. QED
    BY <2>1, <2>2, <2>3, <2>4, <2>5, <2>6, <2>7, <2>8, <2>9, <2>10, <2>11
       DEF Next, Start, Shutdown
<1>3. QED
  BY <1>1, <1>2, PTL DEF Spec

\* Unless two starts overlapped, at most one process runs, and the files its
\* state says it has made are its own.
Alone ==
  ~overlapped =>
    /\ \A p, q \in Procs : Alive(p) /\ Alive(q) => p = q
    /\ \A p \in Procs : at[p] \in Serves => pidfile = p
    /\ \A p \in Procs : at[p] \in {"bound", "writing", "serving", "saving"} => socket = p

\* A process that gets past its check is alone: one that serves would have been
\* found through its pid file, and one that starts makes an overlap.
LEMMA CheckAlone ==
  ASSUME TypeOK, Alone, NEW p \in Procs, Check(p)
  PROVE  Alone'
<1> USE DEF Starts, Serves, Ended, TypeOK, Alive, Starting, Moves
<1>1. CASE IsServerRunning
  <2>1. at' = [at EXCEPT ![p] = "refused"] /\ at[p] = "new"
    BY <1>1 DEF Check
  <2>2. \A q \in Procs : Alive(q)' => Alive(q) /\ at'[q] = at[q]
    BY <2>1
  <2>3. QED
    BY <1>1, <2>1, <2>2 DEF Check, Alone
<1>2. CASE ~IsServerRunning /\ ~overlapped'
  <2>1. /\ at' = [at EXCEPT ![p] = "checked"] /\ at[p] = "new" /\ ~overlapped
        /\ UNCHANGED <<socket, pidfile>> /\ \A q \in Procs : ~Starting(q)
    BY <1>2 DEF Check
  <2>2. \A q \in Procs : ~Alive(q)
    BY <1>2, <2>1 DEF Alone, IsServerRunning
  <2>3. QED
    BY <2>1, <2>2 DEF Alone
<1>3. QED
  BY <1>1, <1>2 DEF Alone

\* The steps after the check are those of the one process that runs.
LEMMA StepAlone ==
  ASSUME TypeOK, Alone, [Next]_vars
  PROVE  Alone'
<1> USE ProcsAssumption DEF Starts, Serves, Ended, TypeOK, Alone, Alive, Moves
<1>1. ASSUME NEW p \in Procs, Look(p) PROVE Alone'
  BY <1>1 DEF Look
<1>2. ASSUME NEW p \in Procs, Unlink(p) PROVE Alone'
  BY <1>2 DEF Unlink
<1>3. ASSUME NEW p \in Procs, Bind(p) PROVE Alone'
  BY <1>3 DEF Bind
<1>4. ASSUME NEW p \in Procs, TruncatePid(p) PROVE Alone'
  BY <1>4 DEF TruncatePid
<1>5. ASSUME NEW p \in Procs, WritePid(p) PROVE Alone'
  BY <1>5 DEF WritePid
<1>6. ASSUME NEW p \in Procs, Stop(p) PROVE Alone'
  BY <1>6 DEF Stop
<1>7. ASSUME NEW p \in Procs, RemoveSocket(p) PROVE Alone'
  BY <1>7 DEF RemoveSocket
<1>8. ASSUME NEW p \in Procs, RemovePid(p) PROVE Alone'
  BY <1>8 DEF RemovePid
<1>9. ASSUME NEW p \in Procs, Crash(p) PROVE Alone'
  BY <1>9 DEF Crash
<1>10. CASE UNCHANGED vars
  BY <1>10 DEF vars
<1>11. QED
  BY CheckAlone, <1>1, <1>2, <1>3, <1>4, <1>5, <1>6, <1>7, <1>8, <1>9, <1>10
     DEF Next, Start, Shutdown

LEMMA AloneCorrect == Spec => []Alone
<1>1. Init => Alone
  BY DEF Init, Alone, Alive, Ended, Serves
<1>2. QED
  BY <1>1, StepAlone, TypeCorrect, PTL DEF Spec

\* Unless two starts overlapped, at most one process listens, whatever crashes
\* and whenever others stop.
THEOREM OneServerCorrect == Spec => []OneServer
<1>1. TypeOK /\ Alone => OneServer
  BY DEF TypeOK, Alone, OneServer, Listens, Alive, Starts, Serves, Ended
<1>2. QED
  BY <1>1, AloneCorrect, TypeCorrect, PTL

\* Unless two starts overlapped, the socket and the pid file of a server that
\* serves are its own.
THEOREM ReachableCorrect == Spec => []ServingIsReachable
<1>1. TypeOK /\ Alone => ServingIsReachable
  BY DEF TypeOK, Alone, ServingIsReachable, Serves
<1>2. QED
  BY <1>1, AloneCorrect, TypeCorrect, PTL

=============================================================================
