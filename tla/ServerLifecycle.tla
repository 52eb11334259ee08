--------------------------- MODULE ServerLifecycle ---------------------------
(***************************************************************************)
(* Server processes that start, stop and die around two files, the socket  *)
(* and the pid file (server/mod.rs, server/pid.rs).  A start asks the pid  *)
(* file whether a server runs, removes the socket, binds a new one and     *)
(* writes the pid file; a stop removes the socket and then the pid file.   *)
(* No lock covers any of it.                                               *)
(*                                                                         *)
(* A socket file is the process that bound it.  Pids are not reused here,  *)
(* and the file operations do not fail for reasons of their own.  What a   *)
(* server does with its terminals and with state.json when it starts and   *)
(* stops is in SessionServer.                                              *)
(***************************************************************************)
EXTENDS FiniteSets

CONSTANTS
  Procs,      \* processes of `kexsh server start`
  None

ASSUME ProcsAssumption == None \notin Procs /\ "empty" \notin Procs

VARIABLES
  at,         \* where each process is
  socket,     \* the process that bound the file at socket_path, or None
  pidfile,    \* what the pid file says, "empty", or None without a file
  overlapped  \* did two starts get past their check at once? (history)

vars == <<at, socket, pidfile, overlapped>>

Starts  == {"checked", "found", "unlinked", "bound", "writing"}
Serves  == {"serving", "saving", "unbound"}
Ended   == {"new", "refused", "failed", "done", "crashed"}

Alive(p) == at[p] \notin Ended
Starting(p) == at[p] \in Starts

\* A listener takes connections from the bind on, until its process ends.
Listens(p) == at[p] \in {"bound", "writing"} \cup Serves

Init ==
  /\ at = [p \in Procs |-> "new"]
  /\ socket = None /\ pidfile = None /\ overlapped = FALSE

Moves(p, l) == at' = [at EXCEPT ![p] = l]

-----------------------------------------------------------------------------
(* Server::start *)

\* Mutant of IsServerRunning: a server that stops counts as none.
IsServerServing == pidfile \in Procs /\ at[pidfile] \in {"writing", "serving"}

\* is_server_running; a pid file that is empty counts as none.
IsServerRunning == pidfile \in Procs /\ Alive(pidfile)

Check(p) ==
  /\ at[p] = "new"
  /\ Moves(p, IF IsServerRunning THEN "refused" ELSE "checked")
  /\ overlapped' = (overlapped \/ (~IsServerRunning /\ \E q \in Procs : Starting(q)))
  /\ UNCHANGED <<socket, pidfile>>

\* Mutant of Look: a socket that is left over is not noticed.
LookPast(p) ==
  /\ at[p] = "checked" /\ Moves(p, "unlinked")
  /\ UNCHANGED <<socket, pidfile, overlapped>>

\* Is there a socket already?
Look(p) ==
  /\ at[p] = "checked"
  /\ Moves(p, IF socket # None THEN "found" ELSE "unlinked")
  /\ UNCHANGED <<socket, pidfile, overlapped>>

\* It is removed, whoever made it; it may be gone by now.
Unlink(p) ==
  /\ at[p] = "found"
  /\ Moves(p, IF socket # None THEN "unlinked" ELSE "failed")
  /\ socket' = None
  /\ UNCHANGED <<pidfile, overlapped>>

Bind(p) ==
  /\ at[p] = "unlinked"
  /\ \/ socket = None /\ Moves(p, "bound") /\ socket' = p
     \/ socket # None /\ Moves(p, "failed") /\ UNCHANGED socket
  /\ UNCHANGED <<pidfile, overlapped>>

\* write_pid truncates the file first.
TruncatePid(p) ==
  /\ at[p] = "bound" /\ Moves(p, "writing") /\ pidfile' = "empty"
  /\ UNCHANGED <<socket, overlapped>>

WritePid(p) ==
  /\ at[p] = "writing" /\ Moves(p, "serving") /\ pidfile' = p
  /\ UNCHANGED <<socket, overlapped>>

-----------------------------------------------------------------------------
(* Server::run and shutdown *)

\* ServerStop over the socket, or a signal to a process that serves.
Stop(p) ==
  /\ at[p] = "serving" /\ Moves(p, "saving")
  /\ UNCHANGED <<socket, pidfile, overlapped>>

\* Mutant of RemoveSocket: the pid file goes as well, and then once more.
RemoveBoth(p) ==
  /\ at[p] = "saving" /\ Moves(p, "unbound") /\ socket' = None /\ pidfile' = None
  /\ UNCHANGED overlapped

\* After the wait for the persister and the kills the socket goes first.
RemoveSocket(p) ==
  /\ at[p] = "saving" /\ Moves(p, "unbound") /\ socket' = None
  /\ UNCHANGED <<pidfile, overlapped>>

\* The pid file goes last; the process ends.
RemovePid(p) ==
  /\ at[p] = "unbound" /\ Moves(p, "done") /\ pidfile' = None
  /\ UNCHANGED <<socket, overlapped>>

\* A process is killed, or its accept fails: it cleans up nothing.
Crash(p) ==
  /\ Alive(p) /\ Moves(p, "crashed")
  /\ UNCHANGED <<socket, pidfile, overlapped>>

-----------------------------------------------------------------------------
Start(p) == Check(p) \/ Look(p) \/ Unlink(p) \/ Bind(p) \/ TruncatePid(p) \/ WritePid(p)
Shutdown(p) == RemoveSocket(p) \/ RemovePid(p)

Next == \E p \in Procs : Start(p) \/ Stop(p) \/ Shutdown(p) \/ Crash(p)

\* A process that starts or stops goes on; nobody has to begin either.
Fairness == \A p \in Procs : WF_vars(Starting(p) /\ Start(p)) /\ WF_vars(Shutdown(p))

Spec == Init /\ [][Next]_vars /\ Fairness

-----------------------------------------------------------------------------
(* Properties *)

\* Every variable stays in its type, and a socket or pid belongs to a process
\* that got as far as making it.
TypeOK ==
  /\ at \in [Procs -> Starts \cup Serves \cup Ended]
  /\ socket \in Procs \cup {None} /\ pidfile \in Procs \cup {None, "empty"}
  /\ overlapped \in BOOLEAN
  /\ socket # None => at[socket] \notin {"new", "refused", "failed"} \cup (Starts \ {"bound", "writing"})
  /\ pidfile \in Procs => at[pidfile] \in Serves \cup {"crashed"}

\* "server is already running" (Server::start): at most one process listens,
\* whatever crashes and whenever others stop, unless two starts overlapped.
OneServer ==
  ~overlapped => \A p, q \in Procs : Listens(p) /\ Listens(q) => p = q

\* A server that serves can be reached through the socket and found through
\* the pid file, until it stops itself: no other process removes or takes over
\* its files, unless two starts overlapped.
ServingIsReachable ==
  ~overlapped => \A p \in Procs : at[p] = "serving" => socket = p /\ pidfile = p

\* A start that found no server running serves in the end, whatever files a
\* crash left behind, unless it is killed or another start overlaps it.
StartSucceeds ==
  \A p \in Procs :
    at[p] = "checked" ~> at[p] \in Serves \cup {"done", "crashed"} \/ overlapped

=============================================================================
