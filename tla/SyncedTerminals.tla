--------------------------- MODULE SyncedTerminals ---------------------------
(***************************************************************************)
(* What the cloud manager promises the rest of the server about syncs,     *)
(* without the connection: one sync or unsync at a time; a key enters the  *)
(* synced set when its sync begins and leaves it when the sync is refused  *)
(* or the terminal released; only an accepted sync makes a terminal held.  *)
(* SessionServer and CloudManager, which look at the two sides of the      *)
(* manager, are both shown to behave like this.                            *)
(***************************************************************************)
CONSTANTS Keys, None

VARIABLES synced,   \* the set shared with the persister
          held,     \* the keys the manager serves
          pending,  \* the key whose sync waits for its confirmation, or None
          alive     \* is there a server?

vars == <<synced, held, pending, alive>>

Init == synced = {} /\ held = {} /\ pending = None /\ alive = TRUE

Begin(k) == /\ pending = None /\ alive
            /\ pending' = k
            /\ synced' = synced \cup {k}
            /\ UNCHANGED <<held, alive>>

Accept == /\ pending # None /\ alive
          /\ held' = held \cup {pending}
          /\ pending' = None
          /\ UNCHANGED <<synced, alive>>

Refuse == /\ pending # None /\ alive
          /\ synced' = synced \ {pending}
          /\ pending' = None
          /\ UNCHANGED <<held, alive>>

Release(k) == /\ pending = None /\ alive /\ k \in held
              /\ held' = held \ {k} /\ synced' = synced \ {k}
              /\ UNCHANGED <<pending, alive>>

\* The server ends or dies.
End == alive /\ alive' = FALSE /\ UNCHANGED <<synced, held, pending>>

\* A new manager holds nothing; its synced set was read from a file.
Restart(S) == ~alive /\ alive' = TRUE /\ held' = {} /\ pending' = None /\ synced' = S

Next == \/ \E k \in Keys : Begin(k) \/ Release(k)
        \/ Accept \/ Refuse \/ End
        \/ \E S \in SUBSET Keys : Restart(S)

Spec == Init /\ [][Next]_vars

=============================================================================
