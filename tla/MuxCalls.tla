------------------------------- MODULE MuxCalls -------------------------------
(***************************************************************************)
(* What an attached client may count on when it sends control requests     *)
(* over its connection, without queues, tasks and terminal output: one     *)
(* call at a time, every call ends, and the answers it is given are those  *)
(* of requests the server has carried out, each at most once and in the    *)
(* order of the requests.  It is not promised the answer to its own        *)
(* request: the answer to a call it gave up may go to a later one.         *)
(* MuxSession implements this.                                             *)
(***************************************************************************)
EXTENDS Naturals

CONSTANT MaxCalls   \* bound on the calls of a connection

VARIABLES
  calls,    \* the calls begun; they are numbered from 1
  open,     \* is the last of them under way?
  served,   \* the requests the server has carried out
  got       \* the answer each call returned, 0 where there is none

vars == <<calls, open, served, got>>

Init == calls = 0 /\ open = FALSE /\ served = 0 /\ got = [k \in 1..MaxCalls |-> 0]

\* A call begins; it fails at once when there is nobody to send to.
Begin == /\ ~open /\ calls < MaxCalls
         /\ calls' = calls + 1 /\ open' \in BOOLEAN
         /\ UNCHANGED <<served, got>>

Serve == served < calls /\ served' = served + 1 /\ UNCHANGED <<calls, open, got>>

Return == /\ open /\ open' = FALSE
          /\ \E j \in 1..served : /\ \A k \in 1..MaxCalls : got[k] < j
                                  /\ got' = [got EXCEPT ![calls] = j]
          /\ UNCHANGED <<calls, served>>

GiveUp == open /\ open' = FALSE /\ UNCHANGED <<calls, served, got>>

Next == Begin \/ Serve \/ Return \/ GiveUp

Spec == Init /\ [][Next]_vars /\ WF_vars(Return \/ GiveUp)

=============================================================================
