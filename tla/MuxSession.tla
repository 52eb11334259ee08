------------------------------ MODULE MuxSession ------------------------------
(***************************************************************************)
(* The connection between an attached client and the server, over which    *)
(* terminal output, control requests and their answers travel              *)
(* (ipc/mux.rs, terminal/attach.rs, server/mod.rs).                        *)
(*                                                                         *)
(* The client has a main task and a task that receives.  A call of the     *)
(* main task puts a oneshot sender in the one slot both share, writes its  *)
(* request and waits five seconds; the receiving task gives an answer to   *)
(* whatever sender is in the slot, and puts output in a bounded channel    *)
(* that the main task empties only between calls.  In the server one task  *)
(* reads requests and carries them out, one writes to the socket, and the  *)
(* answers share the bounded channel between them with the output.         *)
(*                                                                         *)
(* Output is one kind of frame; a request is its number.  The five seconds *)
(* may end at any time.  The client's writes do not block here: the socket *)
(* holds hundreds of its small frames.                                     *)
(***************************************************************************)
EXTENDS Naturals, Sequences, FiniteSets, SequencesExt

CONSTANTS
  MaxCalls,   \* bound on the calls of a connection
  ChanCap,    \* room in the server's channel
  DownCap,    \* room in the socket towards the client
  RxCap       \* room in the client's channel

ASSUME CallsAssumption == MaxCalls \in Nat
ASSUME RoomAssumption == {ChanCap, DownCap, RxCap} \subseteq Nat \ {0}

VARIABLES
  calls,      \* the calls begun
  main,       \* the main task: "idle", "waiting" for an answer, or "gone"
  strict,     \* does an error of the last call end the client?
  slot,       \* ctrl_tx: the call whose sender it holds, or 0
  got,        \* the answer each call returned, or 0
  receiver,   \* "reading", "forwarding" output it has in hand, or "ended"
  rx,         \* output in the client's channel
  up,         \* requests in the socket towards the server
  served,     \* the requests carried out
  server,     \* the request whose answer waits for room in the channel, or 0
  channel,    \* the server's channel
  down,       \* the socket towards the client
  link        \* "up", "lost" when the server is gone, "left" when the client is

client == <<calls, main, strict, got>>
vars == <<client, slot, receiver, rx, up, served, server, channel, down, link>>

\* In channel and down an answer is the number of its request.
Output == 0

Init ==
  /\ calls = 0 /\ main = "idle" /\ strict = FALSE /\ slot = 0
  /\ got = [k \in 1..MaxCalls |-> 0]
  /\ receiver = "reading" /\ rx = 0
  /\ up = <<>> /\ served = 0 /\ server = 0 /\ channel = <<>> /\ down = <<>>
  /\ link = "up"

-----------------------------------------------------------------------------
(* The client *)

\* What becomes of the main task when a call fails: run_tui returns the error
\* of a strict call, without a Detach, and ignores that of another.
Failed(s) == IF s THEN main' = "gone" /\ link' = "left"
                  ELSE main' = "idle" /\ UNCHANGED link

\* send_control up to its wait.  A split and a close pass its error on; a
\* switch of views, and the undoing of a split, do not.
Begin(s) ==
  /\ main = "idle" /\ calls < MaxCalls
  /\ calls' = calls + 1 /\ strict' = s /\ slot' = calls'
  /\ \/ link = "up" /\ main' = "waiting" /\ up' = Append(up, calls') /\ UNCHANGED link
     \/ link = "lost" /\ Failed(s) /\ UNCHANGED up
  /\ UNCHANGED <<got, receiver, rx, served, server, channel, down>>

\* Mutant of GiveUp: only strict calls time out.
GiveUpIfStrict ==
  /\ main = "waiting" /\ strict
  /\ Failed(strict)
  /\ UNCHANGED <<calls, strict, got, slot, receiver, rx, up, served, server, channel, down>>

\* The five seconds are over.
GiveUp ==
  /\ main = "waiting"
  /\ Failed(strict)
  /\ UNCHANGED <<calls, strict, got, slot, receiver, rx, up, served, server, channel, down>>

\* The main task takes output from its channel and draws it.
Drain ==
  /\ main = "idle" /\ rx > 0 /\ rx' = rx - 1
  /\ UNCHANGED <<client, slot, receiver, up, served, server, channel, down, link>>

\* The user detaches; or types, which fails once the server is gone.
Leave ==
  /\ main = "idle" /\ main' = "gone" /\ link' = "left"
  /\ UNCHANGED <<calls, strict, got, slot, receiver, rx, up, served, server, channel, down>>

\* recv_frame on output.
ReceiveOutput ==
  /\ main # "gone" /\ receiver = "reading" /\ down # <<>> /\ Head(down) = Output
  /\ receiver' = "forwarding" /\ down' = Tail(down)
  /\ UNCHANGED <<client, slot, rx, up, served, server, channel, link>>

\* There is room in the client's channel.
Forward ==
  /\ main # "gone" /\ receiver = "forwarding" /\ rx < RxCap
  /\ receiver' = "reading" /\ rx' = rx + 1
  /\ UNCHANGED <<client, slot, up, served, server, channel, down, link>>

\* Mutant of ReceiveAnswer: an answer waits until a call wants one.
ReceiveAnswerForSlot ==
  /\ main # "gone" /\ receiver = "reading" /\ down # <<>> /\ Head(down) # Output
  /\ slot # 0 /\ slot' = 0 /\ down' = Tail(down)
  /\ IF main = "waiting" /\ slot = calls
       THEN main' = "idle" /\ got' = [got EXCEPT ![calls] = Head(down)]
       ELSE UNCHANGED <<main, got>>
  /\ UNCHANGED <<calls, strict, receiver, rx, up, served, server, channel, link>>

\* recv_frame on an answer: it goes to the call whose sender is in the slot,
\* and to nobody when the slot is empty or that call has given up.
ReceiveAnswer ==
  /\ main # "gone" /\ receiver = "reading" /\ down # <<>> /\ Head(down) # Output
  /\ down' = Tail(down) /\ slot' = 0
  /\ IF main = "waiting" /\ slot = calls
       THEN main' = "idle" /\ got' = [got EXCEPT ![calls] = Head(down)]
       ELSE UNCHANGED <<main, got>>
  /\ UNCHANGED <<calls, strict, receiver, rx, up, served, server, channel, link>>

\* The receiving task ends with the connection; the slot keeps its sender.
ReceiveEnd ==
  /\ main # "gone" /\ receiver = "reading" /\ down = <<>> /\ link = "lost"
  /\ receiver' = "ended"
  /\ UNCHANGED <<client, slot, rx, up, served, server, channel, down, link>>

-----------------------------------------------------------------------------
(* The server *)

\* Mutant of Serve: the request is not taken from the socket.
ServeAgain ==
  /\ link # "lost" /\ server = 0 /\ up # <<>>
  /\ server' = Head(up) /\ served' = Head(up)
  /\ UNCHANGED <<client, slot, receiver, rx, up, channel, down, link>>

\* mux_sock_read carries a request out, to the end even if the client left.
Serve ==
  /\ link # "lost" /\ server = 0 /\ up # <<>>
  /\ server' = Head(up) /\ up' = Tail(up) /\ served' = Head(up)
  /\ UNCHANGED <<client, slot, receiver, rx, channel, down, link>>

\* It puts the answer in the channel, when there is room or nobody left.
Answer ==
  /\ link # "lost" /\ server # 0
  /\ \/ link = "up" /\ Len(channel) < ChanCap /\ channel' = Append(channel, server)
     \/ link = "left" /\ UNCHANGED channel
  /\ server' = 0
  /\ UNCHANGED <<client, slot, receiver, rx, up, served, down, link>>

\* A reader of a terminal puts output in the channel.
Read ==
  /\ link = "up" /\ Len(channel) < ChanCap
  /\ channel' = Append(channel, Output)
  /\ UNCHANGED <<client, slot, receiver, rx, up, served, server, down, link>>

SockWrite ==
  /\ link = "up" /\ channel # <<>> /\ Len(down) < DownCap
  /\ down' = Append(down, Head(channel)) /\ channel' = Tail(channel)
  /\ UNCHANGED <<client, slot, receiver, rx, up, served, server, link>>

\* The server dies, or ends the session; what it had written can be read.
Lose ==
  /\ link = "up" /\ link' = "lost"
  /\ up' = <<>> /\ server' = 0 /\ channel' = <<>>
  /\ UNCHANGED <<client, slot, receiver, rx, served, down>>

-----------------------------------------------------------------------------
Receive == ReceiveOutput \/ Forward \/ ReceiveAnswer \/ ReceiveEnd

Next ==
  \/ \E s \in BOOLEAN : Begin(s)
  \/ GiveUp \/ Drain \/ Leave
  \/ Receive
  \/ Serve \/ Answer \/ Read \/ SockWrite \/ Lose

\* Tasks that can go on do, and the timer of a call runs out.  The channel
\* lets its senders in by turns, so that the answer gets in among output that
\* never ends.  Nobody has to output, call or leave.
Fairness ==
  /\ WF_vars(GiveUp) /\ WF_vars(Drain) /\ WF_vars(Receive)
  /\ WF_vars(Serve) /\ SF_vars(Answer) /\ WF_vars(SockWrite)

Spec == Init /\ [][Next]_vars /\ Fairness

-----------------------------------------------------------------------------
(* Properties *)

\* Every variable stays in its type.
TypeOK ==
  /\ calls \in 0..MaxCalls /\ {slot, served, server} \subseteq 0..calls
  /\ main \in {"idle", "waiting", "gone"} /\ strict \in BOOLEAN
  /\ got \in [1..MaxCalls -> 0..MaxCalls]
  /\ receiver \in {"reading", "forwarding", "ended"} /\ rx \in 0..RxCap
  /\ up \in Seq(1..calls) /\ Len(channel) <= ChanCap /\ Len(down) <= DownCap
  /\ {channel, down} \subseteq Seq(0..calls)
  /\ link \in {"up", "lost", "left"}

\* "routing Control responses internally" (ipc/mux.rs): a call returns the
\* answer to its own request, unless an earlier call failed.  Answers carry
\* no number, so once a call was given up and the client went on, it may take
\* the answer to a KillTerminal for that to its CreateTerminal.
OwnAnswers ==
  \A k \in 1..MaxCalls : got[k] \in {0, k} \/ \E j \in 1..k-1 : got[j] = 0

\* Answers on their way to the client.
InTransit == up # <<>> \/ server # 0 \/ \E k \in 1..calls : Contains(channel \o down, k)

\* A client that makes no more calls for a while is answered its own requests
\* again: the late answers reach it, though terminals output without end,
\* because between calls it takes output from its channel.
Resynchronises == <>[](main = "idle" /\ link = "up") => <>[]~InTransit

Calls == INSTANCE MuxCalls WITH open <- main = "waiting"

\* send_control (ipc/mux.rs) against a server that is slow, busy with output
\* or gone: calls end, with answers that were given, once each and in order.
ImplementsCalls == Calls!Spec

=============================================================================
