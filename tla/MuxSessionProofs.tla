-------------------------- MODULE MuxSessionProofs --------------------------
(* Theorems about MuxSession, for any number of calls and any capacities. *)
EXTENDS MuxSession, TLAPS

-----------------------------------------------------------------------------
(* Why the answers of calls follow each other, although none says whose it   *)
(* is.  Everything between the server and the client is a queue: numbers     *)
(* only grow along the way, and those a call was given are the smallest.     *)

\* The answers in the queue s are in the order of their requests.
Ascending(s) ==
  \A j, k \in DOMAIN s : j < k /\ s[j] # Output /\ s[k] # Output => s[j] < s[k]

\* They are later than request n; none is later than request n.
After(s, n) == \A k \in DOMAIN s : s[k] # Output => n < s[k]
UpTo(s, n) == \A k \in DOMAIN s : s[k] <= n

\* Those of t are later than those of s.
Precedes(s, t) == \A j \in DOMAIN s, k \in DOMAIN t : t[k] # Output => s[j] < t[k]

\* The requests in the socket come next; all that were made are there while
\* the connection is.
RequestsFollow ==
  /\ \A k \in DOMAIN up : up[k] = served + k
  /\ link = "up" => served + Len(up) = calls

\* What is lost with the server.
NothingBehind == link = "lost" => up = <<>> /\ server = 0 /\ channel = <<>>

\* The answers under way.
AnswersFollow ==
  /\ Ascending(down) /\ Ascending(channel) /\ Precedes(down, channel)
  /\ UpTo(down, served) /\ UpTo(channel, served) /\ server <= served
  /\ server # 0 => UpTo(down, server - 1) /\ UpTo(channel, server - 1)

\* The answers given came before them.
GivenAreFirst ==
  \A k \in 1..MaxCalls :
    /\ got[k] <= served
    /\ server # 0 => got[k] < server
    /\ After(down, got[k]) /\ After(channel, got[k])
    /\ k > calls => got[k] = 0

OrderInv == RequestsFollow /\ NothingBehind /\ AnswersFollow /\ GivenAreFirst

Inv == TypeOK /\ OrderInv /\ OwnAnswers

-----------------------------------------------------------------------------
(* Lemmas about queues *)

\* Appending to a queue, and taking its head.
LEMMA AppendFacts ==
  ASSUME NEW S, NEW s \in Seq(S), NEW e \in S
  PROVE  /\ Append(s, e) \in Seq(S) /\ Len(Append(s, e)) = Len(s) + 1
         /\ DOMAIN s = 1..Len(s) /\ DOMAIN Append(s, e) = 1..(Len(s) + 1)
         /\ \A j \in 1..Len(s) : Append(s, e)[j] = s[j]
         /\ Append(s, e)[Len(s) + 1] = e
         /\ Len(s) \in Nat
  OBVIOUS

LEMMA TailFacts ==
  ASSUME NEW S, NEW s \in Seq(S), s # <<>>
  PROVE  /\ Tail(s) \in Seq(S) /\ Len(Tail(s)) = Len(s) - 1
         /\ Len(s) \in Nat \ {0}
         /\ DOMAIN s = 1..Len(s) /\ DOMAIN Tail(s) = 1..(Len(s) - 1)
         /\ \A j \in 1..(Len(s) - 1) : Tail(s)[j] = s[j + 1]
         /\ Head(s) = s[1] /\ Head(s) \in S
  OBVIOUS

\* Appending the next number to numbers in a row.
LEMMA AppendNumber ==
  ASSUME NEW s \in Seq(Nat), NEW m \in Nat, NEW n \in Nat,
         m + Len(s) = n, \A k \in DOMAIN s : s[k] = m + k
  PROVE  /\ m + Len(Append(s, n + 1)) = n + 1
         /\ \A k \in DOMAIN Append(s, n + 1) : Append(s, n + 1)[k] = m + k
<1> DEFINE t == Append(s, n + 1)
<1>1. /\ Len(t) = Len(s) + 1 /\ Len(s) \in Nat
      /\ DOMAIN s = 1..Len(s) /\ DOMAIN t = 1..(Len(s) + 1)
      /\ \A j \in 1..Len(s) : t[j] = s[j]
      /\ t[Len(s) + 1] = n + 1
  BY AppendFacts
<1> HIDE DEF t
<1>2. m + Len(t) = n + 1 /\ n + 1 = m + (Len(s) + 1)
  BY <1>1
<1>3. ASSUME NEW k \in DOMAIN t PROVE t[k] = m + k
  <2>1. k = Len(s) + 1 \/ k \in DOMAIN s
    BY <1>1
  <2>2. t[Len(s) + 1] = m + (Len(s) + 1)
    BY <1>1, <1>2
  <2>3. k \in DOMAIN s => t[k] = m + k
    BY <1>1
  <2>4. QED
    BY <2>1, <2>2, <2>3
<1>4. QED
  BY <1>2, <1>3 DEF t

LEMMA EmptyFacts == \A S : <<>> \in Seq(S) /\ Len(<<>>) = 0 /\ DOMAIN <<>> = {}
  OBVIOUS

\* The same of queues of numbers.
LEMMA NumbersTail ==
  ASSUME NEW m \in Nat, NEW n \in Nat, NEW s \in Seq(m..n), s # <<>>
  PROVE  Tail(s) \in Seq(m..n) /\ Head(s) \in m..n /\ Len(Tail(s)) = Len(s) - 1 /\ Len(s) \in Nat \ {0}
  OBVIOUS

\* A frame at the end of a queue keeps it in order when it is output, or the
\* answer to a later request than all before it.
LEMMA AppendOrder ==
  ASSUME NEW s \in Seq(Nat), NEW e \in Nat, e # Output => UpTo(s, e - 1), Ascending(s)
  PROVE  /\ Ascending(Append(s, e))
         /\ \A n \in Nat : After(s, n) /\ (e # Output => n < e) => After(Append(s, e), n)
         /\ \A n \in Int : UpTo(s, n) /\ e <= n => UpTo(Append(s, e), n)
<1> USE AppendFacts DEF Output
<1>1. Ascending(Append(s, e))
  BY DEF Ascending, UpTo
<1>2. ASSUME NEW n \in Nat, After(s, n), e # Output => n < e PROVE After(Append(s, e), n)
  BY <1>2 DEF After
<1>3. ASSUME NEW n \in Int, UpTo(s, n), e <= n PROVE UpTo(Append(s, e), n)
  BY <1>3 DEF UpTo
<1>4. QED
  BY <1>1, <1>2, <1>3

\* A queue without its head.
LEMMA TailOrder ==
  ASSUME NEW s \in Seq(Nat), s # <<>>
  PROVE  /\ Ascending(s) => Ascending(Tail(s))
         /\ Ascending(s) /\ Head(s) # Output => After(Tail(s), Head(s))
         /\ \A n \in Nat : After(s, n) => After(Tail(s), n)
         /\ \A n \in Int : UpTo(s, n) => UpTo(Tail(s), n)
         /\ \A t : Precedes(s, t) => Precedes(Tail(s), t)
         /\ \A t : Precedes(t, s) => Precedes(t, Tail(s))
<1> USE TailFacts DEF Output
<1>1. Ascending(s) => Ascending(Tail(s))
  <2>1. ASSUME NEW j \in DOMAIN Tail(s), NEW k \in DOMAIN Tail(s)
        PROVE  j + 1 \in DOMAIN s /\ Tail(s)[j] = s[j + 1]
               /\ k + 1 \in DOMAIN s /\ Tail(s)[k] = s[k + 1] /\ (j < k => j + 1 < k + 1)
    OBVIOUS
  <2>2. QED
    BY <2>1 DEF Ascending
<1>2. Ascending(s) /\ Head(s) # Output => After(Tail(s), Head(s))
  BY DEF Ascending, After
<1>3. ASSUME NEW n \in Nat, After(s, n) PROVE After(Tail(s), n)
  BY <1>3 DEF After
<1>4. ASSUME NEW n \in Int, UpTo(s, n) PROVE UpTo(Tail(s), n)
  BY <1>4 DEF UpTo
<1>5. ASSUME NEW t, Precedes(s, t) PROVE Precedes(Tail(s), t)
  BY <1>5 DEF Precedes
<1>6. ASSUME NEW t, Precedes(t, s) PROVE Precedes(t, Tail(s))
  BY <1>6 DEF Precedes
<1>7. QED
  BY <1>1, <1>2, <1>3, <1>4, <1>5, <1>6

\* A queue is before an answer that is later than all of it, and before output.
LEMMA PrecedesAppend ==
  ASSUME NEW s \in Seq(Nat), NEW t \in Seq(Nat), NEW e \in Nat,
         Precedes(s, t), e # Output => UpTo(s, e - 1)
  PROVE  Precedes(s, Append(t, e))
  BY AppendFacts DEF Precedes, UpTo, Output

\* The head of the channel goes to the socket.
LEMMA PrecedesMove ==
  ASSUME NEW s \in Seq(Nat), NEW t \in Seq(Nat), t # <<>>, Precedes(s, t), Ascending(t)
  PROVE  /\ Precedes(Append(s, Head(t)), Tail(t))
         /\ Head(t) # Output => UpTo(s, Head(t) - 1)
<1>1. Head(t) \in Nat /\ Tail(t) \in Seq(Nat)
  BY TailFacts
<1>2. ASSUME NEW j \in DOMAIN Append(s, Head(t)), NEW k \in DOMAIN Tail(t), Tail(t)[k] # Output
      PROVE  Append(s, Head(t))[j] < Tail(t)[k]
  <2>1. k + 1 \in DOMAIN t /\ Tail(t)[k] = t[k + 1] /\ t[k + 1] \in Nat /\ k + 1 > 1 /\ 1 \in DOMAIN t
    BY <1>2, TailFacts
  <2>2. CASE j \in DOMAIN s
    BY <1>1, <1>2, <2>1, <2>2, AppendFacts DEF Precedes
  <2>3. CASE j = Len(s) + 1
    <3>1. Append(s, Head(t))[j] = t[1]
      BY <1>1, <2>3, AppendFacts, TailFacts
    <3>2. t[1] # Output => t[1] < t[k + 1]
      BY <1>2, <2>1 DEF Ascending
    <3>3. QED
      <4>1. Append(s, Head(t))[j] < Tail(t)[k] \/ t[1] = Output
        BY <2>1, <3>1, <3>2, <1>2
      <4>2. 0 < t[k + 1]
        BY <1>2, <2>1 DEF Output
      <4>3. QED
        BY <2>1, <3>1, <4>1, <4>2 DEF Output
  <2>4. QED
    <3>1. j \in DOMAIN s \/ j = Len(s) + 1
      <4>1. DOMAIN Append(s, Head(t)) = 1..(Len(s) + 1) /\ DOMAIN s = 1..Len(s) /\ Len(s) \in Nat
        BY <1>1, AppendFacts
      <4>2. QED
        BY <4>1
    <3>2. QED
      BY <2>2, <2>3, <3>1
<1>3. Head(t) # Output => UpTo(s, Head(t) - 1)
  <2>1. 1 \in DOMAIN t /\ t[1] = Head(t)
    BY TailFacts
  <2>2. \A j \in DOMAIN s : s[j] \in Nat
    OBVIOUS
  <2>3. QED
    BY <1>1, <2>1, <2>2 DEF Precedes, UpTo
<1>4. QED
  BY <1>2, <1>3 DEF Precedes

-----------------------------------------------------------------------------
(* Typing *)

\* The steps that leave the queues, the calls made and their answers alone.
Quiet == GiveUp \/ Drain \/ Leave \/ Forward \/ ReceiveEnd

LEMMA NextCases ==
  ASSUME Next
  PROVE  \/ \E s \in BOOLEAN : Begin(s)
         \/ Quiet \/ ReceiveOutput \/ ReceiveAnswer
         \/ Serve \/ Answer \/ Read \/ SockWrite \/ Lose
  BY Zenon DEF Next, Receive, Quiet

\* The types as the steps need them.
LEMMA Types ==
  ASSUME TypeOK
  PROVE  /\ MaxCalls \in Nat /\ calls \in Nat /\ calls <= MaxCalls
         /\ slot \in 0..calls /\ served \in 0..calls /\ server \in 0..calls
         /\ up \in Seq(1..calls) /\ channel \in Seq(0..calls) /\ down \in Seq(0..calls)
         /\ up \in Seq(Nat) /\ channel \in Seq(Nat) /\ down \in Seq(Nat)
         /\ ChanCap \in Nat \ {0} /\ DownCap \in Nat \ {0} /\ RxCap \in Nat \ {0}
         /\ rx \in Nat /\ rx <= RxCap
<1>1. up \in Seq(1..calls) /\ channel \in Seq(0..calls) /\ down \in Seq(0..calls) /\ calls \in Nat
  BY CallsAssumption DEF TypeOK
<1>2. up \in Seq(Nat) /\ channel \in Seq(Nat) /\ down \in Seq(Nat)
  BY <1>1
<1>3. QED
  BY <1>1, <1>2, CallsAssumption, RoomAssumption DEF TypeOK

LEMMA Counts ==
  ASSUME TypeOK
  PROVE  /\ MaxCalls \in Nat /\ calls \in Nat /\ calls <= MaxCalls
         /\ slot \in 0..calls /\ served \in 0..calls /\ server \in 0..calls
         /\ rx \in Nat /\ rx <= RxCap /\ RxCap \in Nat \ {0}
BY Types

LEMMA Queues ==
  ASSUME TypeOK
  PROVE  up \in Seq(Nat) /\ channel \in Seq(Nat) /\ down \in Seq(Nat)
BY Types

\* What is taken from the socket and from the channel.
LEMMA HeadOfDown ==
  ASSUME TypeOK, down # <<>>
  PROVE  /\ Tail(down) \in Seq(0..calls) /\ Len(Tail(down)) = Len(down) - 1
         /\ Len(down) \in Nat \ {0}
         /\ Head(down) \in 0..calls /\ 1 \in DOMAIN down /\ down[1] = Head(down)
<1>1. down \in Seq(0..calls)
  BY Types
<1>2. QED
  <2>1. /\ Tail(down) \in Seq(0..calls) /\ Len(Tail(down)) = Len(down) - 1
        /\ Len(down) \in Nat \ {0} /\ DOMAIN down = 1..Len(down)
        /\ Head(down) = down[1] /\ Head(down) \in 0..calls
    BY <1>1, TailFacts
  <2>2. 1 \in DOMAIN down
    BY <2>1
  <2>3. QED
    BY <2>1, <2>2

LEMMA HeadOfChannel ==
  ASSUME TypeOK, channel # <<>>
  PROVE  /\ Tail(channel) \in Seq(0..calls) /\ Len(Tail(channel)) = Len(channel) - 1
         /\ Len(channel) \in Nat \ {0}
         /\ Head(channel) \in 0..calls /\ 1 \in DOMAIN channel /\ channel[1] = Head(channel)
<1>1. channel \in Seq(0..calls)
  BY Types
<1>2. QED
  <2>1. /\ Tail(channel) \in Seq(0..calls) /\ Len(Tail(channel)) = Len(channel) - 1
        /\ Len(channel) \in Nat \ {0} /\ DOMAIN channel = 1..Len(channel)
        /\ Head(channel) = channel[1] /\ Head(channel) \in 0..calls
    BY <1>1, TailFacts
  <2>2. 1 \in DOMAIN channel
    BY <2>1
  <2>3. QED
    BY <2>1, <2>2

LEMMA GotType == ASSUME TypeOK PROVE \A k \in 1..MaxCalls : got[k] \in Nat
<1>1. got \in [1..MaxCalls -> 0..MaxCalls] /\ MaxCalls \in Nat
  BY CallsAssumption DEF TypeOK
<1>2. QED
  BY <1>1

LEMMA InitType == Init => TypeOK
<1> SUFFICES ASSUME Init PROVE TypeOK
  OBVIOUS
<1>1. up \in Seq(1..calls) /\ channel \in Seq(0..calls) /\ down \in Seq(0..calls)
  BY EmptyFacts DEF Init
<1>2. Len(channel) <= ChanCap /\ Len(down) <= DownCap
  BY EmptyFacts, RoomAssumption DEF Init
<1>3. calls \in 0..MaxCalls /\ slot \in 0..calls /\ served \in 0..calls /\ server \in 0..calls
  BY CallsAssumption DEF Init
<1>4. rx \in 0..RxCap /\ got \in [1..MaxCalls -> 0..MaxCalls]
  BY CallsAssumption, RoomAssumption DEF Init
<1>5. main \in {"idle", "waiting", "gone"} /\ strict \in BOOLEAN
      /\ receiver \in {"reading", "forwarding", "ended"} /\ link \in {"up", "lost", "left"}
  BY DEF Init
<1>6. QED
  BY <1>1, <1>2, <1>3, <1>4, <1>5 DEF TypeOK

LEMMA BeginType == ASSUME TypeOK, NEW s \in BOOLEAN, Begin(s) PROVE TypeOK'
<1>1. calls' = calls + 1 /\ calls' \in 0..MaxCalls /\ slot' = calls'
  BY Types DEF Begin
<1>2. up \in Seq(1..calls') /\ channel \in Seq(0..calls') /\ down \in Seq(0..calls')
  <2>1. 1..calls \subseteq 1..calls' /\ 0..calls \subseteq 0..calls'
    BY <1>1, Counts
  <2>2. \A S, T : S \subseteq T => Seq(S) \subseteq Seq(T)
    OBVIOUS
  <2>3. QED
    BY <2>1, <2>2, Types
<1>3. Append(up, calls') \in Seq(1..calls')
  <2>1. up \in Seq(1..calls') /\ calls' \in 1..calls'
    BY <1>1, <1>2, Counts
  <2>2. QED
    BY <2>1
<1>4. up' \in Seq(1..calls')
  BY <1>2, <1>3 DEF Begin
<1>5. {slot', served', server'} \subseteq 0..calls'
  BY <1>1, Types DEF Begin
<1>6. main' \in {"idle", "waiting", "gone"} /\ link' \in {"up", "lost", "left"}
  BY DEF Begin, Failed, TypeOK
<1>7. QED
  BY <1>1, <1>2, <1>4, <1>5, <1>6 DEF Begin, TypeOK

LEMMA QuietType == ASSUME TypeOK, Quiet PROVE TypeOK'
<1>1. UNCHANGED <<calls, got, served, server, up, channel, down>> /\ UNCHANGED <<slot, strict>>
  BY DEF Quiet, GiveUp, Drain, Leave, Forward, ReceiveEnd, client
<1>2. rx' \in 0..RxCap
  BY Counts DEF Quiet, GiveUp, Drain, Leave, Forward, ReceiveEnd, client
<1>3. main' \in {"idle", "waiting", "gone"} /\ link' \in {"up", "lost", "left"}
  BY DEF Quiet, GiveUp, Drain, Leave, Forward, ReceiveEnd, client, Failed, TypeOK
<1>4. receiver' \in {"reading", "forwarding", "ended"}
  BY DEF Quiet, GiveUp, Drain, Leave, Forward, ReceiveEnd, TypeOK
<1>5. QED
  BY <1>1, <1>2, <1>3, <1>4 DEF TypeOK

LEMMA ReceiveType == ASSUME TypeOK, ReceiveOutput \/ ReceiveAnswer PROVE TypeOK'
<1>1. down # <<>> /\ down' = Tail(down) /\ UNCHANGED <<calls, strict, served, server, up, channel, rx, link>>
  BY DEF ReceiveOutput, ReceiveAnswer, client
<1>2. down' \in Seq(0..calls) /\ Len(down') <= DownCap /\ Head(down) \in 0..MaxCalls
  <2>1. Tail(down) \in Seq(0..calls) /\ Head(down) \in 0..calls /\ Len(Tail(down)) <= DownCap
    <3>1. Tail(down) \in Seq(0..calls) /\ Head(down) \in 0..calls
          /\ Len(Tail(down)) = Len(down) - 1 /\ Len(down) \in Nat
      BY <1>1, HeadOfDown
    <3>2. DownCap \in Nat /\ Len(down) <= DownCap
      BY Types DEF TypeOK
    <3>3. QED
      BY <3>1, <3>2
  <2>2. QED
    BY <1>1, <2>1, Counts
<1>3. slot' \in 0..calls
  BY Counts DEF ReceiveOutput, ReceiveAnswer
<1>4. got' \in [1..MaxCalls -> 0..MaxCalls]
  BY <1>2 DEF ReceiveOutput, ReceiveAnswer, client, TypeOK
<1>5. main' \in {"idle", "waiting", "gone"} /\ receiver' \in {"reading", "forwarding", "ended"}
  BY DEF ReceiveOutput, ReceiveAnswer, client, TypeOK
<1>6. QED
  BY <1>1, <1>2, <1>3, <1>4, <1>5 DEF TypeOK

LEMMA ServerType == ASSUME TypeOK, Serve \/ Answer \/ Read \/ SockWrite \/ Lose PROVE TypeOK'
<1>1. UNCHANGED <<client, slot, receiver, rx>>
  BY DEF Serve, Answer, Read, SockWrite, Lose
<1>2. up' \in Seq(1..calls) /\ served' \in 0..calls /\ server' \in 0..calls
  <2>1. CASE Serve
    <3>1. Tail(up) \in Seq(1..calls) /\ Head(up) \in 1..calls
      BY <2>1, NumbersTail, Types DEF Serve
    <3>2. QED
      BY <2>1, <3>1 DEF Serve
  <2>2. CASE Answer \/ Read \/ SockWrite \/ Lose
    <3>1. (up' = up \/ up' = <<>>) /\ served' = served /\ (server' = server \/ server' = 0)
      BY <2>2 DEF Answer, Read, SockWrite, Lose
    <3>2. <<>> \in Seq(1..calls) /\ 0 \in 0..calls
      BY EmptyFacts, Types
    <3>3. up \in Seq(1..calls) /\ served \in 0..calls /\ server \in 0..calls
      BY Types
    <3>4. QED
      BY <3>1, <3>2, <3>3, Zenon
  <2>3. QED
    BY <2>1, <2>2
<1>3. channel' \in Seq(0..calls) /\ Len(channel') <= ChanCap /\ down' \in Seq(0..calls) /\ Len(down') <= DownCap
  <2>1. CASE Answer \/ Read
    <3>1. ASSUME NEW e \in 0..calls, Len(channel) < ChanCap
          PROVE  Append(channel, e) \in Seq(0..calls) /\ Len(Append(channel, e)) <= ChanCap
      BY <3>1, Types
    <3>2. 0 \in 0..calls
      BY Types
    <3>3. QED
      BY <2>1, <3>1, <3>2, Types DEF Answer, Read, TypeOK, Output
  <2>2. CASE SockWrite
    <3>1. Tail(channel) \in Seq(0..calls) /\ Head(channel) \in 0..calls /\ Len(Tail(channel)) <= ChanCap
      <4>1. channel # <<>>
        BY <2>2 DEF SockWrite
      <4>2. Tail(channel) \in Seq(0..calls) /\ Head(channel) \in 0..calls
            /\ Len(Tail(channel)) = Len(channel) - 1 /\ Len(channel) \in Nat
        BY <4>1, HeadOfChannel
      <4>3. ChanCap \in Nat /\ Len(channel) <= ChanCap
        BY Types DEF TypeOK
      <4>4. QED
        BY <4>2, <4>3
    <3>2. Append(down, Head(channel)) \in Seq(0..calls) /\ Len(Append(down, Head(channel))) <= DownCap
      BY <2>2, <3>1, Types DEF SockWrite
    <3>3. QED
      BY <2>2, <3>1, <3>2 DEF SockWrite
  <2>3. CASE Serve \/ Lose
    <3>1. (channel' = channel \/ channel' = <<>>) /\ down' = down
      BY <2>3 DEF Serve, Lose
    <3>2. <<>> \in Seq(0..calls) /\ Len(<<>>) <= ChanCap
      BY EmptyFacts, Types
    <3>3. channel \in Seq(0..calls) /\ down \in Seq(0..calls)
      BY Types
    <3>4. Len(channel) <= ChanCap /\ Len(down) <= DownCap
      BY DEF TypeOK
    <3>5. QED
      BY <3>1, <3>2, <3>3, <3>4, Zenon
  <2>4. QED
    BY <2>1, <2>2, <2>3
<1>4. link' \in {"up", "lost", "left"}
  BY DEF Serve, Answer, Read, SockWrite, Lose, TypeOK
<1>5. QED
  BY <1>1, <1>2, <1>3, <1>4 DEF client, TypeOK

LEMMA NextType == TypeOK /\ [Next]_vars => TypeOK'
<1> SUFFICES ASSUME TypeOK, [Next]_vars PROVE TypeOK'
  OBVIOUS
<1>1. CASE Next
  BY <1>1, NextCases, BeginType, QuietType, ReceiveType, ServerType
<1>2. CASE UNCHANGED vars
  BY <1>2, Zenon DEF vars, client, TypeOK
<1>3. QED
  BY <1>1, <1>2

\* Every state of a connection is of its type, and the channels hold no more
\* than they have room for (the bounded channels of ipc/mux.rs).
THEOREM TypeCorrect == Spec => []TypeOK
BY InitType, NextType, PTL DEF Spec

-----------------------------------------------------------------------------
(* Order *)

LEMMA InitOrder == Init => OrderInv
<1> SUFFICES ASSUME Init PROVE OrderInv
  OBVIOUS
<1>1. DOMAIN up = {} /\ DOMAIN channel = {} /\ DOMAIN down = {} /\ Len(up) = 0
  BY EmptyFacts DEF Init
<1>2. RequestsFollow /\ NothingBehind
  BY <1>1 DEF RequestsFollow, NothingBehind, Init
<1>3. AnswersFollow
  BY <1>1 DEF AnswersFollow, Ascending, Precedes, UpTo, Init
<1>4. GivenAreFirst
  BY <1>1 DEF GivenAreFirst, After, Init
<1>5. QED
  BY <1>2, <1>3, <1>4 DEF OrderInv

\* A call numbers its request after all others.
LEMMA BeginOrder == ASSUME TypeOK, OrderInv, NEW s \in BOOLEAN, Begin(s) PROVE OrderInv'
<1> USE DEF OrderInv
<1>1. UNCHANGED <<got, served, server, channel, down>> /\ calls' = calls + 1
  BY DEF Begin
<1>2. RequestsFollow'
  <2>1. CASE link = "up"
    <3>1. link' = "up" /\ up' = Append(up, calls + 1)
      BY <1>1, <2>1 DEF Begin
    <3>2. up \in Seq(Nat) /\ served \in Nat /\ calls \in Nat
      BY Types
    <3>3. served + Len(up) = calls /\ \A k \in DOMAIN up : up[k] = served + k
      BY <2>1 DEF RequestsFollow
    <3>4. /\ served + Len(up') = calls + 1
          /\ \A k \in DOMAIN up' : up'[k] = served + k
      <4> DEFINE u == Append(up, calls + 1)
      <4>1. /\ served + Len(u) = calls + 1
            /\ \A k \in DOMAIN u : u[k] = served + k
        BY <3>2, <3>3, AppendNumber
      <4> HIDE DEF u
      <4>2. up' = u
        BY <3>1 DEF u
      <4>3. QED
        BY <4>1, <4>2
    <3>5. QED
      BY <1>1, <3>4 DEF RequestsFollow
  <2>2. CASE link = "lost"
    BY <1>1, <2>2 DEF Begin, Failed, RequestsFollow
  <2>3. QED
    BY <2>1, <2>2 DEF Begin
<1>3. NothingBehind'
  BY <1>1 DEF Begin, Failed, NothingBehind
<1>4. AnswersFollow'
  BY <1>1 DEF AnswersFollow
<1>5. GivenAreFirst'
  BY <1>1, Types DEF GivenAreFirst
<1>6. QED
  BY <1>2, <1>3, <1>4, <1>5

LEMMA QuietOrder == ASSUME TypeOK, OrderInv, Quiet PROVE OrderInv'
<1>1. UNCHANGED <<calls, got, served, server, up, channel, down>>
      /\ (link' = link \/ link' = "left")
  BY DEF Quiet, GiveUp, Drain, Leave, Forward, ReceiveEnd, client, Failed
<1>2. QED
  BY <1>1 DEF OrderInv, RequestsFollow, NothingBehind, AnswersFollow, GivenAreFirst

\* The client takes the first frame; an answer given to a call comes before
\* all that is still under way.
LEMMA ReceiveOrder ==
  ASSUME TypeOK, OrderInv, ReceiveOutput \/ ReceiveAnswer
  PROVE  OrderInv'
<1> USE DEF OrderInv
<1>1. down # <<>> /\ down' = Tail(down) /\ UNCHANGED <<calls, served, server, up, channel, link>>
  BY DEF ReceiveOutput, ReceiveAnswer, client
<1>2. down \in Seq(Nat) /\ Head(down) \in 0..MaxCalls
  BY <1>1, HeadOfDown, Counts, Queues
<1>3. 1 \in DOMAIN down /\ down[1] = Head(down)
  BY <1>1, HeadOfDown
<1>4. RequestsFollow' /\ NothingBehind'
  BY <1>1 DEF RequestsFollow, NothingBehind
<1>5. AnswersFollow'
  <2>1. served \in Int /\ server - 1 \in Int
    BY Counts
  <2>2. /\ Ascending(down) => Ascending(Tail(down))
        /\ \A n \in Int : UpTo(down, n) => UpTo(Tail(down), n)
        /\ Precedes(down, channel) => Precedes(Tail(down), channel)
    BY <1>1, TailOrder, Queues
  <2>3. QED
    BY <1>1, <2>1, <2>2 DEF AnswersFollow
<1>6. GivenAreFirst'
  <2>1. CASE got' = got
    BY <1>1, <1>2, <2>1, TailOrder, GotType DEF GivenAreFirst
  <2>2. CASE got' # got
    <3>1. Head(down) # Output /\ got' = [got EXCEPT ![calls] = Head(down)]
      BY <2>2 DEF ReceiveOutput, ReceiveAnswer, client
    <3>2. Head(down) <= served /\ (server # 0 => Head(down) < server)
      BY <1>2, <1>3, Types DEF AnswersFollow, UpTo
    <3>3. After(down', Head(down))
      BY <1>1, <1>2, <3>1, TailOrder DEF AnswersFollow
    <3>4. After(channel', Head(down))
      BY <1>1, <1>3 DEF AnswersFollow, Precedes, After
    <3>5. ASSUME NEW k \in 1..MaxCalls
          PROVE  /\ got'[k] <= served' /\ (server' # 0 => got'[k] < server')
                 /\ After(down', got'[k]) /\ After(channel', got'[k])
                 /\ k > calls' => got'[k] = 0
      <4>1. CASE k = calls
        <5>1. got'[k] = Head(down)
          BY <3>1, <4>1 DEF TypeOK
        <5>2. ~(k > calls')
          BY <1>1, <4>1, Types
        <5>3. QED
          BY <1>1, <3>2, <3>3, <3>4, <5>1, <5>2
      <4>2. CASE k # calls
        <5>1. got'[k] = got[k] /\ got[k] \in Nat
          BY <3>1, <4>2, GotType DEF TypeOK
        <5>2. After(down', got[k])
          BY <1>1, <1>2, <5>1, TailOrder DEF GivenAreFirst
        <5>3. QED
          BY <1>1, <5>1, <5>2 DEF GivenAreFirst
      <4>3. QED
        BY <4>1, <4>2
    <3>6. QED
      BY <3>5 DEF GivenAreFirst
  <2>3. QED
    BY <2>1, <2>2
<1>7. QED
  BY <1>4, <1>5, <1>6

\* The next request carried out is later than all before it.
LEMMA ServeOrder == ASSUME TypeOK, OrderInv, Serve PROVE OrderInv' /\ served' = served + 1 /\ served < calls
<1> USE DEF OrderInv
<1>1. up # <<>> /\ server' = Head(up) /\ up' = Tail(up) /\ served' = Head(up)
      /\ UNCHANGED <<calls, got, channel, down, link>> /\ link # "lost"
  BY DEF Serve, client
<1>2. Tail(up) \in Seq(1..calls) /\ Len(Tail(up)) = Len(up) - 1 /\ Len(up) \in Nat \ {0}
      /\ DOMAIN up = 1..Len(up) /\ DOMAIN Tail(up) = 1..(Len(up) - 1)
      /\ \A j \in 1..(Len(up) - 1) : Tail(up)[j] = up[j + 1]
      /\ Head(up) = up[1] /\ Head(up) \in 1..calls
  BY <1>1, TailFacts, Types
<1>3. Head(up) = served + 1
  BY <1>2 DEF RequestsFollow
<1>4. served < calls /\ served \in Nat /\ served' = served + 1 /\ server' = served + 1
  <2>1. served \in Nat /\ Head(up) <= calls
    BY <1>2, Counts
  <2>2. QED
    <3>1. served < calls
      BY <1>3, <2>1, Types
    <3>2. QED
      BY <1>1, <1>3, <2>1, <3>1, Zenon
<1>5. RequestsFollow'
  <2>1. ASSUME NEW k \in DOMAIN up' PROVE up'[k] = served' + k
    <3>1. k \in 1..(Len(up) - 1) /\ k + 1 \in DOMAIN up /\ up'[k] = up[k + 1]
      BY <1>1, <1>2
    <3>2. up[k + 1] = served + (k + 1)
      BY <3>1 DEF RequestsFollow
    <3>3. QED
      BY <1>2, <1>4, <3>1, <3>2
  <2>2. link' = "up" => served' + Len(up') = calls'
    BY <1>1, <1>2, <1>3, Types DEF RequestsFollow
  <2>3. QED
    BY <2>1, <2>2 DEF RequestsFollow
<1>6. NothingBehind'
  BY <1>1 DEF NothingBehind
<1>7. \A s \in Seq(Nat) : UpTo(s, served) => UpTo(s, served + 1)
  BY Counts DEF UpTo
<1>8. AnswersFollow'
  <2>1. served' - 1 = served /\ server' - 1 = served /\ server' <= served'
    BY <1>4
  <2>2. UpTo(down, served + 1) /\ UpTo(channel, served + 1)
    BY <1>7, Types DEF AnswersFollow
  <2>3. QED
    BY <1>1, <1>3, <2>1, <2>2 DEF AnswersFollow
<1>9. GivenAreFirst'
  <2>1. \A k \in 1..MaxCalls : got[k] <= served + 1 /\ got[k] < served + 1
    <3>1. \A k \in 1..MaxCalls : got[k] \in Nat /\ got[k] <= served
      BY GotType DEF GivenAreFirst
    <3>2. served \in Nat
      BY Counts
    <3>3. QED
      BY <3>1, <3>2
  <2>2. QED
    BY <1>1, <1>3, <2>1 DEF GivenAreFirst
<1>10. QED
  BY <1>1, <1>3, <1>4, <1>5, <1>6, <1>8, <1>9

\* Its answer goes to the end of the channel; or output does.
LEMMA ChannelOrder == ASSUME TypeOK, OrderInv, Answer \/ Read PROVE OrderInv'
<1> USE DEF OrderInv
<1>1. UNCHANGED <<calls, got, up, served, down, link>>
  BY DEF Answer, Read, client
<1>2. RequestsFollow'
  BY <1>1 DEF RequestsFollow
<1>3. NothingBehind'
  BY <1>1 DEF Answer, Read, NothingBehind
<1>4. CASE Answer /\ UNCHANGED channel
  <2>1. server' = 0
    BY <1>4 DEF Answer
  <2>2. QED
    BY <1>1, <1>2, <1>3, <1>4, <2>1, Types DEF AnswersFollow, GivenAreFirst
<1>5. CASE channel' # channel
  <2>1. PICK e \in {Output, server} :
          /\ channel' = Append(channel, e)
          /\ \/ e = Output /\ server' = server
             \/ e = server /\ server # 0 /\ server' = 0
    <3>1. CASE Answer
      BY <1>5, <3>1 DEF Answer
    <3>2. CASE Read
      <4>1. channel' = Append(channel, Output) /\ server' = server /\ Output \in {Output, server}
        BY <3>2 DEF Read
      <4>2. QED
        BY <4>1, Zenon
    <3>3. QED
      BY <3>1, <3>2
  <2>2. e \in Nat /\ e <= served
    BY <2>1, Types DEF Output, AnswersFollow
  <2>3. e # Output => UpTo(channel, e - 1) /\ UpTo(down, e - 1)
    BY <2>1 DEF AnswersFollow, Output
  <2>4. Ascending(channel')
    BY <2>1, <2>2, <2>3, AppendOrder, Types DEF AnswersFollow
  <2>5. UpTo(channel', served')
    BY <1>1, <2>1, <2>2, <2>3, AppendOrder, Types DEF AnswersFollow
  <2>6. Precedes(down', channel')
    BY <1>1, <2>1, <2>2, <2>3, PrecedesAppend, Types DEF AnswersFollow
  <2>7. server' # 0 => UpTo(channel', server' - 1)
    <3>1. CASE e = Output /\ server' = server
      <4>1. server # 0 => UpTo(channel, server - 1) /\ server - 1 \in Int /\ e <= server - 1
        BY <3>1, Types DEF AnswersFollow, Output
      <4>2. QED
        BY <2>1, <2>2, <2>3, <3>1, <4>1, AppendOrder, Types DEF AnswersFollow
    <3>2. QED
      BY <2>1, <3>1
  <2>8. AnswersFollow'
    <3>1. server' <= served'
      BY <1>1, <2>1, Types DEF AnswersFollow
    <3>2. server' # 0 => UpTo(down', server' - 1)
      BY <1>1, <2>1 DEF AnswersFollow
    <3>3. Ascending(down') /\ UpTo(down', served')
      BY <1>1 DEF AnswersFollow
    <3>4. QED
      BY <2>4, <2>5, <2>6, <2>7, <3>1, <3>2, <3>3, Zenon DEF AnswersFollow
  <2>9. ASSUME NEW k \in 1..MaxCalls
        PROVE  got[k] <= served /\ (server' # 0 => got[k] < server') /\ After(down, got[k])
               /\ After(channel', got[k]) /\ (k > calls => got[k] = 0)
    <3>1. got[k] \in Nat
      BY GotType
    <3>2. After(channel, got[k]) /\ (e # Output => got[k] < e)
      BY <2>1 DEF GivenAreFirst
    <3>3. After(channel', got[k])
      BY <2>1, <2>2, <2>3, <3>1, <3>2, AppendOrder, Types DEF AnswersFollow
    <3>4. QED
      BY <2>1, <3>3 DEF GivenAreFirst
  <2>10. GivenAreFirst'
    BY <1>1, <2>9 DEF GivenAreFirst
  <2>11. QED
    BY <1>2, <1>3, <2>8, <2>10
<1>6. QED
  <2>1. channel' # channel \/ (Answer /\ UNCHANGED channel)
    BY Types, AppendFacts DEF Answer, Read, Output
  <2>2. QED
    BY <1>4, <1>5, <2>1

\* The first frame of the channel goes to the end of the socket.
LEMMA SockWriteOrder == ASSUME TypeOK, OrderInv, SockWrite PROVE OrderInv'
<1> USE DEF OrderInv
<1> DEFINE e == Head(channel)
<1>1. channel # <<>> /\ down' = Append(down, e) /\ channel' = Tail(channel)
      /\ UNCHANGED <<calls, got, up, served, server, link>> /\ link = "up"
  BY DEF SockWrite, client
<1>2. e \in Nat /\ 1 \in DOMAIN channel /\ channel[1] = e
  BY <1>1, HeadOfChannel
<1>3. e <= served /\ (server # 0 => e <= server - 1)
  BY <1>2 DEF AnswersFollow, UpTo
<1>4. Precedes(down', channel') /\ (e # Output => UpTo(down, e - 1))
  BY <1>1, PrecedesMove, Types DEF AnswersFollow
<1>5. RequestsFollow' /\ NothingBehind'
  BY <1>1 DEF RequestsFollow, NothingBehind
<1>6. Ascending(down') /\ UpTo(down', served) /\ (server # 0 => UpTo(down', server - 1))
  <2>1. served \in Int /\ server - 1 \in Int
    BY Types
  <2>2. QED
    BY <1>1, <1>2, <1>3, <1>4, <2>1, AppendOrder, Types DEF AnswersFollow
<1>7. Ascending(channel') /\ UpTo(channel', served) /\ (server # 0 => UpTo(channel', server - 1))
  <2>1. served \in Int /\ server - 1 \in Int
    BY Counts
  <2>2. /\ Ascending(channel) => Ascending(Tail(channel))
        /\ \A n \in Int : UpTo(channel, n) => UpTo(Tail(channel), n)
    BY <1>1, TailOrder, Queues
  <2>3. QED
    BY <1>1, <2>1, <2>2 DEF AnswersFollow
<1>8. AnswersFollow'
  BY <1>1, <1>4, <1>6, <1>7 DEF AnswersFollow
<1>9. ASSUME NEW k \in 1..MaxCalls PROVE After(down', got[k]) /\ After(channel', got[k])
  <2>1. got[k] \in Nat
    BY GotType
  <2>2. After(down, got[k]) /\ After(channel, got[k])
    BY DEF GivenAreFirst
  <2>3. e # Output => got[k] < e
    BY <1>2, <2>2 DEF After
  <2>4. QED
    BY <1>1, <1>2, <1>4, <2>1, <2>2, <2>3, AppendOrder, TailOrder, Types DEF AnswersFollow
<1>10. GivenAreFirst'
  BY <1>1, <1>9 DEF GivenAreFirst
<1>11. QED
  BY <1>5, <1>8, <1>10

\* What the server took with it can arrive no more.
LEMMA LoseOrder == ASSUME TypeOK, OrderInv, Lose PROVE OrderInv'
<1> USE DEF OrderInv
<1>1. link' = "lost" /\ server' = 0 /\ up' = <<>> /\ channel' = <<>>
      /\ UNCHANGED <<calls, got, served, down>>
  BY DEF Lose, client
<1>2. DOMAIN up' = {} /\ DOMAIN channel' = {}
  BY <1>1, EmptyFacts
<1>3. RequestsFollow' /\ NothingBehind'
  BY <1>1, <1>2 DEF RequestsFollow, NothingBehind
<1>4. AnswersFollow'
  BY <1>1, <1>2, Types DEF AnswersFollow, Ascending, Precedes, UpTo
<1>5. GivenAreFirst'
  BY <1>1, <1>2 DEF GivenAreFirst, After
<1>6. QED
  BY <1>3, <1>4, <1>5

LEMMA NextOrder == TypeOK /\ OrderInv /\ [Next]_vars => OrderInv'
<1> SUFFICES ASSUME TypeOK, OrderInv, [Next]_vars PROVE OrderInv'
  OBVIOUS
<1>1. CASE Next
  BY <1>1, NextCases, BeginOrder, QuietOrder, ReceiveOrder, ServeOrder, ChannelOrder,
     SockWriteOrder, LoseOrder
<1>2. CASE UNCHANGED vars
  BY <1>2 DEF vars, client, OrderInv, RequestsFollow, NothingBehind, AnswersFollow, GivenAreFirst
<1>3. QED
  BY <1>1, <1>2

-----------------------------------------------------------------------------
(* What follows from the order *)

\* The answer a call takes comes after all that were given.
LEMMA AnswerIsNext ==
  ASSUME TypeOK, OrderInv, ReceiveAnswer
  PROVE  /\ Head(down) \in 1..served
         /\ \A k \in 1..MaxCalls : got[k] < Head(down)
<1>1. down # <<>> /\ Head(down) # 0
  BY DEF ReceiveAnswer, Output
<1>2. Head(down) \in 0..MaxCalls /\ 1 \in DOMAIN down /\ down[1] = Head(down)
  BY <1>1, HeadOfDown, Counts
<1>3. Head(down) <= served
  BY <1>2 DEF OrderInv, AnswersFollow, UpTo
<1>4. \A k \in 1..MaxCalls : got[k] < Head(down)
  BY <1>1, <1>2 DEF OrderInv, GivenAreFirst, After, Output
<1>5. QED
  BY <1>1, <1>2, <1>3, <1>4, Types

LEMMA InitOwn == Init => OwnAnswers
  BY DEF Init, OwnAnswers

\* It is that of the call, when all before were answered: they hold the
\* answers 1, 2, ... up to their own.
LEMMA NextOwn == TypeOK /\ OrderInv /\ OwnAnswers /\ [Next]_vars => OwnAnswers'
<1> SUFFICES ASSUME TypeOK, OrderInv, OwnAnswers, [Next]_vars PROVE OwnAnswers'
  OBVIOUS
<1>1. CASE ReceiveAnswer /\ got' # got
  <2>1. got' = [got EXCEPT ![calls] = Head(down)] /\ main = "waiting"
    BY <1>1 DEF ReceiveAnswer
  <2>2. Head(down) \in Nat /\ Head(down) <= calls /\ \A k \in 1..MaxCalls : got[k] < Head(down)
    BY <1>1, AnswerIsNext, Counts
  <2> SUFFICES ASSUME NEW k \in 1..MaxCalls
               PROVE  got'[k] \in {0, k} \/ \E j \in 1..k-1 : got'[j] = 0
    BY DEF OwnAnswers
  <2>3. k \in Nat \ {0} /\ calls \in Nat /\ MaxCalls \in Nat /\ k <= MaxCalls /\ calls' = calls
    <3>1. MaxCalls \in Nat /\ calls \in Nat
      BY Types
    <3>2. QED
      BY <1>1, <3>1 DEF ReceiveAnswer
  <2>4. \A j \in 1..MaxCalls : j # calls => got'[j] = got[j]
    BY <2>1 DEF TypeOK
  <2>5. CASE k < calls
    <3>1. \A j \in 1..k : j \in 1..MaxCalls /\ j # calls
      BY <2>5, Types
    <3>2. k \in 1..k /\ \A j \in 1..k-1 : j \in 1..k
      OBVIOUS
    <3>3. QED
      BY <2>4, <3>1, <3>2 DEF OwnAnswers
  <2>6. CASE k > calls
    BY <2>4, <2>6, <2>3 DEF OrderInv, GivenAreFirst
  <2>7. CASE k = calls
    <3>1. got'[k] = Head(down)
      BY <2>1, <2>7 DEF TypeOK
    <3>2. CASE \E j \in 1..k-1 : got[j] = 0
      <4>1. \A j \in 1..k-1 : j \in 1..MaxCalls /\ j # calls
        BY <2>7, <2>3
      <4>2. QED
        BY <2>4, <3>2, <4>1
    <3>3. CASE k = 1
      BY <2>2, <2>7, <3>1, <3>3, GotType
    <3>4. CASE k > 1 /\ \A j \in 1..k-1 : got[j] # 0
      <4>1. k - 1 \in 1..MaxCalls /\ k - 1 \in 1..k-1 /\ \A j \in 1..(k-1)-1 : j \in 1..k-1
        BY <2>3, <3>4
      <4>2. got[k - 1] = k - 1
        BY <3>4, <4>1 DEF OwnAnswers
      <4>3. Head(down) = k
        BY <2>2, <2>7, <4>1, <4>2
      <4>4. QED
        BY <3>1, <4>3
    <3>5. QED
      BY <3>2, <3>3, <3>4
  <2>8. QED
    BY <2>5, <2>6, <2>7, <2>3
<1>2. CASE got' = got
  BY <1>2 DEF OwnAnswers
<1>3. got' = got \/ ReceiveAnswer
  <2>1. CASE Next
    <3>1. ASSUME ~ReceiveAnswer PROVE got' = got
      BY <2>1, <3>1, NextCases DEF Begin, Quiet, GiveUp, Drain, Leave, Forward, ReceiveEnd,
         ReceiveOutput, Serve, Answer, Read, SockWrite, Lose, client
    <3>2. QED
      BY <3>1
  <2>2. CASE UNCHANGED vars
    BY <2>2 DEF vars, client
  <2>3. QED
    BY <2>1, <2>2
<1>4. QED
  BY <1>1, <1>2, <1>3

\* "routing Control responses internally" (ipc/mux.rs): a call returns the
\* answer to its own request, unless an earlier call failed, whatever is late.
THEOREM OwnCorrect == Spec => []OwnAnswers
<1>1. Init => Inv
  BY InitType, InitOrder, InitOwn DEF Inv
<1>2. Inv /\ [Next]_vars => Inv'
  BY NextType, NextOrder, NextOwn DEF Inv
<1>3. Inv => OwnAnswers
  BY DEF Inv
<1>4. QED
  BY <1>1, <1>2, <1>3, PTL DEF Spec

-----------------------------------------------------------------------------
(* Refinement *)

LEMMA InitCalls == Init => Calls!Init
  BY DEF Init, Calls!Init

\* Every step of the connection is one a caller may see, or none.
LEMMA StepCalls ==
  ASSUME TypeOK, OrderInv, [Next]_vars
  PROVE  [Calls!Next]_(Calls!vars)
<1> USE DEF Calls!Next, Calls!vars
<1>1. ASSUME NEW s \in BOOLEAN, Begin(s) PROVE Calls!Begin
  BY <1>1 DEF Begin, Failed, Calls!Begin
<1>2. CASE Quiet
  <2>1. CASE GiveUp
    BY <2>1 DEF GiveUp, Failed, Calls!GiveUp
  <2>2. CASE Drain \/ Forward \/ ReceiveEnd
    BY <2>2 DEF Drain, Forward, ReceiveEnd, client
  <2>3. CASE Leave
    BY <2>3 DEF Leave
  <2>4. QED
    BY <1>2, <2>1, <2>2, <2>3 DEF Quiet
<1>3. CASE ReceiveAnswer
  <2>1. UNCHANGED <<calls, served>>
    BY <1>3 DEF ReceiveAnswer
  <2>2. CASE main = "waiting" /\ slot = calls
    <3>1. main' = "idle" /\ got' = [got EXCEPT ![calls] = Head(down)]
      BY <1>3, <2>2 DEF ReceiveAnswer
    <3>2. Calls!Return
      BY <1>3, <2>1, <2>2, <3>1, AnswerIsNext DEF Calls!Return
    <3>3. QED
      BY <3>2
  <2>3. CASE ~(main = "waiting" /\ slot = calls)
    BY <1>3, <2>1, <2>3 DEF ReceiveAnswer
  <2>4. QED
    BY <2>2, <2>3
<1>4. CASE Serve
  <2>1. served' = served + 1 /\ served < calls /\ UNCHANGED <<calls, main, got>>
    BY <1>4, ServeOrder DEF Serve, client
  <2>2. QED
    BY <2>1 DEF Calls!Serve
<1>5. CASE ReceiveOutput \/ Answer \/ Read \/ SockWrite \/ Lose
  BY <1>5 DEF ReceiveOutput, Answer, Read, SockWrite, Lose, client
<1>6. CASE UNCHANGED vars
  BY <1>6 DEF vars, client
<1>7. QED
  BY <1>1, <1>2, <1>3, <1>4, <1>5, <1>6, NextCases

\* send_control (ipc/mux.rs) keeps the promise of MuxCalls as far as it says
\* what may not happen: answers are those of requests the server carried out,
\* each given at most once and in the order of the requests, one call at a
\* time.  That every call ends is checked by ImplementsCalls.
THEOREM CallsImplemented == Spec => Calls!Init /\ [][Calls!Next]_(Calls!vars)
<1>1. Init => Inv
  BY InitType, InitOrder, InitOwn DEF Inv
<1>2. Inv /\ [Next]_vars => Inv'
  BY NextType, NextOrder, NextOwn DEF Inv
<1>3. Inv /\ [Next]_vars => [Calls!Next]_(Calls!vars)
  BY StepCalls DEF Inv
<1>4. QED
  BY <1>1, <1>2, <1>3, InitCalls, PTL DEF Spec

=============================================================================
