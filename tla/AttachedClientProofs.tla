------------------------ MODULE AttachedClientProofs ------------------------
(***************************************************************************)
(* Theorems about AttachedClient, for any clients, terminals, views and    *)
(* window sizes, and trees of any shape: what the panes of a client, the   *)
(* terminals it emulates and those its connection carries have to do with  *)
(* each other, in every phase of every handler.                            *)
(***************************************************************************)
EXTENDS AttachedClient, PaneLayoutProofs

-----------------------------------------------------------------------------
(* The inductive invariant.  In it, d are the ids drawn so far and tm the *)
(* terminals that exist; m is what the connection of the client carries.  *)

(* The lists of terminals that views keep and clients attach to. *)
ListOK(ids, d) ==
  /\ ids \in Seq(d)
  /\ \A i, j \in 1 .. Len(ids) : ids[i] = ids[j] => i = j

(* What a view stores: nothing, or a sound layout. *)
StoredOK(layout, d) == layout = None \/ Sound(layout, d)

(* A view. *)
ViewOK(view, d) ==
  /\ view = [terminal_ids |-> view.terminal_ids, layout |-> view.layout]
  /\ ListOK(view.terminal_ids, d) /\ StoredOK(view.layout, d)

(* A client that has asked what to attach to. *)
AttachingOK(s, d) ==
  /\ s.at = "attaching"
  /\ s \in [at : {"attaching"}, view_id : Views \cup {None}, ids : Seq(d), saved : {s.saved}]
  /\ s.ids # <<>> /\ ListOK(s.ids, d) /\ StoredOK(s.saved, d)

(* What its connection carries and the client does not emulate, in the middle *)
(* of a split.                                                                *)
Pending(s) == IF s.at \in Directions \cup {"undo"} THEN {Head(s.todo)} ELSE {}

(* What a switch of view has yet to attach. *)
Coming(s) == IF s.at = "switching" THEN ToSet(s.todo) ELSE {}

(* A client that shows panes: its layout is sound; in a handler that has more *)
(* to do it knows of which terminal, and of which view; the terminal a split  *)
(* is about has no pane yet; and the client emulates what its connection      *)
(* carries, but for the one of the split, while the connection carries what   *)
(* the client shows, but for what the switch of view has yet to attach.       *)
ShownOK(s, m, tm, d) ==
  /\ s.at \in Phases
  /\ s \in [at : Phases, view_id : Views \cup {None}, layout : {s.layout},
            restored : SUBSET TermIds, vterms : SUBSET d, area : Areas, todo : Seq(d)]
  /\ Sound(s.layout, d)
  /\ s.at \in Directions \cup {"undo", "adding", "removing", "switching"} => s.todo # <<>>
  /\ s.at \in {"adding", "removing", "syncing"} => s.view_id # None
  /\ s.at \in Directions => Head(s.todo) \notin Panes(s.layout.root)
  /\ m \ Pending(s) \subseteq s.vterms
  /\ s.vterms \cap tm \subseteq m
  /\ (Panes(s.layout.root) \ s.restored) \cap tm \subseteq m \cup Coming(s)

(* A client, in whatever phase. *)
SessionOK(s, m, tm, d) ==
  /\ m \subseteq d
  /\ s = Off \/ AttachingOK(s, d) \/ ShownOK(s, m, tm, d)

(* The whole state. *)
Inv ==
  /\ terms \subseteq drawn /\ drawn \subseteq TermIds
  /\ DOMAIN views = Views /\ views = [v \in Views |-> views[v]]
  /\ \A v \in Views : ViewOK(views[v], drawn)
  /\ DOMAIN mux = Clients /\ mux = [c \in Clients |-> mux[c]]
  /\ DOMAIN session = Clients /\ session = [c \in Clients |-> session[c]]
  /\ \A c \in Clients : SessionOK(session[c], mux[c], terms, drawn)

-----------------------------------------------------------------------------
(* Lists, and layouts over more ids *)

(* A layout stays sound when ids are drawn. *)
LEMMA SoundGrows ==
  ASSUME NEW layout, NEW T, NEW U, T \subseteq U, Sound(layout, T)
  PROVE  Sound(layout, U)
<1>1. IsTree(layout.root, T)
  BY DEF Sound
<1>2. {Leaf(t) : t \in T} \subseteq {Leaf(t) : t \in U}
  OBVIOUS
<1>3. IsTree(layout.root, U)
  BY <1>1, <1>2 DEF IsTree
<1>4. QED
  BY <1>3 DEF Sound

(* The panes of a sound layout are terminals. *)
LEMMA SoundPanes ==
  ASSUME NEW layout, NEW T, Sound(layout, T)
  PROVE  Panes(layout.root) \subseteq T /\ IsTree(layout.root, T)
<1>1. IsTree(layout.root, T)
  BY DEF Sound
<1>2. QED
  BY <1>1, PaneFacts

(* What a list says of its elements, its head and its tail. *)
LEMMA Elements ==
  ASSUME NEW S, NEW s \in Seq(S)
  PROVE  /\ Len(s) \in Nat /\ ToSet(s) = {s[i] : i \in 1 .. Len(s)} /\ ToSet(s) \subseteq S
         /\ \A i \in 1 .. Len(s) : s[i] \in ToSet(s)
         /\ s = <<>> => ToSet(s) = {}
         /\ s # <<>> => /\ Head(s) \in S /\ Head(s) \in ToSet(s) /\ Head(s) = s[1]
                        /\ Tail(s) \in Seq(S) /\ Len(Tail(s)) = Len(s) - 1
                        /\ ToSet(s) = {Head(s)} \cup ToSet(Tail(s))
                        /\ (Len(s) = 1 <=> Tail(s) = <<>>) /\ Len(s) >= 1
<1>1. Len(s) \in Nat /\ DOMAIN s = 1 .. Len(s) /\ \A i \in 1 .. Len(s) : s[i] \in S
  BY LenProperties, ElementOfSeq
<1>2. ToSet(s) = {s[i] : i \in 1 .. Len(s)}
  BY <1>1 DEF ToSet
<1>3. ASSUME s # <<>>
      PROVE  /\ Head(s) \in S /\ Head(s) \in ToSet(s) /\ Head(s) = s[1]
             /\ Tail(s) \in Seq(S) /\ Len(Tail(s)) = Len(s) - 1
             /\ ToSet(s) = {Head(s)} \cup ToSet(Tail(s))
             /\ (Len(s) = 1 <=> Tail(s) = <<>>) /\ Len(s) >= 1
  <2>1. /\ Head(s) = s[1] /\ Len(s) >= 1
        /\ Tail(s) \in Seq(S) /\ Len(Tail(s)) = Len(s) - 1
        /\ \A i \in 1 .. Len(Tail(s)) : Tail(s)[i] = s[i + 1]
    BY <1>1, <1>3, HeadTailProperties, EmptySeq
  <2>2. /\ DOMAIN Tail(s) = 1 .. Len(Tail(s))
    BY <2>1, LenProperties
  <2>3. Len(s) = 1 <=> Tail(s) = <<>>
    <3>1. \A u \in Seq(S) : Len(u) = 0 <=> u = <<>>
      BY EmptySeq
    <3>2. Len(Tail(s)) = 0 <=> Tail(s) = <<>>
      BY <2>1, <3>1
    <3>3. Len(s) = 1 <=> Len(s) - 1 = 0
      BY <1>1
    <3>4. QED
      BY <2>1, <3>2, <3>3
  <2> DEFINE u == Tail(s)
  <2>4. ToSet(u) = {u[i] : i \in 1 .. Len(s) - 1}
    BY <2>1, <2>2 DEF ToSet
  <2>5. \A i \in 1 .. Len(s) - 1 : u[i] = s[i + 1]
    BY <2>1
  <2> HIDE DEF u
  <2>6. ASSUME NEW i \in 1 .. Len(s) PROVE s[i] \in {s[1]} \cup ToSet(u)
    <3>1. CASE i = 1
      BY <3>1
    <3>2. CASE i # 1
      <4>1. i - 1 \in 1 .. Len(s) - 1 /\ s[i] = u[i - 1]
        BY <1>1, <2>5, <3>2
      <4>2. QED
        BY <2>4, <4>1
    <3>3. QED
      BY <3>1, <3>2
  <2>7. ASSUME NEW i \in 1 .. Len(s) - 1 PROVE u[i] \in ToSet(s)
    <3>1. i + 1 \in 1 .. Len(s) /\ u[i] = s[i + 1]
      BY <1>1, <2>5
    <3>2. QED
      BY <1>2, <3>1
  <2>8. s[1] \in ToSet(s) /\ s[1] \in S
    BY <1>1, <1>2, <2>1
  <2>9. ToSet(s) = {s[1]} \cup ToSet(u)
    BY <1>2, <2>4, <2>6, <2>7, <2>8
  <2>10. QED
    BY <2>1, <2>3, <2>8, <2>9 DEF u
<1>4. QED
  BY <1>1, <1>2, <1>3

(* A list stays good when ids are drawn. *)
LEMMA ListGrows ==
  ASSUME NEW ids, NEW d, NEW e, d \subseteq e, ListOK(ids, d)
  PROVE  ListOK(ids, e)
BY DEF ListOK

(* add_terminal lists nothing twice. *)
LEMMA ListedTwice ==
  ASSUME NEW d, NEW ids, ListOK(ids, d), NEW t \in d, t \notin ToSet(ids)
  PROVE  ListOK(Append(ids, t), d)
<1> DEFINE more == Append(ids, t)
<1>1. /\ ids \in Seq(d) /\ Len(ids) \in Nat
      /\ \A i \in 1 .. Len(ids) : ids[i] # t
  BY Elements DEF ListOK
<1>2. /\ more \in Seq(d) /\ Len(more) = Len(ids) + 1
      /\ \A i \in 1 .. Len(ids) : more[i] = ids[i]
      /\ more[Len(ids) + 1] = t
  BY <1>1, AppendProperties
<1> HIDE DEF more
<1>3. ASSUME NEW i \in 1 .. Len(more), NEW j \in 1 .. Len(more), more[i] = more[j]
      PROVE  i = j
  BY <1>1, <1>2, <1>3 DEF ListOK
<1>4. QED
  BY <1>2, <1>3 DEF ListOK, more

(* retain takes one name off a list, and lists nothing twice. *)
LEMMA WithoutFacts ==
  ASSUME NEW d, NEW ids, ListOK(ids, d), NEW t
  PROVE  ListOK(Without(ids, t), d)
<1> DEFINE Kept(g, n) == IF n = 0 THEN <<>>
                         ELSE IF ids[n] = t THEN g[n - 1] ELSE Append(g[n - 1], ids[n])
           N == Len(ids)
           P(g) == g = [n \in 0 .. N |-> Kept(g, n)]
           kept == CHOOSE g : P(g)
           S == {m \in Nat : \E g : g = [n \in 0 .. m |-> Kept(g, n)]}
           Good(n) == /\ kept[n] \in Seq(d)
                      /\ \A k \in 1 .. Len(kept[n]) : \E i \in 1 .. n : kept[n][k] = ids[i]
                      /\ \A j, k \in 1 .. Len(kept[n]) : kept[n][j] = kept[n][k] => j = k
           G == {n \in Nat : n <= N => Good(n)}
<1>1. /\ ids \in Seq(d) /\ N \in Nat /\ \A i \in 1 .. N : ids[i] \in d
      /\ \A i, j \in 1 .. N : ids[i] = ids[j] => i = j
  BY Elements DEF ListOK
<1>2. Without(ids, t) = kept[N]
  BY DEF Without
<1> HIDE DEF N
<1>3. 0 \in S
  <2> DEFINE g == [n \in 0 .. 0 |-> <<>>]
  <2>1. g = [n \in 0 .. 0 |-> Kept(g, n)]
    OBVIOUS
  <2> HIDE DEF g, Kept
  <2>2. QED
    BY <2>1
<1>4. ASSUME NEW m \in Nat, m \in S PROVE m + 1 \in S
  <2>1. PICK g : g = [n \in 0 .. m |-> Kept(g, n)]
    BY <1>4
  <2> DEFINE h == [n \in 0 .. m + 1 |-> Kept(g, n)]
  <2>2. \A n \in 0 .. m : h[n] = g[n]
    <3> HIDE DEF Kept
    <3>1. \A n \in 0 .. m : g[n] = Kept(g, n)
      BY <2>1
    <3>2. \A n \in 0 .. m : h[n] = Kept(g, n)
      OBVIOUS
    <3>3. QED
      BY <3>1, <3>2
  <2>3. \A n \in 0 .. m + 1 : n # 0 => n - 1 \in 0 .. m
    OBVIOUS
  <2>4. \A n \in 0 .. m + 1 : h[n] = Kept(h, n)
    <3>1. \A n \in 0 .. m + 1 : h[n] = Kept(g, n)
      OBVIOUS
    <3> HIDE DEF h
    <3>2. QED
      BY <2>2, <2>3, <3>1
  <2>5. h = [n \in 0 .. m + 1 |-> Kept(h, n)]
    <3>1. h = [n \in 0 .. m + 1 |-> h[n]]
      OBVIOUS
    <3> HIDE DEF h, Kept
    <3>2. QED
      BY <2>4, <3>1
  <2> HIDE DEF h, Kept
  <2>6. QED
    BY <2>5
<1>5. N \in S
  <2> HIDE DEF S
  <2>1. \A m \in Nat : m \in S
    BY <1>3, <1>4, NatSetInduction
  <2>2. QED
    BY <1>1, <2>1
<1>6. P(kept)
  <2>1. \E g : P(g)
    BY <1>5
  <2> HIDE DEF P
  <2>2. QED
    BY <2>1, Zenon
<1> HIDE DEF kept
<1>7. \A n \in 0 .. N : kept[n] = Kept(kept, n)
  BY <1>6
<1>8. 0 \in G
  <2>1. kept[0] = <<>>
    BY <1>1, <1>7
  <2>2. <<>> \in Seq(d) /\ Len(<<>>) = 0
    OBVIOUS
  <2>3. Good(0)
    BY <2>1, <2>2
  <2>4. QED
    BY <2>3
<1>9. ASSUME NEW n \in Nat, n \in G PROVE n + 1 \in G
  <2>1. SUFFICES ASSUME n + 1 <= N PROVE Good(n + 1)
    BY <1>1
  <2>2. Good(n) /\ n + 1 \in 0 .. N /\ n + 1 \in 1 .. N
    BY <1>1, <1>9, <2>1
  <2>5. kept[n + 1] = Kept(kept, n + 1)
    BY <1>7, <2>2
  <2>6. n + 1 # 0 /\ (n + 1) - 1 = n
    OBVIOUS
  <2>3. CASE ids[n + 1] = t
    <3>1. kept[n + 1] = kept[n]
      BY <2>3, <2>5, <2>6
    <3> HIDE DEF G, S
    <3>2. \A k \in 1 .. Len(kept[n]) : \E i \in 1 .. n + 1 : kept[n][k] = ids[i]
      BY <2>2
    <3>3. QED
      BY <2>2, <3>1, <3>2
  <2>4. CASE ids[n + 1] # t
    <3> DEFINE k0 == kept[n]
               k1 == kept[n + 1]
    <3>1. k1 = Append(k0, ids[n + 1])
      BY <2>4, <2>5, <2>6
    <3>2. ids[n + 1] \in d /\ k0 \in Seq(d) /\ Len(k0) \in Nat
      BY <1>1, <2>2, LenProperties
    <3> HIDE DEF k0, k1
    <3>3. /\ k1 \in Seq(d) /\ Len(k1) = Len(k0) + 1
          /\ \A k \in 1 .. Len(k0) : k1[k] = k0[k]
          /\ k1[Len(k0) + 1] = ids[n + 1]
      BY <3>1, <3>2, AppendProperties
    <3>4. \A k \in 1 .. Len(k0) : \E i \in 1 .. n : k0[k] = ids[i]
      BY <2>2 DEF k0
    <3>5. \A k \in 1 .. Len(k0) : k0[k] # ids[n + 1]
      BY <1>1, <2>2, <3>4
    <3>6. ASSUME NEW k \in 1 .. Len(k1) PROVE \E i \in 1 .. n + 1 : k1[k] = ids[i]
      <4>1. CASE k \in 1 .. Len(k0)
        BY <3>3, <3>4, <4>1
      <4>2. CASE k = Len(k0) + 1
        BY <3>3, <4>2
      <4>3. QED
        BY <3>2, <3>3, <4>1, <4>2
    <3>7. \A j, k \in 1 .. Len(k0) : k0[j] = k0[k] => j = k
      BY <2>2 DEF k0
    <3>8. ASSUME NEW j \in 1 .. Len(k1), NEW k \in 1 .. Len(k1), k1[j] = k1[k] PROVE j = k
      BY <3>2, <3>3, <3>5, <3>7, <3>8
    <3>9. QED
      BY <3>3, <3>6, <3>8 DEF k1
  <2>7. QED
    BY <2>3, <2>4
<1>10. N \in G
  <2> HIDE DEF G
  <2>1. \A n \in Nat : n \in G
    BY <1>8, <1>9, NatSetInduction
  <2>2. QED
    BY <1>1, <2>1
<1>11. QED
  BY <1>1, <1>2, <1>10 DEF ListOK

-----------------------------------------------------------------------------
(* Opening, and steps of one client *)

(* A column for each terminal: the layout of a client whose view stores none. *)
LEMMA OpenedFacts ==
  ASSUME NEW d, NEW ids, ListOK(ids, d), ids # <<>>
  PROVE  Sound(Opened(ids, None), d) /\ Panes(Opened(ids, None).root) = ToSet(ids)
<1> DEFINE Col(g, n) == IF n = 1 THEN New(ids[1]) ELSE SplitFocused(g[n - 1], "Vertical", ids[n])
           N == Len(ids)
           P(g) == g = [n \in 1 .. N |-> Col(g, n)]
           column == CHOOSE g : P(g)
           S == {m \in Nat : \E g : g = [n \in 1 .. m |-> Col(g, n)]}
           Good(n) == Sound(column[n], d) /\ Panes(column[n].root) = {ids[i] : i \in 1 .. n}
           G == {n \in Nat : n + 1 <= N => Good(n + 1)}
<1>1. /\ ids \in Seq(d) /\ N \in Nat /\ N >= 1 /\ \A i \in 1 .. N : ids[i] \in d
      /\ \A i, j \in 1 .. N : ids[i] = ids[j] => i = j
      /\ ToSet(ids) = {ids[i] : i \in 1 .. N}
  BY Elements DEF ListOK
<1>2. Opened(ids, None) = column[N]
  BY DEF Opened
<1> HIDE DEF N
<1>3. 0 \in S
  <2> DEFINE g == [n \in 1 .. 0 |-> <<>>]
  <2>1. g = [n \in 1 .. 0 |-> Col(g, n)]
    OBVIOUS
  <2> HIDE DEF g, Col
  <2>2. QED
    BY <2>1
<1>4. ASSUME NEW m \in Nat, m \in S PROVE m + 1 \in S
  <2>1. PICK g : g = [n \in 1 .. m |-> Col(g, n)]
    BY <1>4
  <2> DEFINE h == [n \in 1 .. m + 1 |-> Col(g, n)]
  <2>2. \A n \in 1 .. m : h[n] = g[n]
    <3> HIDE DEF Col
    <3>1. \A n \in 1 .. m : g[n] = Col(g, n)
      BY <2>1
    <3>2. \A n \in 1 .. m : h[n] = Col(g, n)
      OBVIOUS
    <3>3. QED
      BY <3>1, <3>2
  <2>3. \A n \in 1 .. m + 1 : n # 1 => n - 1 \in 1 .. m
    OBVIOUS
  <2>4. \A n \in 1 .. m + 1 : h[n] = Col(h, n)
    <3>1. \A n \in 1 .. m + 1 : h[n] = Col(g, n)
      OBVIOUS
    <3> HIDE DEF h
    <3>2. QED
      BY <2>2, <2>3, <3>1
  <2>5. h = [n \in 1 .. m + 1 |-> Col(h, n)]
    <3>1. h = [n \in 1 .. m + 1 |-> h[n]]
      OBVIOUS
    <3> HIDE DEF h, Col
    <3>2. QED
      BY <2>4, <3>1
  <2> HIDE DEF h, Col
  <2>6. QED
    BY <2>5
<1>5. N \in S
  <2> HIDE DEF S
  <2>1. \A m \in Nat : m \in S
    BY <1>3, <1>4, NatSetInduction
  <2>2. QED
    BY <1>1, <2>1
<1>6. P(column)
  <2>1. \E g : P(g)
    BY <1>5
  <2> HIDE DEF P
  <2>2. QED
    BY <2>1, Zenon
<1> HIDE DEF column
<1>7. \A n \in 1 .. N : column[n] = Col(column, n)
  BY <1>6
<1>8. 0 \in G
  <2>1. column[1] = New(ids[1])
    BY <1>1, <1>7
  <2>2. ids[1] \in d
    BY <1>1
  <2>3. Sound(column[1], d) /\ Panes(column[1].root) = {ids[1]}
    BY <2>1, <2>2, NewIsSound
  <2>4. {ids[1]} = {ids[i] : i \in 1 .. 1}
    OBVIOUS
  <2>5. Good(1)
    BY <2>3, <2>4
  <2>6. QED
    BY <2>5
<1>9. ASSUME NEW k \in Nat, k \in G PROVE k + 1 \in G
  <2> DEFINE n == k + 1
  <2>1. SUFFICES ASSUME n + 1 <= N PROVE Good(n + 1)
    BY <1>1
  <2>2. Good(n) /\ n + 1 \in 1 .. N /\ n \in 1 .. N /\ n + 1 # 1 /\ (n + 1) - 1 = n
    BY <1>1, <1>9, <2>1
  <2> HIDE DEF n
  <2>3. column[n + 1] = SplitFocused(column[n], "Vertical", ids[n + 1])
    <3>1. column[n + 1] = Col(column, n + 1)
      BY <1>7, <2>2
    <3>2. QED
      BY <2>2, <3>1
  <2>4. ids[n + 1] \in d /\ ids[n + 1] \notin Panes(column[n].root)
    BY <1>1, <2>2
  <2>5. "Vertical" \in Directions
    BY DEF Directions
  <2>6. /\ Sound(column[n + 1], d)
        /\ \A t : t \in Panes(column[n + 1].root)
                    <=> t \in Panes(column[n].root) \/ t = ids[n + 1]
    <3> DEFINE old == column[n]
               more == column[n + 1]
               id == ids[n + 1]
    <3>1. /\ Sound(old, d) /\ id \in d /\ id \notin Panes(old.root)
          /\ more = SplitFocused(old, "Vertical", id)
      BY <2>2, <2>3, <2>4
    <3> HIDE DEF old, more, id, G, Good, S, P, Col
    <3>2. Sound(more, d)
      BY <2>5, <3>1, SplitFacts
    <3>3. \A t : t \in Panes(more.root) <=> t \in Panes(old.root) \/ t = id
      BY <2>5, <3>1, SplitFacts
    <3>4. QED
      BY <3>2, <3>3 DEF old, more, id
  <2>7. {ids[i] : i \in 1 .. n + 1} = {ids[i] : i \in 1 .. n} \cup {ids[n + 1]}
    <3>1. n \in Nat
      BY DEF n
    <3>2. QED
      BY <3>1
  <2>8. QED
    BY <2>2, <2>6, <2>7
<1>10. N - 1 \in G
  <2> HIDE DEF G
  <2>1. \A n \in Nat : n \in G
    BY <1>8, <1>9, NatSetInduction
  <2>2. N - 1 \in Nat
    BY <1>1
  <2>3. QED
    BY <2>1, <2>2
<1>11. Good(N)
  BY <1>1, <1>10
<1>12. QED
  BY <1>1, <1>2, <1>11

(* What holds of a session goes on to hold when others draw new ids and *)
(* terminals end.                                                       *)
LEMMA SessionGrows ==
  ASSUME NEW s, NEW m, NEW tm, NEW d, NEW tm2, NEW d2,
         SessionOK(s, m, tm, d), d \subseteq d2, d2 \subseteq TermIds, tm2 \cap d \subseteq tm
  PROVE  SessionOK(s, m, tm2, d2)
<1>1. m \subseteq d2
  BY DEF SessionOK
<1>2. \A layout : Sound(layout, d) => Sound(layout, d2)
  BY SoundGrows
<1>3. Seq(d) \subseteq Seq(d2)
  OBVIOUS
<1>4. ASSUME AttachingOK(s, d) PROVE AttachingOK(s, d2)
  <2>1. ListOK(s.ids, d2)
    BY <1>4, ListGrows DEF AttachingOK
  <2>2. StoredOK(s.saved, d2)
    BY <1>2, <1>4 DEF AttachingOK, StoredOK
  <2>3. s \in [at : {"attaching"}, view_id : Views \cup {None}, ids : Seq(d2), saved : {s.saved}]
    BY <1>3, <1>4 DEF AttachingOK
  <2>4. QED
    BY <1>4, <2>1, <2>2, <2>3 DEF AttachingOK
<1>5. ASSUME ShownOK(s, m, tm, d) PROVE ShownOK(s, m, tm2, d2)
  <2>1. Sound(s.layout, d2)
    BY <1>2, <1>5 DEF ShownOK
  <2>2. Panes(s.layout.root) \subseteq d
    BY <1>5, SoundPanes DEF ShownOK
  <2>3. s \in [at : Phases, view_id : Views \cup {None}, layout : {s.layout},
               restored : SUBSET TermIds, vterms : SUBSET d, area : Areas, todo : Seq(d)]
    BY <1>5 DEF ShownOK
  <2>4. s \in [at : Phases, view_id : Views \cup {None}, layout : {s.layout},
               restored : SUBSET TermIds, vterms : SUBSET d2, area : Areas, todo : Seq(d2)]
    BY <1>3, <2>3
  <2>5. s.vterms \subseteq d
    BY <2>3
  <2>6. /\ s.vterms \cap tm2 \subseteq m
        /\ (Panes(s.layout.root) \ s.restored) \cap tm2 \subseteq m \cup Coming(s)
    BY <1>5, <2>2, <2>5 DEF ShownOK
  <2>7. QED
    BY <1>5, <2>1, <2>4, <2>6 DEF ShownOK
<1>6. QED
  BY <1>1, <1>4, <1>5 DEF SessionOK

(* So does a view. *)
LEMMA ViewGrows ==
  ASSUME NEW view, NEW d, NEW e, d \subseteq e, ViewOK(view, d)
  PROVE  ViewOK(view, e)
BY ListGrows, SoundGrows DEF ViewOK, StoredOK

(* A step that changes the session and the connection of one client only. *)
LEMMA OneSession ==
  ASSUME Inv, NEW c \in Clients, NEW s, NEW m,
         session' = [session EXCEPT ![c] = s], mux' = [mux EXCEPT ![c] = m],
         terms' \subseteq drawn', drawn \subseteq drawn', drawn' \subseteq TermIds,
         terms' \cap drawn \subseteq terms,
         SessionOK(s, m, terms', drawn'),
         DOMAIN views' = Views, views' = [v \in Views |-> views'[v]],
         \A v \in Views : ViewOK(views'[v], drawn')
  PROVE  Inv'
<1>1. /\ DOMAIN mux' = Clients /\ mux' = [x \in Clients |-> mux'[x]]
      /\ DOMAIN session' = Clients /\ session' = [x \in Clients |-> session'[x]]
      /\ session'[c] = s /\ mux'[c] = m
      /\ \A x \in Clients \ {c} : session'[x] = session[x] /\ mux'[x] = mux[x]
  BY DEF Inv
<1>2. ASSUME NEW x \in Clients PROVE SessionOK(session'[x], mux'[x], terms', drawn')
  <2>1. CASE x = c
    BY <1>1, <2>1
  <2>2. CASE x # c
    <3>1. SessionOK(session[x], mux[x], terms, drawn)
      BY DEF Inv
    <3>2. SessionOK(session[x], mux[x], terms', drawn')
      BY <3>1, SessionGrows
    <3>3. QED
      BY <1>1, <2>2, <3>2
  <2>3. QED
    BY <2>1, <2>2
<1>3. QED
  BY <1>1, <1>2 DEF Inv

(* A step that changes no session. *)
LEMMA NoSession ==
  ASSUME Inv, session' = session, mux' = mux, drawn' = drawn, terms' \subseteq terms,
         DOMAIN views' = Views, views' = [v \in Views |-> views'[v]],
         \A v \in Views : ViewOK(views'[v], drawn)
  PROVE  Inv'
<1>1. ASSUME NEW x \in Clients PROVE SessionOK(session[x], mux[x], terms', drawn)
  <2>1. SessionOK(session[x], mux[x], terms, drawn)
    BY DEF Inv
  <2>2. terms' \cap drawn \subseteq terms /\ drawn \subseteq TermIds
    BY DEF Inv
  <2>3. QED
    BY <2>1, <2>2, SessionGrows
<1>2. QED
  BY <1>1 DEF Inv

(* What the views list and store is as good when ids are drawn. *)
LEMMA SameViews ==
  ASSUME Inv, views' = views, drawn \subseteq drawn'
  PROVE  /\ DOMAIN views' = Views /\ views' = [v \in Views |-> views'[v]]
         /\ \A v \in Views : ViewOK(views'[v], drawn')
<1>1. ASSUME NEW v \in Views PROVE ViewOK(views[v], drawn')
  BY ViewGrows DEF Inv
<1>2. QED
  BY <1>1 DEF Inv

-----------------------------------------------------------------------------
(* Attaching *)

(* What the phase of a client says of its session. *)
LEMMA SessionKinds ==
  ASSUME Inv, NEW c \in Clients
  PROVE  /\ mux[c] \subseteq drawn
         /\ session[c] = Off => session[c].at = "off"
         /\ session[c].at = "attaching" => AttachingOK(session[c], drawn)
         /\ session[c].at \in Phases => ShownOK(session[c], mux[c], terms, drawn)
         /\ mux = [mux EXCEPT ![c] = mux[c]]
         /\ terms \subseteq drawn /\ drawn \subseteq TermIds
<1>1. SessionOK(session[c], mux[c], terms, drawn)
  BY DEF Inv
<1>2. Off.at = "off" /\ "off" \notin Phases /\ "attaching" \notin Phases
  BY DEF Off, Phases, Directions
<1>3. mux = [mux EXCEPT ![c] = mux[c]]
  BY DEF Inv
<1>4. terms \subseteq drawn /\ drawn \subseteq TermIds
  BY DEF Inv
<1>5. session[c] = Off \/ AttachingOK(session[c], drawn)
        \/ ShownOK(session[c], mux[c], terms, drawn)
  BY <1>1 DEF SessionOK
<1>6. session[c].at = "attaching" => AttachingOK(session[c], drawn)
  BY <1>2, <1>5 DEF ShownOK
<1>7. session[c].at \in Phases => ShownOK(session[c], mux[c], terms, drawn)
  BY <1>2, <1>5 DEF AttachingOK
<1>8. mux[c] \subseteq drawn
  BY <1>1 DEF SessionOK
<1>9. QED
  BY <1>2, <1>3, <1>4, <1>6, <1>7, <1>8

(* Attaching to a view takes over a list and a layout that are good. *)
LEMMA ViewAttachStep ==
  ASSUME Inv, NEW c \in Clients, NEW v \in Views, ViewAttach(c, v)
  PROVE  Inv'
<1> DEFINE s == [at |-> "attaching", view_id |-> v, ids |-> views[v].terminal_ids,
                 saved |-> views[v].layout]
<1>1. /\ session' = [session EXCEPT ![c] = s] /\ views[v].terminal_ids # <<>>
      /\ terms' = terms /\ drawn' = drawn /\ views' = views /\ mux' = mux
  BY DEF ViewAttach
<1>2. ViewOK(views[v], drawn)
  BY DEF Inv
<1>3. AttachingOK(s, drawn)
  BY <1>1, <1>2 DEF AttachingOK, ViewOK, ListOK
<1>4. SessionOK(s, mux[c], terms, drawn)
  BY <1>3, SessionKinds DEF SessionOK
<1> HIDE DEF s
<1>5. DOMAIN views' = Views /\ views' = [w \in Views |-> views'[w]]
      /\ \A w \in Views : ViewOK(views'[w], drawn')
  BY <1>1, SameViews
<1>6. mux' = [mux EXCEPT ![c] = mux[c]] /\ terms \subseteq drawn /\ drawn \subseteq TermIds
  BY <1>1, SessionKinds
<1>7. QED
  BY <1>1, <1>4, <1>5, <1>6, OneSession

(* Attaching to a terminal lists that terminal. *)
LEMMA TerminalAttachStep ==
  ASSUME Inv, NEW c \in Clients, NEW t \in terms, TerminalAttach(c, t)
  PROVE  Inv'
<1> DEFINE s == [at |-> "attaching", view_id |-> None, ids |-> <<t>>, saved |-> None]
<1>1. /\ session' = [session EXCEPT ![c] = s]
      /\ terms' = terms /\ drawn' = drawn /\ views' = views /\ mux' = mux
  BY DEF TerminalAttach
<1>2. t \in drawn
  BY DEF Inv
<1>3. <<t>> \in Seq(drawn) /\ <<t>> # <<>> /\ Len(<<t>>) = 1
  BY <1>2
<1>4. AttachingOK(s, drawn)
  BY <1>3 DEF AttachingOK, ListOK, StoredOK
<1>5. SessionOK(s, mux[c], terms, drawn)
  BY <1>4, SessionKinds DEF SessionOK
<1> HIDE DEF s
<1>6. DOMAIN views' = Views /\ views' = [w \in Views |-> views'[w]]
      /\ \A w \in Views : ViewOK(views'[w], drawn')
  BY <1>1, SameViews
<1>7. mux' = [mux EXCEPT ![c] = mux[c]] /\ terms \subseteq drawn /\ drawn \subseteq TermIds
  BY <1>1, SessionKinds
<1>8. QED
  BY <1>1, <1>5, <1>6, <1>7, OneSession

(* A client that ends carries nothing. *)
LEMMA LeaveStep ==
  ASSUME Inv, NEW c \in Clients, Leave(c)
  PROVE  Inv'
<1>1. /\ session' = [session EXCEPT ![c] = Off] /\ mux' = [mux EXCEPT ![c] = {}]
      /\ terms' = terms /\ drawn' = drawn /\ views' = views
  BY DEF Leave
<1>2. SessionOK(Off, {}, terms, drawn)
  BY DEF SessionOK
<1>3. DOMAIN views' = Views /\ views' = [w \in Views |-> views'[w]]
      /\ \A w \in Views : ViewOK(views'[w], drawn')
  BY <1>1, SameViews
<1>4. terms \subseteq drawn /\ drawn \subseteq TermIds
  BY SessionKinds
<1>5. QED
  BY <1>1, <1>2, <1>3, <1>4, OneSession

(* The panes a client opens with: those stored, or one for each terminal listed. *)
LEMMA MultiplexAttachStep ==
  ASSUME Inv, NEW c \in Clients, MultiplexAttach(c)
  PROVE  Inv'
<1> DEFINE s == session[c]
           m == ToSet(s.ids) \cap terms
           layout == Opened(s.ids, s.saved)
<1>1. PICK area \in Areas :
        session' = [session EXCEPT ![c] =
          IF mux'[c] = {} THEN Off
          ELSE [at |-> "run", view_id |-> s.view_id, layout |-> layout,
                restored |-> IF s.saved = None THEN {} ELSE Panes(s.saved.root),
                vterms |-> ToSet(s.ids), area |-> area, todo |-> <<>>]]
  BY DEF MultiplexAttach
<1>2. /\ s.at = "attaching" /\ mux' = [mux EXCEPT ![c] = m]
      /\ terms' = terms /\ drawn' = drawn /\ views' = views
  BY DEF MultiplexAttach
<1>3. AttachingOK(s, drawn) /\ terms \subseteq drawn /\ drawn \subseteq TermIds
  BY <1>2, SessionKinds
<1> DEFINE restored == IF s.saved = None THEN {} ELSE Panes(s.saved.root)
           r == [at |-> "run", view_id |-> s.view_id, layout |-> layout,
                 restored |-> restored, vterms |-> ToSet(s.ids), area |-> area,
                 todo |-> <<>>]
           n == IF mux'[c] = {} THEN Off ELSE r
<1>4. session' = [session EXCEPT ![c] = n]
  BY <1>1
<1>5. /\ s.ids \in Seq(drawn) /\ ToSet(s.ids) \subseteq drawn
      /\ s.view_id \in Views \cup {None}
  BY <1>3, Elements DEF AttachingOK
<1>6. /\ Sound(layout, drawn) /\ restored \subseteq TermIds
      /\ Panes(layout.root) \ restored \subseteq ToSet(s.ids)
  <2>1. CASE s.saved = None
    <3>1. layout = Opened(s.ids, None)
      BY <2>1
    <3>2. Sound(layout, drawn) /\ Panes(layout.root) = ToSet(s.ids)
      <4>1. ListOK(s.ids, drawn) /\ s.ids # <<>>
        BY <1>3 DEF AttachingOK
      <4> HIDE DEF layout
      <4>2. Sound(Opened(s.ids, None), drawn) /\ Panes(Opened(s.ids, None).root) = ToSet(s.ids)
        BY <4>1, OpenedFacts
      <4>3. QED
        BY <3>1, <4>2
    <3> HIDE DEF layout
    <3>3. QED
      BY <2>1, <3>2
  <2>2. CASE s.saved # None
    <3>1. layout = s.saved /\ restored = Panes(s.saved.root)
      BY <2>2 DEF Opened
    <3>2. Sound(layout, drawn)
      BY <1>3, <2>2, <3>1 DEF AttachingOK, StoredOK
    <3>3. Panes(layout.root) \subseteq drawn
      BY <3>2, SoundPanes
    <3> HIDE DEF layout, restored
    <3>4. QED
      BY <1>3, <3>1, <3>2, <3>3
  <2>3. QED
    BY <2>1, <2>2
<1> HIDE DEF layout, restored, s
<1>7. ShownOK(r, m, terms, drawn)
  <2>1. /\ r.at = "run" /\ r.layout = layout /\ r.vterms = ToSet(s.ids) /\ r.restored = restored
        /\ r.view_id = s.view_id /\ r.area = area /\ r.todo = <<>>
    OBVIOUS
  <2>2. r \in [at : Phases, view_id : Views \cup {None}, layout : {r.layout},
               restored : SUBSET TermIds, vterms : SUBSET drawn, area : Areas,
               todo : Seq(drawn)]
    <3>1. "run" \in Phases /\ <<>> \in Seq(drawn)
      BY DEF Phases
    <3>2. QED
      BY <1>5, <1>6, <3>1
  <2>3. Pending(r) = {} /\ Coming(r) = {}
    BY <2>1 DEF Pending, Coming, Directions
  <2> HIDE DEF r
  <2>4. QED
    BY <1>5, <1>6, <2>1, <2>2, <2>3 DEF ShownOK, Phases, Directions
<1>8. SessionOK(n, m, terms, drawn)
  BY <1>3, <1>7 DEF SessionOK
<1> HIDE DEF n, m, r
<1>9. DOMAIN views' = Views /\ views' = [w \in Views |-> views'[w]]
      /\ \A w \in Views : ViewOK(views'[w], drawn')
  BY <1>2, SameViews
<1>10. QED
  BY <1>2, <1>3, <1>4, <1>8, <1>9, OneSession

-----------------------------------------------------------------------------
(* Sessions that show panes, and splits *)

(* A session that shows panes, written out. *)
Showing(at, view_id, layout, restored, vterms, area, todo) ==
  [at |-> at, view_id |-> view_id, layout |-> layout, restored |-> restored,
   vterms |-> vterms, area |-> area, todo |-> todo]

(* The fields of a session that shows panes. *)
LEMMA ShowingFields ==
  ASSUME NEW at, NEW view_id, NEW layout, NEW restored, NEW vterms, NEW area, NEW todo
  PROVE  LET s == Showing(at, view_id, layout, restored, vterms, area, todo) IN
         /\ s.at = at /\ s.view_id = view_id /\ s.layout = layout /\ s.restored = restored
         /\ s.vterms = vterms /\ s.area = area /\ s.todo = todo
BY DEF Showing

(* What a switch of view assigns. *)
Switched(s, w, r, l, q) ==
  [s EXCEPT !.vterms = w, !.restored = r, !.layout = l, !.todo = q]

(* What an assignment to some of its fields makes of such a session. *)
LEMMA ShowingUpdates ==
  ASSUME NEW s, s = Showing(s.at, s.view_id, s.layout, s.restored, s.vterms, s.area, s.todo)
  PROVE  /\ \A q :
              [s EXCEPT !.todo = q]
                = Showing(s.at, s.view_id, s.layout, s.restored, s.vterms, s.area, q)
         /\ \A l :
              [s EXCEPT !.layout = l]
                = Showing(s.at, s.view_id, l, s.restored, s.vterms, s.area, s.todo)
         /\ \A e :
              [s EXCEPT !.area = e]
                = Showing(s.at, s.view_id, s.layout, s.restored, s.vterms, e, s.todo)
         /\ \A w, l :
              [s EXCEPT !.vterms = w, !.layout = l]
                = Showing(s.at, s.view_id, l, s.restored, w, s.area, s.todo)
         /\ \A l, w, q :
              [s EXCEPT !.layout = l, !.vterms = w, !.todo = q]
                = Showing(s.at, s.view_id, l, s.restored, w, s.area, q)
         /\ \A q, w, l :
              [s EXCEPT !.todo = q, !.vterms = w, !.layout = l]
                = Showing(s.at, s.view_id, l, s.restored, w, s.area, q)
         /\ \A w, r, l, q :
              Switched(s, w, r, l, q)
                = Showing(s.at, s.view_id, l, r, w, s.area, q)
<1> DEFINE at == s.at
           view_id == s.view_id
           layout == s.layout
           restored == s.restored
           vterms == s.vterms
           area == s.area
           todo == s.todo
<1>1. s = [at |-> at, view_id |-> view_id, layout |-> layout, restored |-> restored,
           vterms |-> vterms, area |-> area, todo |-> todo]
  BY DEF Showing
<1> HIDE DEF at, view_id, layout, restored, vterms, area, todo
<1>2. ASSUME NEW q
      PROVE  [s EXCEPT !.todo = q]
               = Showing(at, view_id, layout, restored, vterms, area, q)
  BY <1>1 DEF Showing
<1>3. ASSUME NEW l
      PROVE  [s EXCEPT !.layout = l]
               = Showing(at, view_id, l, restored, vterms, area, todo)
  BY <1>1 DEF Showing
<1>4. ASSUME NEW e
      PROVE  [s EXCEPT !.area = e]
               = Showing(at, view_id, layout, restored, vterms, e, todo)
  BY <1>1 DEF Showing
<1>5. ASSUME NEW w, NEW l
      PROVE  [s EXCEPT !.vterms = w, !.layout = l]
               = Showing(at, view_id, l, restored, w, area, todo)
  <2>1. [s EXCEPT !.vterms = w]
         = Showing(at, view_id, layout, restored, w, area, todo)
    BY <1>1 DEF Showing
  <2>2. [Showing(at, view_id, layout, restored, w, area, todo) EXCEPT !.layout = l]
         = Showing(at, view_id, l, restored, w, area, todo)
    BY DEF Showing
  <2>3. QED
    BY <2>1, <2>2, Zenon
<1>6. ASSUME NEW l, NEW w, NEW q
      PROVE  [s EXCEPT !.layout = l, !.vterms = w, !.todo = q]
               = Showing(at, view_id, l, restored, w, area, q)
  <2>1. [s EXCEPT !.layout = l]
         = Showing(at, view_id, l, restored, vterms, area, todo)
    BY <1>1 DEF Showing
  <2>2. [Showing(at, view_id, l, restored, vterms, area, todo) EXCEPT !.vterms = w]
         = Showing(at, view_id, l, restored, w, area, todo)
    BY DEF Showing
  <2>3. [Showing(at, view_id, l, restored, w, area, todo) EXCEPT !.todo = q]
         = Showing(at, view_id, l, restored, w, area, q)
    BY DEF Showing
  <2>4. QED
    BY <2>1, <2>2, <2>3, Zenon
<1>7. ASSUME NEW q, NEW w, NEW l
      PROVE  [s EXCEPT !.todo = q, !.vterms = w, !.layout = l]
               = Showing(at, view_id, l, restored, w, area, q)
  <2>1. [s EXCEPT !.todo = q]
         = Showing(at, view_id, layout, restored, vterms, area, q)
    BY <1>1 DEF Showing
  <2>2. [Showing(at, view_id, layout, restored, vterms, area, q) EXCEPT !.vterms = w]
         = Showing(at, view_id, layout, restored, w, area, q)
    BY DEF Showing
  <2>3. [Showing(at, view_id, layout, restored, w, area, q) EXCEPT !.layout = l]
         = Showing(at, view_id, l, restored, w, area, q)
    BY DEF Showing
  <2>4. QED
    BY <2>1, <2>2, <2>3, Zenon
<1>8. ASSUME NEW w, NEW r, NEW l, NEW q
      PROVE  Switched(s, w, r, l, q)
               = Showing(at, view_id, l, r, w, area, q)
  <2>1. [s EXCEPT !.vterms = w]
         = Showing(at, view_id, layout, restored, w, area, todo)
    BY <1>1 DEF Showing
  <2>2. [Showing(at, view_id, layout, restored, w, area, todo) EXCEPT !.restored = r]
         = Showing(at, view_id, layout, r, w, area, todo)
    BY DEF Showing
  <2>3. [Showing(at, view_id, layout, r, w, area, todo) EXCEPT !.layout = l]
         = Showing(at, view_id, l, r, w, area, todo)
    BY DEF Showing
  <2>4. [Showing(at, view_id, l, r, w, area, todo) EXCEPT !.todo = q]
         = Showing(at, view_id, l, r, w, area, q)
    BY DEF Showing
  <2>5. QED
    BY <2>1, <2>2, <2>3, <2>4, Zenon DEF Switched
<1>9. QED
  BY <1>2, <1>3, <1>4, <1>5, <1>6, <1>7, <1>8 DEF at, view_id, layout, restored, vterms, area, todo

(* Where a client goes, its session differs in the phase. *)
LEMMA GoesFacts ==
  ASSUME NEW c, NEW at, NEW b, NEW view_id, NEW layout, NEW restored, NEW vterms, NEW area,
         NEW todo, Goes(c, at, Showing(b, view_id, layout, restored, vterms, area, todo))
  PROVE  session' = [session EXCEPT ![c] =
                       Showing(at, view_id, layout, restored, vterms, area, todo)]
<1>1. [Showing(b, view_id, layout, restored, vterms, area, todo) EXCEPT !.at = at]
        = Showing(at, view_id, layout, restored, vterms, area, todo)
  BY DEF Showing
<1>2. QED
  BY <1>1 DEF Goes

(* What is to be shown of a session that shows panes. *)
LEMMA ShowingRule ==
  ASSUME NEW d, NEW tm, NEW m, m \subseteq d, NEW at, at \in Phases,
         NEW view_id, view_id \in Views \cup {None}, NEW layout, Sound(layout, d),
         NEW restored, restored \subseteq TermIds, NEW vterms, vterms \subseteq d,
         NEW area, area \in Areas, NEW todo, todo \in Seq(d),
         at \in Directions \cup {"undo", "adding", "removing", "switching"} => todo # <<>>,
         at \in {"adding", "removing", "syncing"} => view_id # None,
         at \in Directions => Head(todo) \notin Panes(layout.root),
         IF at \in Directions \cup {"undo"} THEN m \ {Head(todo)} \subseteq vterms
                                            ELSE m \subseteq vterms,
         vterms \cap tm \subseteq m,
         (Panes(layout.root) \ restored) \cap tm
           \subseteq m \cup (IF at = "switching" THEN ToSet(todo) ELSE {})
  PROVE  SessionOK(Showing(at, view_id, layout, restored, vterms, area, todo), m, tm, d)
<1> DEFINE s == Showing(at, view_id, layout, restored, vterms, area, todo)
<1>1. s \in [at : Phases, view_id : Views \cup {None}, layout : {layout},
             restored : SUBSET TermIds, vterms : SUBSET d, area : Areas, todo : Seq(d)]
  BY DEF Showing
<1>2. /\ s.at = at /\ s.view_id = view_id /\ s.layout = layout /\ s.restored = restored
      /\ s.vterms = vterms /\ s.area = area /\ s.todo = todo
  BY ShowingFields
<1> HIDE DEF s
<1>3. m \ Pending(s) \subseteq s.vterms
  BY <1>2 DEF Pending
<1>4. (Panes(s.layout.root) \ s.restored) \cap tm \subseteq m \cup Coming(s)
  BY <1>2 DEF Coming
<1>5. ShownOK(s, m, tm, d)
  BY <1>1, <1>2, <1>3, <1>4 DEF ShownOK
<1>6. QED
  BY <1>5 DEF SessionOK, s

(* What the invariant says of a session that shows panes. *)
LEMMA ShownFacts ==
  ASSUME Inv, NEW c \in Clients, session[c].at \in Phases
  PROVE  LET s == session[c]  m == mux[c] IN
         /\ s = Showing(s.at, s.view_id, s.layout, s.restored, s.vterms, s.area, s.todo)
         /\ m \subseteq drawn /\ s.view_id \in Views \cup {None} /\ Sound(s.layout, drawn)
         /\ s.restored \subseteq TermIds /\ s.vterms \subseteq drawn
         /\ s.area \in Areas /\ s.todo \in Seq(drawn) /\ Panes(s.layout.root) \subseteq drawn
         /\ s.at \in Directions \cup {"undo", "adding", "removing", "switching"} => s.todo # <<>>
         /\ s.at \in {"adding", "removing", "syncing"} => s.view_id # None
         /\ s.at \in Directions => Head(s.todo) \notin Panes(s.layout.root)
         /\ IF s.at \in Directions \cup {"undo"} THEN m \ {Head(s.todo)} \subseteq s.vterms
                                                 ELSE m \subseteq s.vterms
         /\ s.vterms \cap terms \subseteq m
         /\ (Panes(s.layout.root) \ s.restored) \cap terms
              \subseteq m \cup (IF s.at = "switching" THEN ToSet(s.todo) ELSE {})
<1> DEFINE s == session[c]
           m == mux[c]
<1>1. ShownOK(s, m, terms, drawn) /\ m \subseteq drawn
  BY SessionKinds
<1> HIDE DEF s, m
<1>2. s \in [at : Phases, view_id : Views \cup {None}, layout : {s.layout},
             restored : SUBSET TermIds, vterms : SUBSET drawn, area : Areas,
             todo : Seq(drawn)]
  BY <1>1 DEF ShownOK
<1>3. s = Showing(s.at, s.view_id, s.layout, s.restored, s.vterms, s.area, s.todo)
  BY <1>2 DEF Showing
<1>4. /\ s.view_id \in Views \cup {None} /\ s.restored \subseteq TermIds
      /\ s.vterms \subseteq drawn /\ s.area \in Areas /\ s.todo \in Seq(drawn)
  BY <1>2
<1>5. Sound(s.layout, drawn)
  BY <1>1 DEF ShownOK
<1>6. Panes(s.layout.root) \subseteq drawn
  BY <1>5, SoundPanes
<1>7. /\ s.at \in Directions \cup {"undo", "adding", "removing", "switching"} => s.todo # <<>>
      /\ s.at \in {"adding", "removing", "syncing"} => s.view_id # None
      /\ s.at \in Directions => Head(s.todo) \notin Panes(s.layout.root)
      /\ s.vterms \cap terms \subseteq m
  BY <1>1 DEF ShownOK
<1>8. IF s.at \in Directions \cup {"undo"} THEN m \ {Head(s.todo)} \subseteq s.vterms
                                           ELSE m \subseteq s.vterms
  BY <1>1 DEF ShownOK, Pending
<1>9. (Panes(s.layout.root) \ s.restored) \cap terms
        \subseteq m \cup (IF s.at = "switching" THEN ToSet(s.todo) ELSE {})
  BY <1>1 DEF ShownOK, Coming
<1>10. QED
  BY <1>1, <1>3, <1>4, <1>5, <1>6, <1>7, <1>8, <1>9 DEF s, m

(* The phases of handlers are phases, and different. *)
LEMMA PhaseFacts ==
  /\ {"run", "undo", "adding", "removing", "syncing", "switching"} \subseteq Phases
  /\ Directions \subseteq Phases
  /\ \A dir \in Directions : dir \notin {"run", "undo", "adding", "removing", "syncing", "switching"}
BY DEF Phases, Directions

(* A handler that changes the session and the connection, not the views. *)
LEMMA ShowingStep ==
  ASSUME Inv, NEW c \in Clients, NEW s, NEW m,
         session' = [session EXCEPT ![c] = s], mux' = [mux EXCEPT ![c] = m],
         terms' = terms, drawn' = drawn, views' = views,
         SessionOK(s, m, terms, drawn)
  PROVE  Inv'
<1>1. DOMAIN views' = Views /\ views' = [w \in Views |-> views'[w]]
      /\ \A w \in Views : ViewOK(views'[w], drawn')
  BY SameViews
<1>2. terms \subseteq drawn /\ drawn \subseteq TermIds
  BY SessionKinds
<1>3. QED
  BY <1>1, <1>2, OneSession

(* The terminal of a split is new: no pane, no view and no connection has it. *)
LEMMA SplitCreateStep ==
  ASSUME Inv, NEW c \in Clients, NEW dir \in Directions, NEW new \in TermIds,
         SplitCreate(c, dir, new)
  PROVE  Inv'
<1> DEFINE s == session[c]
           m == mux[c]
           r == Showing(dir, s.view_id, s.layout, s.restored, s.vterms, s.area, <<new>>)
<1>1. /\ s.at = "run" /\ new \in TermIds \ drawn
      /\ terms' = terms \cup {new} /\ drawn' = drawn \cup {new} /\ views' = views
      /\ mux' = [mux EXCEPT ![c] = m \cup {new}]
      /\ Goes(c, dir, [s EXCEPT !.todo = <<new>>])
  BY DEF SplitCreate, On
<1>2. s.at \in Phases
  BY <1>1, PhaseFacts
<1>3. s = Showing(s.at, s.view_id, s.layout, s.restored, s.vterms, s.area, s.todo)
  BY <1>2, ShownFacts
<1>4. /\ m \subseteq drawn /\ s.view_id \in Views \cup {None} /\ Sound(s.layout, drawn)
      /\ s.restored \subseteq TermIds /\ s.vterms \subseteq drawn
      /\ s.area \in Areas /\ Panes(s.layout.root) \subseteq drawn
      /\ m \subseteq s.vterms /\ s.vterms \cap terms \subseteq m
      /\ (Panes(s.layout.root) \ s.restored) \cap terms \subseteq m
  BY <1>1, <1>2, ShownFacts, PhaseFacts
<1> HIDE DEF s, m
<1>5. session' = [session EXCEPT ![c] = r]
  <2>1. [s EXCEPT !.todo = <<new>>]
          = Showing(s.at, s.view_id, s.layout, s.restored, s.vterms, s.area, <<new>>)
    BY <1>3, ShowingUpdates
  <2>2. QED
    BY <1>1, <2>1, GoesFacts
<1>6. Sound(s.layout, drawn')
  BY <1>1, <1>4, SoundGrows
<1>7. <<new>> \in Seq(drawn') /\ <<new>> # <<>> /\ Head(<<new>>) = new
  BY <1>1
<1>8. SessionOK(r, m \cup {new}, terms', drawn')
  BY <1>1, <1>4, <1>6, <1>7, PhaseFacts, ShowingRule
<1>9. terms \subseteq drawn /\ drawn \subseteq TermIds
  BY SessionKinds
<1>10. DOMAIN views' = Views /\ views' = [w \in Views |-> views'[w]]
      /\ \A w \in Views : ViewOK(views'[w], drawn')
  BY <1>1, SameViews
<1> HIDE DEF r
<1>11. QED
  BY <1>1, <1>5, <1>8, <1>9, <1>10, OneSession

(* The new terminal gets a pane, or the split is undone. *)
LEMMA SplitAddStep ==
  ASSUME Inv, NEW c \in Clients, NEW dir \in Directions, SplitAdd(c, dir)
  PROVE  Inv'
<1> DEFINE s == session[c]
           m == mux[c]
           new == Head(s.todo)
<1>1. s.at = dir /\ terms' = terms /\ drawn' = drawn /\ views' = views
  BY DEF SplitAdd
<1>2. s.at \in Phases
  BY <1>1, PhaseFacts
<1>3. s = Showing(s.at, s.view_id, s.layout, s.restored, s.vterms, s.area, s.todo)
  BY <1>2, ShownFacts
<1>4. /\ m \subseteq drawn /\ s.view_id \in Views \cup {None} /\ Sound(s.layout, drawn)
      /\ s.restored \subseteq TermIds /\ s.vterms \subseteq drawn /\ s.area \in Areas
      /\ s.todo \in Seq(drawn) /\ s.todo # <<>> /\ new \notin Panes(s.layout.root)
      /\ m \ {new} \subseteq s.vterms /\ s.vterms \cap terms \subseteq m
      /\ (Panes(s.layout.root) \ s.restored) \cap terms \subseteq m
  BY <1>1, <1>2, ShownFacts, PhaseFacts
<1>5. new \in drawn
  BY <1>4, Elements
<1>6. mux = [mux EXCEPT ![c] = m]
  BY SessionKinds
<1>7. /\ new \in terms =>
           /\ mux' = [mux EXCEPT ![c] = m \cup {new}]
           /\ Goes(c, IF s.view_id = None THEN "run" ELSE "adding",
                   [s EXCEPT !.vterms = @ \cup {new}, !.layout = SplitFocused(@, dir, new)])
      /\ new \notin terms => Goes(c, "undo", s) /\ mux' = mux
  BY DEF SplitAdd
<1> HIDE DEF s, m, new
<1>8. CASE new \in terms
  <2> DEFINE at == IF s.view_id = None THEN "run" ELSE "adding"
             layout == SplitFocused(s.layout, dir, new)
             vterms == s.vterms \cup {new}
             r == Showing(at, s.view_id, layout, s.restored, vterms, s.area, s.todo)
  <2>1. session' = [session EXCEPT ![c] = r]
    <3>1. Goes(c, at, [s EXCEPT !.vterms = vterms, !.layout = layout])
      BY <1>7, <1>8
    <3> HIDE DEF at, layout, vterms
    <3>2. [s EXCEPT !.vterms = vterms, !.layout = layout]
            = Showing(s.at, s.view_id, layout, s.restored, vterms, s.area, s.todo)
      <4>1. \A w, l : [s EXCEPT !.vterms = w, !.layout = l]
                        = Showing(s.at, s.view_id, l, s.restored, w, s.area, s.todo)
        BY <1>3, ShowingUpdates
      <4>2. QED
        BY <4>1, Zenon
    <3>3. QED
      BY <3>1, <3>2, GoesFacts
  <2>2. /\ Sound(layout, drawn)
        /\ \A t : t \in Panes(layout.root) <=> t \in Panes(s.layout.root) \/ t = new
    <3> DEFINE old == s.layout
    <3>1. Sound(old, drawn) /\ new \notin Panes(old.root) /\ layout = SplitFocused(old, dir, new)
      BY <1>4
    <3> HIDE DEF old, layout
    <3>2. Sound(layout, drawn)
      BY <1>5, <3>1, SplitFacts
    <3>3. \A t : t \in Panes(layout.root) <=> t \in Panes(old.root) \/ t = new
      BY <1>5, <3>1, SplitFacts
    <3>4. QED
      BY <3>2, <3>3 DEF old
  <2>3. at \in {"run", "adding"} /\ (at = "adding" => s.view_id # None)
    OBVIOUS
  <2> HIDE DEF layout, at
  <2>4. SessionOK(r, m \cup {new}, terms, drawn)
    BY <1>4, <1>5, <2>2, <2>3, PhaseFacts, ShowingRule
  <2> HIDE DEF r
  <2>5. QED
    BY <1>1, <1>7, <1>8, <2>1, <2>4, ShowingStep
<1>9. CASE new \notin terms
  <2> DEFINE r == Showing("undo", s.view_id, s.layout, s.restored, s.vterms, s.area, s.todo)
  <2>1. session' = [session EXCEPT ![c] = r]
    BY <1>3, <1>7, <1>9, GoesFacts
  <2>2. m \ {Head(s.todo)} \subseteq s.vterms
    BY <1>4 DEF new
  <2>3. SessionOK(r, m, terms, drawn)
    BY <1>4, <2>2, PhaseFacts, ShowingRule
  <2> HIDE DEF r
  <2>4. QED
    BY <1>1, <1>6, <1>7, <1>9, <2>1, <2>3, ShowingStep
<1>10. QED
  BY <1>8, <1>9

(* A view with another list. *)
LEMMA OtherList ==
  ASSUME NEW view, NEW d, ViewOK(view, d), NEW ids, ListOK(ids, d)
  PROVE  ViewOK([view EXCEPT !.terminal_ids = ids], d)
<1> DEFINE w == [view EXCEPT !.terminal_ids = ids]
           old == view.terminal_ids
           layout == view.layout
<1>1. view = [terminal_ids |-> old, layout |-> layout] /\ StoredOK(layout, d)
  BY DEF ViewOK
<1> HIDE DEF old, layout
<1>2. w = [terminal_ids |-> ids, layout |-> layout]
  BY <1>1
<1> HIDE DEF w
<1>3. w.terminal_ids = ids /\ w.layout = layout
  BY <1>2
<1>4. ViewOK(w, d)
  BY <1>1, <1>2, <1>3 DEF ViewOK
<1>5. QED
  BY <1>4 DEF w

(* A view with another layout. *)
LEMMA OtherLayout ==
  ASSUME NEW view, NEW d, ViewOK(view, d), NEW layout, Sound(layout, d)
  PROVE  ViewOK([view EXCEPT !.layout = layout], d)
<1> DEFINE w == [view EXCEPT !.layout = layout]
           ids == view.terminal_ids
           old == view.layout
<1>1. view = [terminal_ids |-> ids, layout |-> old] /\ ListOK(ids, d)
  BY DEF ViewOK
<1> HIDE DEF old, ids
<1>2. w = [terminal_ids |-> ids, layout |-> layout]
  BY <1>1
<1> HIDE DEF w
<1>3. w.terminal_ids = ids /\ w.layout = layout
  BY <1>2
<1>4. ViewOK(w, d)
  BY <1>1, <1>2, <1>3 DEF ViewOK, StoredOK
<1>5. QED
  BY <1>4 DEF w

(* The sweep of a killed terminal leaves good lists. *)
LEMMA SweepFacts ==
  ASSUME Inv, NEW t, Sweep(t)
  PROVE  /\ DOMAIN views' = Views /\ views' = [v \in Views |-> views'[v]]
         /\ \A v \in Views : ViewOK(views'[v], drawn)
<1>1. ASSUME NEW v \in Views
      PROVE  ViewOK([views[v] EXCEPT !.terminal_ids = Without(@, t)], drawn)
  <2>1. ViewOK(views[v], drawn)
    BY DEF Inv
  <2>2. ListOK(Without(views[v].terminal_ids, t), drawn)
    BY <2>1, WithoutFacts DEF ViewOK
  <2>3. QED
    BY <2>1, <2>2, OtherList
<1>2. QED
  BY <1>1 DEF Sweep

(* So does adding a terminal to a view. *)
LEMMA ListedFacts ==
  ASSUME Inv, NEW v, NEW t \in drawn, views' = Listed(v, t)
  PROVE  /\ DOMAIN views' = Views /\ views' = [w \in Views |-> views'[w]]
         /\ \A w \in Views : ViewOK(views'[w], drawn)
<1>1. /\ DOMAIN views = Views /\ views = [w \in Views |-> views[w]]
      /\ \A w \in Views : ViewOK(views[w], drawn)
  BY DEF Inv
<1>2. CASE t \in ToSet(views[v].terminal_ids)
  BY <1>1, <1>2 DEF Listed
<1>3. CASE t \notin ToSet(views[v].terminal_ids)
  <2> DEFINE more == [views[v] EXCEPT !.terminal_ids = Append(@, t)]
  <2>1. views' = [views EXCEPT ![v] = more]
    BY <1>3 DEF Listed
  <2>2. v \in Views => ViewOK(more, drawn)
    <3>1. SUFFICES ASSUME v \in Views PROVE ViewOK(more, drawn)
      OBVIOUS
    <3>2. ViewOK(views[v], drawn)
      BY <1>1, <3>1
    <3>3. ListOK(Append(views[v].terminal_ids, t), drawn)
      BY <1>3, <3>2, ListedTwice DEF ViewOK
    <3>4. QED
      BY <3>2, <3>3, OtherList
  <2> HIDE DEF more
  <2>3. QED
    BY <1>1, <2>1, <2>2
<1>4. QED
  BY <1>2, <1>3

(* A split that is undone leaves the connection as it was. *)
LEMMA SplitUndoStep ==
  ASSUME Inv, NEW c \in Clients, SplitUndo(c)
  PROVE  Inv'
<1> DEFINE s == session[c]
           m == mux[c]
           new == Head(s.todo)
           r == Showing("run", s.view_id, s.layout, s.restored, s.vterms, s.area, s.todo)
<1>1. /\ s.at = "undo" /\ terms' = terms \ {new} /\ drawn' = drawn
      /\ mux' = [mux EXCEPT ![c] = m \ {new}]
      /\ IF new \in terms THEN Sweep(new) ELSE views' = views
      /\ Goes(c, "run", s)
  BY DEF SplitUndo
<1>2. s.at \in Phases
  BY <1>1, PhaseFacts
<1>3. s = Showing(s.at, s.view_id, s.layout, s.restored, s.vterms, s.area, s.todo)
  BY <1>2, ShownFacts
<1>4. /\ m \subseteq drawn /\ s.view_id \in Views \cup {None} /\ Sound(s.layout, drawn)
      /\ s.restored \subseteq TermIds /\ s.vterms \subseteq drawn /\ s.area \in Areas
      /\ s.todo \in Seq(drawn)
      /\ m \ {new} \subseteq s.vterms /\ s.vterms \cap terms \subseteq m
      /\ (Panes(s.layout.root) \ s.restored) \cap terms \subseteq m
  BY <1>1, <1>2, ShownFacts, PhaseFacts
<1>5. /\ DOMAIN views' = Views /\ views' = [v \in Views |-> views'[v]]
      /\ \A v \in Views : ViewOK(views'[v], drawn')
  BY <1>1, SweepFacts, SameViews
<1>6. terms \subseteq drawn /\ drawn \subseteq TermIds
  BY SessionKinds
<1> HIDE DEF s, m, new
<1>7. session' = [session EXCEPT ![c] = r]
  BY <1>1, <1>3, GoesFacts
<1>8. SessionOK(r, m \ {new}, terms', drawn)
  <2>1. s.vterms \cap terms' \subseteq m \ {new}
    BY <1>1, <1>4
  <2>2. (Panes(s.layout.root) \ s.restored) \cap terms' \subseteq m \ {new}
    BY <1>1, <1>4
  <2>3. QED
    BY <1>4, <2>1, <2>2, PhaseFacts, ShowingRule
<1> HIDE DEF r
<1>9. QED
  BY <1>1, <1>5, <1>6, <1>7, <1>8, OneSession

-----------------------------------------------------------------------------
(* Storing and closing *)

(* The view lists the new terminal. *)
LEMMA SplitViewStep ==
  ASSUME Inv, NEW c \in Clients, SplitView(c)
  PROVE  Inv'
<1> DEFINE s == session[c]
           m == mux[c]
           new == Head(s.todo)
           r == Showing("syncing", s.view_id, s.layout, s.restored, s.vterms, s.area, s.todo)
<1>1. /\ s.at = "adding" /\ terms' = terms /\ drawn' = drawn /\ mux' = mux
      /\ views' = IF new \in terms THEN Listed(s.view_id, new) ELSE views
      /\ Goes(c, "syncing", s)
  BY DEF SplitView
<1>2. s.at \in Phases
  BY <1>1, PhaseFacts
<1>3. s = Showing(s.at, s.view_id, s.layout, s.restored, s.vterms, s.area, s.todo)
  BY <1>2, ShownFacts
<1>4. /\ m \subseteq drawn /\ s.view_id \in Views \cup {None} /\ Sound(s.layout, drawn)
      /\ s.restored \subseteq TermIds /\ s.vterms \subseteq drawn /\ s.area \in Areas
      /\ s.todo \in Seq(drawn) /\ s.view_id # None
      /\ m \subseteq s.vterms /\ s.vterms \cap terms \subseteq m
      /\ (Panes(s.layout.root) \ s.restored) \cap terms \subseteq m
  BY <1>1, <1>2, ShownFacts, PhaseFacts
<1>5. terms \subseteq drawn /\ drawn \subseteq TermIds /\ mux = [mux EXCEPT ![c] = m]
  BY SessionKinds
<1>6. /\ DOMAIN views' = Views /\ views' = [v \in Views |-> views'[v]]
      /\ \A v \in Views : ViewOK(views'[v], drawn')
  <2>1. CASE new \in terms
    <3> DEFINE v0 == s.view_id
    <3>1. new \in drawn /\ views' = Listed(v0, new)
      BY <1>1, <1>5, <2>1
    <3> HIDE DEF v0, new
    <3>2. QED
      BY <1>1, <3>1, ListedFacts
  <2>2. CASE new \notin terms
    BY <1>1, <2>2, SameViews
  <2>3. QED
    BY <2>1, <2>2
<1> HIDE DEF s, m, new
<1>7. session' = [session EXCEPT ![c] = r]
  BY <1>1, <1>3, GoesFacts
<1>8. SessionOK(r, m, terms, drawn)
  BY <1>4, PhaseFacts, ShowingRule
<1> HIDE DEF r
<1>9. QED
  BY <1>1, <1>5, <1>6, <1>7, <1>8, OneSession

(* A step that changes one view. *)
LEMMA OneView ==
  ASSUME Inv, NEW v, NEW view, views' = [views EXCEPT ![v] = view],
         v \in Views => ViewOK(view, drawn)
  PROVE  /\ DOMAIN views' = Views /\ views' = [w \in Views |-> views'[w]]
         /\ \A w \in Views : ViewOK(views'[w], drawn)
<1>1. /\ DOMAIN views = Views /\ views = [w \in Views |-> views[w]]
      /\ \A w \in Views : ViewOK(views[w], drawn)
  BY DEF Inv
<1>2. QED
  BY <1>1

(* The layout that is stored is the one that is shown. *)
LEMMA SyncLayoutStep ==
  ASSUME Inv, NEW c \in Clients, SyncLayout(c)
  PROVE  Inv'
<1> DEFINE s == session[c]
           m == mux[c]
           v == s.view_id
           layout == s.layout
           view == [views[v] EXCEPT !.layout = layout]
           r == Showing("run", s.view_id, s.layout, s.restored, s.vterms, s.area, s.todo)
<1>1. /\ s.at = "syncing" /\ terms' = terms /\ drawn' = drawn /\ mux' = mux
      /\ views' = [views EXCEPT ![v] = view] /\ Goes(c, "run", s)
  BY DEF SyncLayout
<1>2. s.at \in Phases
  BY <1>1, PhaseFacts
<1>3. s = Showing(s.at, s.view_id, s.layout, s.restored, s.vterms, s.area, s.todo)
  BY <1>2, ShownFacts
<1>4. /\ m \subseteq drawn /\ s.view_id \in Views \cup {None} /\ Sound(s.layout, drawn)
      /\ s.restored \subseteq TermIds /\ s.vterms \subseteq drawn /\ s.area \in Areas
      /\ s.todo \in Seq(drawn)
      /\ m \subseteq s.vterms /\ s.vterms \cap terms \subseteq m
      /\ (Panes(s.layout.root) \ s.restored) \cap terms \subseteq m
  BY <1>1, <1>2, ShownFacts, PhaseFacts
<1>5. terms \subseteq drawn /\ drawn \subseteq TermIds /\ mux = [mux EXCEPT ![c] = m]
  BY SessionKinds
<1>6. v \in Views => ViewOK(view, drawn)
  <2>1. SUFFICES ASSUME v \in Views PROVE ViewOK(view, drawn)
    OBVIOUS
  <2>2. ViewOK(views[v], drawn)
    BY <2>1 DEF Inv
  <2>3. Sound(layout, drawn)
    BY <1>4
  <2> HIDE DEF layout, v
  <2>4. QED
    BY <2>2, <2>3, OtherLayout
<1> HIDE DEF view, v
<1>7. /\ DOMAIN views' = Views /\ views' = [w \in Views |-> views'[w]]
      /\ \A w \in Views : ViewOK(views'[w], drawn')
  BY <1>1, <1>6, OneView
<1> HIDE DEF s, m, layout
<1>8. session' = [session EXCEPT ![c] = r]
  BY <1>1, <1>3, GoesFacts
<1>9. SessionOK(r, m, terms, drawn)
  BY <1>4, PhaseFacts, ShowingRule
<1> HIDE DEF r
<1>10. QED
  BY <1>1, <1>5, <1>7, <1>8, <1>9, OneSession

(* The view no longer lists what was closed. *)
LEMMA CloseViewStep ==
  ASSUME Inv, NEW c \in Clients, CloseView(c)
  PROVE  Inv'
<1> DEFINE s == session[c]
           m == mux[c]
           v == s.view_id
           ids == Without(views[v].terminal_ids, Head(s.todo))
           view == [views[v] EXCEPT !.terminal_ids = ids]
           r == Showing("syncing", s.view_id, s.layout, s.restored, s.vterms, s.area, s.todo)
<1>1. /\ s.at = "removing" /\ terms' = terms /\ drawn' = drawn /\ mux' = mux
      /\ views' = [views EXCEPT ![v] = view] /\ Goes(c, "syncing", s)
  BY DEF CloseView
<1>2. s.at \in Phases
  BY <1>1, PhaseFacts
<1>3. s = Showing(s.at, s.view_id, s.layout, s.restored, s.vterms, s.area, s.todo)
  BY <1>2, ShownFacts
<1>4. /\ m \subseteq drawn /\ s.view_id \in Views \cup {None} /\ Sound(s.layout, drawn)
      /\ s.restored \subseteq TermIds /\ s.vterms \subseteq drawn /\ s.area \in Areas
      /\ s.todo \in Seq(drawn) /\ s.view_id # None
      /\ m \subseteq s.vterms /\ s.vterms \cap terms \subseteq m
      /\ (Panes(s.layout.root) \ s.restored) \cap terms \subseteq m
  BY <1>1, <1>2, ShownFacts, PhaseFacts
<1>5. terms \subseteq drawn /\ drawn \subseteq TermIds /\ mux = [mux EXCEPT ![c] = m]
  BY SessionKinds
<1>6. v \in Views => ViewOK(view, drawn)
  <2>1. SUFFICES ASSUME v \in Views PROVE ViewOK(view, drawn)
    OBVIOUS
  <2>2. ViewOK(views[v], drawn)
    BY <2>1 DEF Inv
  <2> DEFINE t == Head(s.todo)
             listed == views[v].terminal_ids
  <2>3. ListOK(listed, drawn) /\ ids = Without(listed, t)
    BY <2>2 DEF ViewOK
  <2> HIDE DEF t, listed, ids, v
  <2>4. ListOK(ids, drawn)
    BY <2>3, WithoutFacts
  <2>5. QED
    BY <2>2, <2>4, OtherList
<1> HIDE DEF view, v
<1>7. /\ DOMAIN views' = Views /\ views' = [w \in Views |-> views'[w]]
      /\ \A w \in Views : ViewOK(views'[w], drawn')
  BY <1>1, <1>6, OneView
<1> HIDE DEF s, m
<1>8. session' = [session EXCEPT ![c] = r]
  BY <1>1, <1>3, GoesFacts
<1>9. SessionOK(r, m, terms, drawn)
  BY <1>4, PhaseFacts, ShowingRule
<1> HIDE DEF r
<1>10. QED
  BY <1>1, <1>5, <1>7, <1>8, <1>9, OneSession

(* What is closed leaves the panes, the emulation and the connection at once. *)
LEMMA CloseRemoveStep ==
  ASSUME Inv, NEW c \in Clients, CloseRemove(c)
  PROVE  Inv'
<1> DEFINE s == session[c]
           m == mux[c]
           old == s.layout
           closed == old.focused
           layout == CloseFocused(old)
           vterms == s.vterms \ {closed}
           at == IF s.view_id = None THEN "run" ELSE "removing"
           todo == <<closed>>
           r == Showing(at, s.view_id, layout, s.restored, vterms, s.area, todo)
<1>1. /\ s.at = "run" /\ CanClose(old) /\ mux' = [mux EXCEPT ![c] = m \ {closed}]
      /\ terms' = terms /\ drawn' = drawn /\ views' = views
      /\ Goes(c, at, [s EXCEPT !.layout = layout, !.vterms = vterms, !.todo = todo])
  BY DEF CloseRemove, On
<1>2. s.at \in Phases
  BY <1>1, PhaseFacts
<1>3. s = Showing(s.at, s.view_id, s.layout, s.restored, s.vterms, s.area, s.todo)
  BY <1>2, ShownFacts
<1>4. /\ m \subseteq drawn /\ s.view_id \in Views \cup {None} /\ Sound(old, drawn)
      /\ s.restored \subseteq TermIds /\ s.vterms \subseteq drawn /\ s.area \in Areas
      /\ m \subseteq s.vterms /\ s.vterms \cap terms \subseteq m
      /\ (Panes(old.root) \ s.restored) \cap terms \subseteq m
  BY <1>1, <1>2, ShownFacts, PhaseFacts
<1>5. closed \in drawn
  <2>1. closed \in Panes(old.root)
    BY <1>4 DEF Sound
  <2> HIDE DEF closed, old
  <2>2. QED
    BY <1>4, <2>1, SoundPanes
<1> HIDE DEF s, m
<1>6. /\ Sound(layout, drawn)
      /\ \A t : t \in Panes(layout.root) <=> t \in Panes(old.root) /\ t # closed
  <2> HIDE DEF old
  <2>1. Sound(layout, drawn)
    BY <1>1, <1>4, CloseFacts
  <2>2. \A t : t \in Panes(layout.root) <=> t \in Panes(old.root) /\ t # closed
    BY <1>1, <1>4, CloseFacts
  <2>3. QED
    BY <2>1, <2>2
<1>7. todo \in Seq(drawn) /\ todo # <<>>
  <2> HIDE DEF closed
  <2>1. QED
    BY <1>5
<1>8. at \in {"run", "removing"} /\ (at = "removing" => s.view_id # None)
  OBVIOUS
<1> HIDE DEF layout, vterms, at, todo
<1>9. session' = [session EXCEPT ![c] = r]
  <2>1. \A l, w, q : [s EXCEPT !.layout = l, !.vterms = w, !.todo = q]
                       = Showing(s.at, s.view_id, l, s.restored, w, s.area, q)
    BY <1>3, ShowingUpdates
  <2>2. [s EXCEPT !.layout = layout, !.vterms = vterms, !.todo = todo]
          = Showing(s.at, s.view_id, layout, s.restored, vterms, s.area, todo)
    BY <2>1, Zenon
  <2>3. QED
    BY <1>1, <2>2, GoesFacts
<1> HIDE DEF old, closed
<1>10. SessionOK(r, m \ {closed}, terms, drawn)
  <2>1. /\ vterms \subseteq drawn /\ m \ {closed} \subseteq vterms
        /\ vterms \cap terms \subseteq m \ {closed}
        /\ (Panes(layout.root) \ s.restored) \cap terms \subseteq m \ {closed}
    BY <1>4, <1>6 DEF vterms
  <2>2. at \notin Directions /\ at # "undo" /\ at # "switching" /\ at # "adding" /\ at # "syncing"
        /\ at \in Phases
    BY <1>8, PhaseFacts
  <2>3. QED
    BY <1>4, <1>6, <1>7, <1>8, <2>1, <2>2, ShowingRule
<1> HIDE DEF r
<1>11. QED
  BY <1>1, <1>9, <1>10, ShowingStep

-----------------------------------------------------------------------------
(* The other keys, and what others do *)

(* A ratio that moves changes no pane's terminal. *)
LEMMA PaneResizeStep ==
  ASSUME Inv, NEW c \in Clients, NEW key \in Keys, PaneResize(c, key)
  PROVE  Inv'
<1> DEFINE s == session[c]
           m == mux[c]
           old == s.layout
           layout == ResizeFocused(old, key, Delta)
           at == IF s.view_id = None THEN "run" ELSE "syncing"
           r == Showing(at, s.view_id, layout, s.restored, s.vterms, s.area, s.todo)
<1>1. /\ s.at = "run" /\ mux' = mux
      /\ terms' = terms /\ drawn' = drawn /\ views' = views
      /\ Goes(c, at, [s EXCEPT !.layout = layout])
  BY DEF PaneResize, On
<1>2. s.at \in Phases
  BY <1>1, PhaseFacts
<1>3. s = Showing(s.at, s.view_id, s.layout, s.restored, s.vterms, s.area, s.todo)
  BY <1>2, ShownFacts
<1>4. /\ m \subseteq drawn /\ s.view_id \in Views \cup {None} /\ Sound(old, drawn)
      /\ s.restored \subseteq TermIds /\ s.vterms \subseteq drawn /\ s.area \in Areas
      /\ s.todo \in Seq(drawn)
      /\ m \subseteq s.vterms /\ s.vterms \cap terms \subseteq m
      /\ (Panes(old.root) \ s.restored) \cap terms \subseteq m
  BY <1>1, <1>2, ShownFacts, PhaseFacts
<1>5. mux = [mux EXCEPT ![c] = m]
  BY SessionKinds
<1> HIDE DEF s, m
<1>6. Sound(layout, drawn) /\ Panes(layout.root) = Panes(old.root)
  <2>1. Delta \in Int
    BY DeltaAssumption
  <2> HIDE DEF old
  <2>2. Sound(layout, drawn)
    BY <1>4, <2>1, ResizeFacts
  <2>3. Panes(layout.root) = Panes(old.root)
    BY <1>4, <2>1, ResizeFacts
  <2>4. QED
    BY <2>2, <2>3
<1>7. at \in {"run", "syncing"} /\ (at = "syncing" => s.view_id # None)
  OBVIOUS
<1> HIDE DEF layout, at
<1>8. session' = [session EXCEPT ![c] = r]
  <2>1. \A l : [s EXCEPT !.layout = l]
                 = Showing(s.at, s.view_id, l, s.restored, s.vterms, s.area, s.todo)
    BY <1>3, ShowingUpdates
  <2>2. [s EXCEPT !.layout = layout]
          = Showing(s.at, s.view_id, layout, s.restored, s.vterms, s.area, s.todo)
    BY <2>1, Zenon
  <2>3. QED
    BY <1>1, <2>2, GoesFacts
<1> HIDE DEF old
<1>9. SessionOK(r, m, terms, drawn)
  <2>1. /\ at \notin Directions /\ at # "undo" /\ at # "switching" /\ at # "adding"
        /\ at # "removing" /\ at \in Phases
    BY <1>7, PhaseFacts
  <2>2. QED
    BY <1>4, <1>6, <1>7, <2>1, ShowingRule
<1> HIDE DEF r
<1>10. QED
  BY <1>1, <1>5, <1>8, <1>9, ShowingStep

(* The focus moves to a pane. *)
LEMMA PaneNavigateStep ==
  ASSUME Inv, NEW c \in Clients, NEW key \in Keys, PaneNavigate(c, key)
  PROVE  Inv'
<1> DEFINE s == session[c]
           m == mux[c]
           old == s.layout
           area == s.area
           layout == Navigate(old, key, area)
           r == Showing("run", s.view_id, layout, s.restored, s.vterms, area, s.todo)
<1>1. /\ s.at = "run" /\ mux' = mux
      /\ terms' = terms /\ drawn' = drawn /\ views' = views
      /\ Goes(c, "run", [s EXCEPT !.layout = layout])
  BY DEF PaneNavigate, On
<1>2. s.at \in Phases
  BY <1>1, PhaseFacts
<1>3. s = Showing(s.at, s.view_id, s.layout, s.restored, s.vterms, s.area, s.todo)
  BY <1>2, ShownFacts
<1>4. /\ m \subseteq drawn /\ s.view_id \in Views \cup {None} /\ Sound(old, drawn)
      /\ s.restored \subseteq TermIds /\ s.vterms \subseteq drawn /\ area \in Areas
      /\ s.todo \in Seq(drawn)
      /\ m \subseteq s.vterms /\ s.vterms \cap terms \subseteq m
      /\ (Panes(old.root) \ s.restored) \cap terms \subseteq m
  BY <1>1, <1>2, ShownFacts, PhaseFacts
<1>5. mux = [mux EXCEPT ![c] = m]
  BY SessionKinds
<1> HIDE DEF s, m
<1>6. Sound(layout, drawn) /\ layout.root = old.root
  <2>1. area \in Rectangles
    BY <1>4, AreasAssumption
  <2> HIDE DEF old, area
  <2>2. QED
    BY <1>4, <2>1, NavigateFacts
<1> HIDE DEF layout
<1>7. session' = [session EXCEPT ![c] = r]
  <2>1. \A l : [s EXCEPT !.layout = l]
                 = Showing(s.at, s.view_id, l, s.restored, s.vterms, s.area, s.todo)
    BY <1>3, ShowingUpdates
  <2>2. [s EXCEPT !.layout = layout]
          = Showing(s.at, s.view_id, layout, s.restored, s.vterms, s.area, s.todo)
    BY <2>1, Zenon
  <2>3. QED
    BY <1>1, <2>2, GoesFacts
<1>8. SessionOK(r, m, terms, drawn)
  <2>1. (Panes(layout.root) \ s.restored) \cap terms \subseteq m
    BY <1>4, <1>6
  <2> HIDE DEF old, area
  <2>2. QED
    BY <1>4, <1>6, <2>1, PhaseFacts, ShowingRule
<1> HIDE DEF r
<1>9. QED
  BY <1>1, <1>5, <1>7, <1>8, ShowingStep

(* A window of another size. *)
LEMMA ResizeStep ==
  ASSUME Inv, NEW c \in Clients, NEW area \in Areas, Resize(c, area)
  PROVE  Inv'
<1> DEFINE s == session[c]
           m == mux[c]
           r == Showing("run", s.view_id, s.layout, s.restored, s.vterms, area, s.todo)
<1>1. /\ s.at = "run" /\ mux' = mux
      /\ terms' = terms /\ drawn' = drawn /\ views' = views
      /\ Goes(c, "run", [s EXCEPT !.area = area])
  BY DEF Resize, On
<1>2. s.at \in Phases
  BY <1>1, PhaseFacts
<1>3. s = Showing(s.at, s.view_id, s.layout, s.restored, s.vterms, s.area, s.todo)
  BY <1>2, ShownFacts
<1>4. /\ m \subseteq drawn /\ s.view_id \in Views \cup {None} /\ Sound(s.layout, drawn)
      /\ s.restored \subseteq TermIds /\ s.vterms \subseteq drawn
      /\ s.todo \in Seq(drawn)
      /\ m \subseteq s.vterms /\ s.vterms \cap terms \subseteq m
      /\ (Panes(s.layout.root) \ s.restored) \cap terms \subseteq m
  BY <1>1, <1>2, ShownFacts, PhaseFacts
<1>5. mux = [mux EXCEPT ![c] = m]
  BY SessionKinds
<1> HIDE DEF s, m
<1>6. session' = [session EXCEPT ![c] = r]
  <2>1. [s EXCEPT !.area = area]
          = Showing(s.at, s.view_id, s.layout, s.restored, s.vterms, area, s.todo)
    BY <1>3, ShowingUpdates
  <2>2. QED
    BY <1>1, <2>1, GoesFacts
<1>7. SessionOK(r, m, terms, drawn)
  BY <1>4, PhaseFacts, ShowingRule
<1> HIDE DEF r
<1>8. QED
  BY <1>1, <1>5, <1>6, <1>7, ShowingStep

(* A switch of view starts with one pane, and has its list before it. *)
LEMMA ViewSwitchStep ==
  ASSUME Inv, NEW c \in Clients, NEW v \in Views, ViewSwitch(c, v)
  PROVE  Inv'
<1> DEFINE s == session[c]
           m == mux[c]
           ids == views[v].terminal_ids
           listed == ToSet(ids)
           first == Head(ids)
           layout == New(first)
           vterms == s.vterms \cap listed
           carried == m \ (s.vterms \ listed)
           none == {}
           r == Showing("switching", s.view_id, layout, none, vterms, s.area, ids)
<1>1. /\ s.at = "run" /\ ids # <<>> /\ mux' = [mux EXCEPT ![c] = carried]
      /\ terms' = terms /\ drawn' = drawn /\ views' = views
      /\ Goes(c, "switching", Switched(s, vterms, none, layout, ids))
  BY DEF ViewSwitch, On, Switched
<1>2. s.at \in Phases
  BY <1>1, PhaseFacts
<1>3. s = Showing(s.at, s.view_id, s.layout, s.restored, s.vterms, s.area, s.todo)
  BY <1>2, ShownFacts
<1>4. /\ m \subseteq drawn /\ s.view_id \in Views \cup {None}
      /\ s.vterms \subseteq drawn /\ s.area \in Areas
      /\ m \subseteq s.vterms /\ s.vterms \cap terms \subseteq m
  BY <1>1, <1>2, ShownFacts, PhaseFacts
<1>5. ids \in Seq(drawn) /\ first \in drawn /\ first \in listed
  <2>1. ViewOK(views[v], drawn)
    BY DEF Inv
  <2>2. ids \in Seq(drawn)
    BY <2>1 DEF ViewOK, ListOK
  <2> HIDE DEF ids
  <2>3. QED
    BY <1>1, <2>2, Elements
<1> HIDE DEF s, m, ids, first
<1>6. Sound(layout, drawn) /\ Panes(layout.root) = {first}
  BY <1>5, NewIsSound
<1> HIDE DEF layout, vterms, none
<1>7. session' = [session EXCEPT ![c] = r]
  <2>1. \A w, x, l, q : Switched(s, w, x, l, q) = Showing(s.at, s.view_id, l, x, w, s.area, q)
    BY <1>3, ShowingUpdates
  <2>2. Switched(s, vterms, none, layout, ids)
          = Showing(s.at, s.view_id, layout, none, vterms, s.area, ids)
    BY <2>1, Zenon
  <2>3. QED
    BY <1>1, <2>2, GoesFacts
<1>8. SessionOK(r, carried, terms, drawn)
  <2>1. /\ carried \subseteq drawn /\ carried \subseteq vterms /\ vterms \subseteq drawn
        /\ vterms \cap terms \subseteq carried
    BY <1>4 DEF vterms
  <2>2. none \subseteq TermIds /\ (Panes(layout.root) \ none) \cap terms \subseteq carried \cup listed
    BY <1>5, <1>6 DEF none
  <2> HIDE DEF carried
  <2>3. QED
    BY <1>1, <1>4, <1>5, <1>6, <2>1, <2>2, PhaseFacts, ShowingRule
<1> HIDE DEF r, carried
<1>9. QED
  BY <1>1, <1>7, <1>8, ShowingStep

(* A round of the switch: what is attached leaves what is still to come. *)
LEMMA SwitchTerminalStep ==
  ASSUME Inv, NEW c \in Clients, SwitchTerminal(c)
  PROVE  Inv'
<1> DEFINE s == session[c]
           m == mux[c]
           old == s.layout
           t == Head(s.todo)
           rest == Tail(s.todo)
           shows == t \in terms \cup s.vterms /\ t \notin Panes(old.root)
           layout == IF shows THEN SplitFocused(old, "Vertical", t) ELSE old
           vterms == IF t \in terms THEN s.vterms \cup {t} ELSE s.vterms
           carried == IF t \in terms \ s.vterms THEN m \cup {t} ELSE m
           at == IF Len(s.todo) = 1 THEN "run" ELSE "switching"
           r == Showing(at, s.view_id, layout, s.restored, vterms, s.area, rest)
<1>1. /\ s.at = "switching" /\ mux' = [mux EXCEPT ![c] = carried]
      /\ terms' = terms /\ drawn' = drawn /\ views' = views
      /\ Goes(c, at, [s EXCEPT !.todo = rest, !.vterms = vterms, !.layout = layout])
  BY DEF SwitchTerminal
<1>2. s.at \in Phases
  BY <1>1, PhaseFacts
<1>3. s = Showing(s.at, s.view_id, s.layout, s.restored, s.vterms, s.area, s.todo)
  BY <1>2, ShownFacts
<1>4. /\ m \subseteq drawn /\ s.view_id \in Views \cup {None} /\ Sound(old, drawn)
      /\ s.restored \subseteq TermIds /\ s.vterms \subseteq drawn /\ s.area \in Areas
      /\ s.todo \in Seq(drawn) /\ s.todo # <<>>
      /\ m \subseteq s.vterms /\ s.vterms \cap terms \subseteq m
      /\ (Panes(old.root) \ s.restored) \cap terms \subseteq m \cup ToSet(s.todo)
  BY <1>1, <1>2, ShownFacts, PhaseFacts
<1> DEFINE todo == s.todo
<1>5. /\ t \in drawn /\ rest \in Seq(drawn)
      /\ \A x : x \in ToSet(todo) => x = t \/ x \in ToSet(rest)
      /\ at = "run" => ToSet(rest) = {}
      /\ at = "switching" => rest # <<>>
  <2>1. todo \in Seq(drawn) /\ todo # <<>> /\ t = Head(todo) /\ rest = Tail(todo)
        /\ at = IF Len(todo) = 1 THEN "run" ELSE "switching"
    BY <1>4
  <2> HIDE DEF todo, t, rest, at
  <2>2. /\ Head(todo) \in drawn /\ Tail(todo) \in Seq(drawn)
        /\ ToSet(todo) = {Head(todo)} \cup ToSet(Tail(todo))
        /\ (Len(todo) = 1 <=> Tail(todo) = <<>>)
    BY <2>1, Elements
  <2>3. rest = <<>> => ToSet(rest) = {}
    BY <2>1, <2>2, Elements
  <2>4. QED
    BY <2>1, <2>2, <2>3
<1> HIDE DEF s, m, t, rest
<1>6. /\ Sound(layout, drawn)
      /\ \A x : x \in Panes(layout.root) => x \in Panes(old.root) \/ x = t
  <2>1. CASE shows
    <3>1. layout = SplitFocused(old, "Vertical", t) /\ t \notin Panes(old.root)
      BY <2>1
    <3>2. "Vertical" \in Directions
      BY DEF Directions
    <3> HIDE DEF old, layout, shows
    <3>3. Sound(old, drawn) /\ t \in drawn
      BY <1>4, <1>5
    <3>4. Sound(layout, drawn)
      BY <3>1, <3>2, <3>3, SplitFacts
    <3>5. \A x : x \in Panes(layout.root) <=> x \in Panes(old.root) \/ x = t
      BY <3>1, <3>2, <3>3, SplitFacts
    <3>6. QED
      BY <3>4, <3>5
  <2>2. CASE ~ shows
    <3>1. layout = old
      BY <2>2
    <3> HIDE DEF old, layout, shows
    <3>2. QED
      BY <1>4, <3>1
  <2>3. QED
    BY <2>1, <2>2
<1>7. at \in {"run", "switching"}
  OBVIOUS
<1> HIDE DEF layout, vterms, shows, old, at
<1>8. session' = [session EXCEPT ![c] = r]
  <2>1. \A q, w, l : [s EXCEPT !.todo = q, !.vterms = w, !.layout = l]
                       = Showing(s.at, s.view_id, l, s.restored, w, s.area, q)
    BY <1>3, ShowingUpdates
  <2>2. [s EXCEPT !.todo = rest, !.vterms = vterms, !.layout = layout]
          = Showing(s.at, s.view_id, layout, s.restored, vterms, s.area, rest)
    BY <2>1, Zenon
  <2>3. QED
    BY <1>1, <2>2, GoesFacts
<1>9. SessionOK(r, carried, terms, drawn)
  <2>1. /\ carried \subseteq drawn /\ carried \subseteq vterms /\ vterms \subseteq drawn
        /\ vterms \cap terms \subseteq carried
    BY <1>4, <1>5 DEF vterms
  <2>2. t \in terms => t \in carried
    BY <1>4
  <2>3. m \subseteq carried
    OBVIOUS
  <2>4. (Panes(layout.root) \ s.restored) \cap terms
          \subseteq carried \cup (IF at = "switching" THEN ToSet(rest) ELSE {})
    <3> HIDE DEF carried
    <3>1. ASSUME NEW x \in (Panes(layout.root) \ s.restored) \cap terms
          PROVE  x \in carried \/ x \in ToSet(rest)
      BY <1>4, <1>5, <1>6, <2>2, <2>3, <3>1 DEF todo
    <3>2. QED
      BY <1>5, <1>7, <3>1
  <2> HIDE DEF carried
  <2>5. /\ at \notin Directions /\ at # "undo" /\ at # "syncing" /\ at # "adding"
        /\ at # "removing" /\ at \in Phases
    BY <1>7, PhaseFacts
  <2>6. QED
    BY <1>4, <1>5, <1>6, <2>1, <2>4, <2>5, ShowingRule
<1> HIDE DEF r, carried
<1>10. QED
  BY <1>1, <1>8, <1>9, ShowingStep

(* A terminal that ends is swept from the lists; the clients do not know of it. *)
LEMMA TerminalKillStep ==
  ASSUME Inv, NEW t, TerminalKill(t)
  PROVE  Inv'
<1>1. session' = session /\ mux' = mux /\ drawn' = drawn /\ terms' \subseteq terms /\ Sweep(t)
  BY DEF TerminalKill
<1>2. /\ DOMAIN views' = Views /\ views' = [v \in Views |-> views'[v]]
      /\ \A v \in Views : ViewOK(views'[v], drawn)
  BY <1>1, SweepFacts
<1>3. QED
  BY <1>1, <1>2, NoSession

(* A terminal others add to a view. *)
LEMMA ViewAddTerminalStep ==
  ASSUME Inv, NEW v \in Views, NEW t, ViewAddTerminal(v, t)
  PROVE  Inv'
<1>1. /\ session' = session /\ mux' = mux /\ drawn' = drawn /\ terms' \subseteq terms
      /\ views' = Listed(v, t) /\ t \in terms
  BY DEF ViewAddTerminal
<1>2. t \in drawn
  BY <1>1 DEF Inv
<1>3. /\ DOMAIN views' = Views /\ views' = [w \in Views |-> views'[w]]
      /\ \A w \in Views : ViewOK(views'[w], drawn)
  BY <1>1, <1>2, ListedFacts
<1>4. QED
  BY <1>1, <1>3, NoSession

-----------------------------------------------------------------------------
(* The theorems *)

(* At the start the views list their shells, and nobody is attached. *)
LEMMA InitInv == Init => Inv
<1> SUFFICES ASSUME Init PROVE Inv
  OBVIOUS
<1>1. PICK shell \in [Views -> TermIds] :
        /\ terms = {shell[v] : v \in Views}
        /\ views = [v \in Views |-> [terminal_ids |-> <<shell[v]>>, layout |-> None]]
  BY DEF Init
<1>2. /\ drawn = terms /\ session = [c \in Clients |-> Off] /\ mux = [c \in Clients |-> {}]
  BY DEF Init
<1>3. terms \subseteq TermIds
  BY <1>1
<1>4. ASSUME NEW v \in Views PROVE ViewOK(views[v], drawn)
  <2> DEFINE ids == <<shell[v]>>
  <2>1. views[v] = [terminal_ids |-> ids, layout |-> None]
    BY <1>1
  <2>2. shell[v] \in drawn
    BY <1>1, <1>2
  <2>3. ids \in Seq(drawn) /\ Len(ids) = 1
    BY <2>2
  <2> HIDE DEF ids
  <2>4. ListOK(ids, drawn)
    BY <2>3 DEF ListOK
  <2>5. views[v].terminal_ids = ids /\ views[v].layout = None
    BY <2>1
  <2>6. QED
    BY <2>1, <2>4, <2>5 DEF ViewOK, StoredOK
<1>5. ASSUME NEW c \in Clients PROVE SessionOK(session[c], mux[c], terms, drawn)
  BY <1>2 DEF SessionOK
<1>6. DOMAIN views = Views /\ views = [v \in Views |-> views[v]]
  BY <1>1
<1>7. DOMAIN session = Clients /\ session = [c \in Clients |-> session[c]]
  BY <1>2
<1>8. DOMAIN mux = Clients /\ mux = [c \in Clients |-> mux[c]]
  BY <1>2
<1>9. QED
  BY <1>2, <1>3, <1>4, <1>5, <1>6, <1>7, <1>8 DEF Inv

(* Every step keeps the invariant. *)
LEMMA NextInv == Inv /\ [Next]_vars => Inv'
<1> SUFFICES ASSUME Inv, [Next]_vars PROVE Inv'
  OBVIOUS
<1>1. ASSUME NEW c \in Clients, NEW v \in Views, ViewAttach(c, v) PROVE Inv'
  BY <1>1, ViewAttachStep
<1>2. ASSUME NEW c \in Clients, NEW t \in terms, TerminalAttach(c, t) PROVE Inv'
  BY <1>2, TerminalAttachStep
<1>3. ASSUME NEW c \in Clients, Leave(c) PROVE Inv'
  BY <1>3, LeaveStep
<1>4. ASSUME NEW c \in Clients, Handler(c) PROVE Inv'
  <2>1. CASE MultiplexAttach(c)
    BY <2>1, MultiplexAttachStep
  <2>2. ASSUME NEW dir \in Directions, SplitAdd(c, dir) PROVE Inv'
    BY <2>2, SplitAddStep
  <2>3. CASE SplitUndo(c)
    BY <2>3, SplitUndoStep
  <2>4. CASE SplitView(c)
    BY <2>4, SplitViewStep
  <2>5. CASE SyncLayout(c)
    BY <2>5, SyncLayoutStep
  <2>6. CASE CloseView(c)
    BY <2>6, CloseViewStep
  <2>7. CASE SwitchTerminal(c)
    BY <2>7, SwitchTerminalStep
  <2>8. QED
    BY <1>4, <2>1, <2>2, <2>3, <2>4, <2>5, <2>6, <2>7 DEF Handler
<1>5. ASSUME NEW c \in Clients, Key(c) PROVE Inv'
  <2>1. ASSUME NEW dir \in Directions, NEW new \in TermIds, SplitCreate(c, dir, new) PROVE Inv'
    BY <2>1, SplitCreateStep
  <2>2. CASE CloseRemove(c)
    BY <2>2, CloseRemoveStep
  <2>3. ASSUME NEW key \in Keys, PaneResize(c, key) PROVE Inv'
    BY <2>3, PaneResizeStep
  <2>4. ASSUME NEW key \in Keys, PaneNavigate(c, key) PROVE Inv'
    BY <2>4, PaneNavigateStep
  <2>5. ASSUME NEW area \in Areas, Resize(c, area) PROVE Inv'
    BY <2>5, ResizeStep
  <2>6. ASSUME NEW v \in Views, ViewSwitch(c, v) PROVE Inv'
    BY <2>6, ViewSwitchStep
  <2>7. QED
    BY <1>5, <2>1, <2>2, <2>3, <2>4, <2>5, <2>6 DEF Key
<1>6. ASSUME NEW t \in TermIds, TerminalKill(t) PROVE Inv'
  BY <1>6, TerminalKillStep
<1>7. ASSUME NEW t \in TermIds, NEW v \in Views, ViewAddTerminal(v, t) PROVE Inv'
  BY <1>7, ViewAddTerminalStep
<1>8. CASE UNCHANGED vars
  BY <1>8 DEF vars, Inv, SessionOK, AttachingOK, ShownOK, ViewOK, Pending, Coming
<1>9. QED
  BY <1>1, <1>2, <1>3, <1>4, <1>5, <1>6, <1>7, <1>8 DEF Next

(* The invariant holds. *)
THEOREM AlwaysInv == Spec => []Inv
BY InitInv, NextInv, PTL DEF Spec

(* What clients show and views store is sound. *)
LEMMA InUseSound ==
  ASSUME Inv, NEW layout \in LayoutsInUse
  PROVE  Sound(layout, drawn)
<1>1. CASE \E c \in Shown : layout = session[c].layout
  <2>1. PICK c \in Shown : layout = session[c].layout
    BY <1>1
  <2>2. c \in Clients /\ session[c].at \notin {"off", "attaching"}
    BY DEF Shown
  <2>3. SessionOK(session[c], mux[c], terms, drawn)
    BY <2>2 DEF Inv
  <2>4. Off.at = "off"
    BY DEF Off
  <2>5. ShownOK(session[c], mux[c], terms, drawn)
    BY <2>2, <2>3, <2>4 DEF SessionOK, AttachingOK
  <2>6. QED
    BY <2>1, <2>5 DEF ShownOK
<1>2. CASE \E v \in Views : layout = views[v].layout /\ layout # None
  <2>1. PICK v \in Views : layout = views[v].layout /\ layout # None
    BY <1>2
  <2>2. ViewOK(views[v], drawn)
    BY DEF Inv
  <2>3. QED
    BY <2>1, <2>2 DEF ViewOK, StoredOK
<1>3. QED
  BY <1>1, <1>2 DEF LayoutsInUse

(* The invariant gives the types. *)
LEMMA TypeFromInv == Inv => TypeOK
<1> SUFFICES ASSUME Inv PROVE TypeOK
  OBVIOUS
<1>1. /\ terms \subseteq drawn /\ drawn \subseteq TermIds
      /\ DOMAIN views = Views /\ DOMAIN session = Clients
  BY DEF Inv
<1>2. Seq(drawn) \subseteq Seq(TermIds)
  BY <1>1
<1>3. mux \in [Clients -> SUBSET TermIds]
  <2>1. \A c \in Clients : mux[c] \subseteq TermIds
    BY <1>1 DEF Inv, SessionOK
  <2>2. mux = [c \in Clients |-> mux[c]]
    BY DEF Inv
  <2>3. QED
    BY <2>1, <2>2
<1>4. ASSUME NEW v \in Views PROVE views[v].terminal_ids \in Seq(TermIds)
  BY <1>2 DEF Inv, ViewOK, ListOK
<1>5. ASSUME NEW layout \in LayoutsInUse PROVE IsTree(layout.root, TermIds)
  <2>1. Sound(layout, drawn)
    BY InUseSound
  <2>2. Sound(layout, TermIds)
    BY <1>1, <2>1, SoundGrows
  <2>3. QED
    BY <2>2 DEF Sound
<1>6. ASSUME NEW c \in Clients
      PROVE  LET s == session[c] IN
             \/ s = Off
             \/ /\ s.at = "attaching"
                /\ s \in [at : {s.at}, view_id : Views \cup {None}, ids : Seq(TermIds),
                          saved : {s.saved}]
             \/ /\ s.at \in Phases
                /\ s \in [at : {s.at}, view_id : Views \cup {None}, layout : {s.layout},
                          restored : SUBSET TermIds, vterms : SUBSET TermIds, area : Areas,
                          todo : Seq(TermIds)]
  <2> DEFINE s == session[c]
  <2>1. SessionOK(s, mux[c], terms, drawn)
    BY DEF Inv
  <2> HIDE DEF s
  <2>2. CASE AttachingOK(s, drawn)
    <3>1. s.at = "attaching"
      BY <2>2 DEF AttachingOK
    <3>2. s \in [at : {"attaching"}, view_id : Views \cup {None}, ids : Seq(drawn),
                 saved : {s.saved}]
      BY <2>2 DEF AttachingOK
    <3>3. s \in [at : {s.at}, view_id : Views \cup {None}, ids : Seq(TermIds),
                 saved : {s.saved}]
      BY <1>2, <3>1, <3>2
    <3>4. QED
      BY <3>1, <3>3 DEF s
  <2>3. CASE ShownOK(s, mux[c], terms, drawn)
    <3>1. s.at \in Phases
      BY <2>3 DEF ShownOK
    <3>2. s \in [at : Phases, view_id : Views \cup {None}, layout : {s.layout},
                 restored : SUBSET TermIds, vterms : SUBSET drawn, area : Areas,
                 todo : Seq(drawn)]
      BY <2>3 DEF ShownOK
    <3>3. s \in [at : {s.at}, view_id : Views \cup {None}, layout : {s.layout},
                 restored : SUBSET TermIds, vterms : SUBSET TermIds, area : Areas,
                 todo : Seq(TermIds)]
      BY <1>1, <1>2, <3>2
    <3>4. QED
      BY <3>1, <3>3 DEF s
  <2>4. QED
    BY <2>1, <2>2, <2>3 DEF SessionOK, s
<1>7. QED
  BY <1>1, <1>3, <1>4, <1>5, <1>6 DEF TypeOK

(* TypeOK: every variable has its type, and every layout a client shows or a view
   stores is a tree (tui/layout.rs, terminal/attach.rs). *)
THEOREM TypeCorrect == Spec => []TypeOK
BY AlwaysInv, TypeFromInv, PTL

(* PanesAreDistinct: whatever clients split, close, restore and switch to, no
   terminal gets two panes and the focus is on a pane (PaneLayout). *)
THEOREM PanesCorrect == Spec => []PanesAreDistinct
<1>1. Inv => PanesAreDistinct
  <2> SUFFICES ASSUME Inv, NEW layout \in LayoutsInUse
               PROVE  /\ layout.focused \in Panes(layout.root)
                      /\ \A p, q \in Leaves(layout.root) :
                           layout.root[p] = layout.root[q] => p = q
    BY DEF PanesAreDistinct
  <2>1. Sound(layout, drawn)
    BY InUseSound
  <2>2. QED
    BY <2>1 DEF Sound, Distinct
<1>2. QED
  BY AlwaysInv, <1>1, PTL

(* SidesMatch: between handlers, a client emulates what its connection carries, and
   every pane it opened itself is of a terminal that is carried or was killed
   (TuiSession and MuxSession's pty_writers). *)
THEOREM SidesCorrect == Spec => []SidesMatch
<1>1. Inv => SidesMatch
  <2> SUFFICES ASSUME Inv, NEW c \in Clients, On(c)
               PROVE  /\ mux[c] \subseteq session[c].vterms
                      /\ (session[c].vterms \cup (Panes(session[c].layout.root) \ session[c].restored))
                            \cap terms \subseteq mux[c]
    BY DEF SidesMatch
  <2> DEFINE s == session[c]
             m == mux[c]
  <2>1. s.at = "run"
    BY DEF On
  <2>2. s.at \in Phases
    BY <2>1, PhaseFacts
  <2>3. /\ m \subseteq s.vterms /\ s.vterms \cap terms \subseteq m
        /\ (Panes(s.layout.root) \ s.restored) \cap terms \subseteq m
    BY <2>1, <2>2, ShownFacts, PhaseFacts
  <2> HIDE DEF s, m
  <2>4. (s.vterms \cup (Panes(s.layout.root) \ s.restored)) \cap terms \subseteq m
    BY <2>3
  <2>5. QED
    BY <2>3, <2>4 DEF s, m
<1>2. QED
  BY AlwaysInv, <1>1, PTL

-----------------------------------------------------------------------------
(* The cells of panes *)

(* A cell is a column and a row. *)
LEMMA CellFacts ==
  ASSUME NEW r \in Rectangles
  PROVE  \A z : z \in Cells(r) <=>
           \E a \in Int, b \in Int : /\ z = <<a, b>>
                                     /\ r.x <= a /\ a < r.x + r.width
                                     /\ r.y <= b /\ b < r.y + r.height
<1>1. r.x \in Nat /\ r.y \in Nat /\ r.width \in Nat /\ r.height \in Nat
  BY DEF Rectangles
<1> DEFINE X == r.x .. r.x + r.width - 1
           Y == r.y .. r.y + r.height - 1
<1>2. \A a : a \in X <=> a \in Int /\ r.x <= a /\ a < r.x + r.width
  BY <1>1
<1>3. \A b : b \in Y <=> b \in Int /\ r.y <= b /\ b < r.y + r.height
  BY <1>1
<1>4. Cells(r) = X \X Y
  BY DEF Cells
<1> HIDE DEF X, Y
<1>5. \A z : z \in X \X Y <=> \E a \in X, b \in Y : z = <<a, b>>
  OBVIOUS
<1>6. QED
  BY <1>2, <1>3, <1>4, <1>5

(* The halves of an area and the line between them: they are in it, do not *)
(* overlap, and leave nothing out.                                         *)
LEMMA HalvesTile ==
  ASSUME NEW area \in Rectangles,
         NEW node \in [direction : Directions, ratio : MinRatio .. MaxRatio]
  PROVE  LET first == SplitRect(area, node)[1]
             second == SplitRect(area, node)[2]
         IN  /\ \A z : z \in Cells(first) => z \in Cells(area) /\ z \notin Cells(second)
             /\ \A z : z \in Cells(second) => z \in Cells(area)
             /\ \A z : z \in Cells(area) => \/ z \in Cells(first) \/ z \in Cells(second)
                                            \/ z \in Cells(Separator(area, node))
<1> DEFINE first == SplitRect(area, node)[1]
           second == SplitRect(area, node)[2]
           line == Separator(area, node)
           w == FirstExtent(area.width, node.ratio)
           h == FirstExtent(area.height, node.ratio)
           X == area.x
           Y == area.y
           W == area.width
           H == area.height
<1>1. X \in Nat /\ Y \in Nat /\ W \in Nat /\ H \in Nat
  BY DEF Rectangles
<1>2. node.ratio \in MinRatio .. MaxRatio
  OBVIOUS
<1>3. first \in Rectangles /\ second \in Rectangles
  BY SplitRectFacts
<1>4. /\ w \in Nat /\ w <= AtLeastZero(W - Sep) /\ h \in Nat /\ h <= AtLeastZero(H - Sep)
  BY <1>1, <1>2, ExtentFacts
<1>5. /\ AtLeastZero(W - Sep) = IF W = 0 THEN 0 ELSE W - 1
      /\ AtLeastZero(H - Sep) = IF H = 0 THEN 0 ELSE H - 1
  BY <1>1 DEF AtLeastZero, Sep
<1>6. node.direction = "Vertical" =>
        /\ first.x = X /\ first.width = w /\ first.y = Y /\ first.height = H
        /\ second.x = X + w + 1 /\ second.width = AtLeastZero(W - Sep) - w
        /\ second.y = Y /\ second.height = H
  BY HalfFields DEF Sep
<1>7. node.direction # "Vertical" =>
        /\ first.y = Y /\ first.height = h /\ first.x = X /\ first.width = W
        /\ second.y = Y + h + 1 /\ second.height = AtLeastZero(H - Sep) - h
        /\ second.x = X /\ second.width = W
  BY HalfFields DEF Sep
<1>8. /\ node.direction = "Vertical" =>
           line = [x |-> first.x + first.width, y |-> Y, width |-> 1, height |-> H]
      /\ node.direction # "Vertical" =>
           line = [x |-> X, y |-> first.y + first.height, width |-> W, height |-> 1]
  BY DEF Separator, Sep
<1> HIDE DEF first, second, line, w, h
<1>9. /\ node.direction = "Vertical" =>
           line.x = X + w /\ line.width = 1 /\ line.y = Y /\ line.height = H
      /\ node.direction # "Vertical" =>
           line.x = X /\ line.width = W /\ line.y = Y + h /\ line.height = 1
  BY <1>6, <1>7, <1>8
<1>10. line \in Rectangles
  BY <1>1, <1>3, <1>8 DEF Rectangles
<1> HIDE DEF X, Y, W, H
<1> DEFINE In(a, b, x, y, p, q) == x <= a /\ a < x + p /\ y <= b /\ b < y + q
<1>11. /\ \A z : z \in Cells(area) <=> \E a \in Int, b \in Int : z = <<a, b>> /\ In(a, b, X, Y, W, H)
  BY CellFacts DEF X, Y, W, H
<1>12. \A z : z \in Cells(first) <=>
         \E a \in Int, b \in Int : z = <<a, b>> /\ In(a, b, first.x, first.y, first.width, first.height)
  BY <1>3, CellFacts
<1>13. \A z : z \in Cells(second) <=>
         \E a \in Int, b \in Int : z = <<a, b>> /\ In(a, b, second.x, second.y, second.width, second.height)
  BY <1>3, CellFacts
<1>14. \A z : z \in Cells(line) <=>
         \E a \in Int, b \in Int : z = <<a, b>> /\ In(a, b, line.x, line.y, line.width, line.height)
  BY <1>10, CellFacts
<1>15. ASSUME NEW a \in Int, NEW b \in Int
       PROVE  /\ In(a, b, first.x, first.y, first.width, first.height)
                   => /\ In(a, b, X, Y, W, H)
                      /\ ~ In(a, b, second.x, second.y, second.width, second.height)
              /\ In(a, b, second.x, second.y, second.width, second.height) => In(a, b, X, Y, W, H)
              /\ In(a, b, X, Y, W, H)
                   => \/ In(a, b, first.x, first.y, first.width, first.height)
                      \/ In(a, b, second.x, second.y, second.width, second.height)
                      \/ In(a, b, line.x, line.y, line.width, line.height)
  <2>1. CASE node.direction = "Vertical"
    BY <2>1, <1>1, <1>4, <1>5, <1>6, <1>9
  <2>2. CASE node.direction # "Vertical"
    BY <2>2, <1>1, <1>4, <1>5, <1>7, <1>9
  <2>3. QED
    BY <2>1, <2>2
<1> HIDE DEF In
<1>16. \A a, b, c, d : <<a, b>> = <<c, d>> => a = c /\ b = d
  OBVIOUS
<1>17. ASSUME NEW z, z \in Cells(first) PROVE z \in Cells(area) /\ z \notin Cells(second)
  <2>1. PICK a \in Int, b \in Int :
          z = <<a, b>> /\ In(a, b, first.x, first.y, first.width, first.height)
    BY <1>12, <1>17
  <2>2. /\ In(a, b, X, Y, W, H)
        /\ ~ In(a, b, second.x, second.y, second.width, second.height)
    BY <1>15, <2>1
  <2>3. z \in Cells(area)
    BY <1>11, <2>1, <2>2
  <2>4. z \notin Cells(second)
    <3>1. SUFFICES ASSUME z \in Cells(second) PROVE FALSE
      OBVIOUS
    <3>2. PICK c \in Int, d \in Int :
            z = <<c, d>> /\ In(c, d, second.x, second.y, second.width, second.height)
      BY <1>13, <3>1
    <3>3. a = c /\ b = d
      BY <1>16, <2>1, <3>2
    <3>4. QED
      BY <2>2, <3>2, <3>3
  <2>5. QED
    BY <2>3, <2>4
<1>18. ASSUME NEW z, z \in Cells(second) PROVE z \in Cells(area)
  BY <1>11, <1>13, <1>15, <1>18
<1>19. ASSUME NEW z, z \in Cells(area)
       PROVE  z \in Cells(first) \/ z \in Cells(second) \/ z \in Cells(line)
  BY <1>11, <1>12, <1>13, <1>14, <1>15, <1>19
<1>20. QED
  BY <1>17, <1>18, <1>19 DEF first, second, line

(* The cells of the nodes of a tree: those of a half are cells of the area it *)
(* is half of, nodes at the same depth share none, and a leaf shares none with *)
(* a node that is deeper.                                                      *)
LEMMA TreeCells ==
  ASSUME NEW T, NEW root, IsTree(root, T), NEW area \in Rectangles
  PROVE  LET rects == Rects(root, area)
             Has(p, z) == z \in Cells(rects[p])
         IN
         /\ \A p \in DOMAIN root \ Leaves(root) :
              /\ \A i \in {1, 2} : rects[Append(p, i)] = SplitRect(rects[p], root[p])[i]
              /\ \A z : Has(p, z) => \/ Has(Append(p, 1), z) \/ Has(Append(p, 2), z)
                                     \/ z \in Cells(Separator(rects[p], root[p]))
         /\ \A p \in DOMAIN root \ {<<>>} : \A z : Has(p, z) => Has(Front(p), z)
         /\ \A p, q \in DOMAIN root : \A z :
              Len(p) = Len(q) /\ Has(p, z) /\ Has(q, z) => p = q
         /\ \A p \in Leaves(root), q \in DOMAIN root : \A z :
              Has(p, z) /\ Has(q, z) => Len(q) <= Len(p)
<1> DEFINE rects == Rects(root, area)
           D == DOMAIN root
           Has(p, z) == z \in Cells(rects[p])
<1>1. /\ D \subseteq Positions /\ <<>> \in D /\ Leaves(root) \subseteq D
      /\ IsFiniteSet(D)
      /\ \A p \in D \ Leaves(root) :
           /\ root[p] \in [direction : Directions, ratio : MinRatio .. MaxRatio]
           /\ \A i \in {1, 2} : Append(p, i) \in D
  BY TreeFacts
<1>2. /\ \A p \in D : rects[p] \in Rectangles
      /\ rects[<<>>] = area
      /\ \A p \in D \ {<<>>} : rects[p] = SplitRect(rects[Front(p)], root[Front(p)])[Last(p)]
  BY RectsFacts
<1>3. \A p \in Positions : Len(p) \in Nat /\ (Len(p) = 0 <=> p = <<>>)
  BY EmptySeq, LenProperties DEF Positions
<1>4. \A p \in D \ {<<>>} :
        /\ Front(p) \in D \ Leaves(root) /\ Last(p) \in {1, 2} /\ Len(p) = Len(Front(p)) + 1
        /\ p = Append(Front(p), Last(p)) /\ Front(p) \in Positions
  BY AboveIsSplit
<1> HIDE DEF rects
<1>5. ASSUME NEW p \in D \ Leaves(root)
      PROVE  /\ \A i \in {1, 2} : rects[Append(p, i)] = SplitRect(rects[p], root[p])[i]
             /\ \A z : /\ Has(Append(p, 1), z) => Has(p, z) /\ ~ Has(Append(p, 2), z)
                       /\ Has(Append(p, 2), z) => Has(p, z)
                       /\ Has(p, z) => \/ Has(Append(p, 1), z) \/ Has(Append(p, 2), z)
                                       \/ z \in Cells(Separator(rects[p], root[p]))
  <2>1. ASSUME NEW i \in {1, 2} PROVE rects[Append(p, i)] = SplitRect(rects[p], root[p])[i]
    <3> DEFINE c == Append(p, i)
    <3>1. c \in D /\ c # <<>> /\ Front(c) = p /\ Last(c) = i
      BY <1>1, AppendFacts
    <3> HIDE DEF c
    <3>2. rects[c] = SplitRect(rects[p], root[p])[i]
      BY <1>2, <3>1
    <3>3. QED
      BY <3>2 DEF c
  <2> DEFINE A == rects[p]
             n == root[p]
             first == SplitRect(A, n)[1]
             second == SplitRect(A, n)[2]
  <2>2. A \in Rectangles /\ n \in [direction : Directions, ratio : MinRatio .. MaxRatio]
    BY <1>1, <1>2
  <2>3. rects[Append(p, 1)] = first /\ rects[Append(p, 2)] = second
    BY <2>1
  <2> HIDE DEF A, n
  <2>4. /\ \A z : z \in Cells(first) => z \in Cells(A) /\ z \notin Cells(second)
        /\ \A z : z \in Cells(second) => z \in Cells(A)
        /\ \A z : z \in Cells(A) => \/ z \in Cells(first) \/ z \in Cells(second)
                                    \/ z \in Cells(Separator(A, n))
    BY <2>2, HalvesTile
  <2> HIDE DEF first, second
  <2>5. \A z : /\ Has(Append(p, 1), z) => Has(p, z) /\ ~ Has(Append(p, 2), z)
               /\ Has(Append(p, 2), z) => Has(p, z)
               /\ Has(p, z) => \/ Has(Append(p, 1), z) \/ Has(Append(p, 2), z)
                               \/ z \in Cells(Separator(rects[p], root[p]))
    BY <2>3, <2>4 DEF A, n
  <2>6. QED
    BY <2>1, <2>5
<1> HIDE DEF Has, D
<1>6. ASSUME NEW p \in D \ {<<>>}, NEW z, Has(p, z) PROVE Has(Front(p), z)
  <2> DEFINE f == Front(p)
  <2>1. f \in D \ Leaves(root) /\ (p = Append(f, 1) \/ p = Append(f, 2))
    BY <1>4
  <2> HIDE DEF f
  <2>2. Has(f, z)
    BY <1>5, <1>6, <2>1
  <2>3. QED
    BY <2>2 DEF f
<1>7. ASSUME NEW z, NEW n \in Nat, NEW p \in D, NEW q \in D, Len(p) = n, Len(q) = n,
             Has(p, z), Has(q, z)
      PROVE  p = q
  <2> DEFINE Same(k) == \A a, b \in D : Len(a) = k /\ Len(b) = k /\ Has(a, z) /\ Has(b, z)
                                          => a = b
             S == {k \in Nat : Same(k)}
  <2>1. 0 \in S
    <3>1. \A a \in D : Len(a) = 0 => a = <<>>
      BY <1>1, <1>3
    <3>2. Same(0)
      BY <3>1
    <3>3. QED
      BY <3>2
  <2>2. ASSUME NEW k \in Nat, k \in S PROVE k + 1 \in S
    <3>1. SUFFICES ASSUME NEW a \in D, NEW b \in D, Len(a) = k + 1, Len(b) = k + 1,
                          Has(a, z), Has(b, z)
                   PROVE  a = b
      <4>1. SUFFICES Same(k + 1)
        OBVIOUS
      <4>2. QED
        OBVIOUS
    <3>2. a # <<>> /\ b # <<>>
      BY <1>1, <1>3, <3>1
    <3>3. /\ Has(Front(a), z) /\ Front(a) \in D /\ Len(Front(a)) = k
          /\ Has(Front(b), z) /\ Front(b) \in D /\ Len(Front(b)) = k
      BY <1>3, <1>4, <1>6, <3>1, <3>2
    <3>4. Front(a) = Front(b)
      BY <2>2, <3>3
    <3> DEFINE f == Front(a)
    <3>5. /\ f \in D \ Leaves(root)
          /\ a = Append(f, 1) \/ a = Append(f, 2)
          /\ b = Append(f, 1) \/ b = Append(f, 2)
      BY <1>4, <3>2, <3>4
    <3> HIDE DEF f
    <3>6. ~ (Has(Append(f, 1), z) /\ Has(Append(f, 2), z))
      BY <1>5, <3>5
    <3> DEFINE f1 == Append(f, 1)
               f2 == Append(f, 2)
    <3> HIDE DEF f1, f2
    <3>7. (a = f1 \/ a = f2) /\ (b = f1 \/ b = f2) /\ ~ (Has(f1, z) /\ Has(f2, z))
      BY <3>5, <3>6 DEF f1, f2
    <3>8. QED
      BY <3>1, <3>7
  <2>3. \A k \in Nat : k \in S
    <3> HIDE DEF S
    <3>1. QED
      BY <2>1, <2>2, NatSetInduction
  <2>4. n \in S
    BY <2>3
  <2>5. QED
    BY <1>7, <2>4
<1>8. ASSUME NEW z, NEW p \in Leaves(root), Has(p, z), NEW q \in D, Has(q, z)
      PROVE  Len(q) <= Len(p)
  <2> DEFINE S == {k \in Nat : \A a \in D : Len(a) = Len(p) + k + 1 => ~ Has(a, z)}
  <2>1. p \in D /\ Len(p) \in Nat /\ Len(q) \in Nat
    BY <1>1, <1>3
  <2>2. ASSUME NEW a \in D, Len(a) > Len(p)
        PROVE  /\ a # <<>> /\ Front(a) \in D \ Leaves(root) /\ Len(Front(a)) = Len(a) - 1
               /\ Has(a, z) => Has(Front(a), z)
    <3>1. a # <<>> /\ Len(a) \in Nat
      BY <1>1, <1>3, <2>1, <2>2
    <3>2. Front(a) \in D \ Leaves(root) /\ Len(a) = Len(Front(a)) + 1 /\ Len(Front(a)) \in Nat
      BY <1>3, <1>4, <3>1
    <3>3. QED
      BY <1>6, <3>1, <3>2
  <2>3. 0 \in S
    <3>1. SUFFICES ASSUME NEW a \in D, Len(a) = Len(p) + 1, Has(a, z) PROVE FALSE
      BY <2>1
    <3>2. Front(a) \in D \ Leaves(root) /\ Len(Front(a)) = Len(p) /\ Has(Front(a), z)
      BY <2>1, <2>2, <3>1
    <3>3. Front(a) = p
      BY <1>7, <1>8, <2>1, <3>2
    <3>4. QED
      BY <3>2, <3>3
  <2>4. ASSUME NEW k \in Nat, k \in S PROVE k + 1 \in S
    <3>1. SUFFICES ASSUME NEW a \in D, Len(a) = Len(p) + (k + 1) + 1, Has(a, z) PROVE FALSE
      OBVIOUS
    <3>2. Front(a) \in D /\ Len(Front(a)) = Len(p) + k + 1 /\ Has(Front(a), z)
      BY <2>1, <2>2, <3>1
    <3>3. QED
      BY <2>4, <3>2
  <2>5. \A k \in Nat : k \in S
    <3> HIDE DEF S
    <3>1. QED
      BY <2>3, <2>4, NatSetInduction
  <2>6. SUFFICES ASSUME Len(q) > Len(p) PROVE FALSE
    BY <2>1
  <2> DEFINE k == Len(q) - Len(p) - 1
  <2>7. k \in Nat /\ Len(q) = Len(p) + k + 1
    BY <2>1, <2>6
  <2> HIDE DEF k
  <2>8. k \in S
    BY <2>5, <2>7
  <2>9. QED
    BY <1>8, <2>1, <2>7, <2>8
<1>9. \A p \in D \ Leaves(root) :
        /\ \A i \in {1, 2} : rects[Append(p, i)] = SplitRect(rects[p], root[p])[i]
        /\ \A z : Has(p, z) => \/ Has(Append(p, 1), z) \/ Has(Append(p, 2), z)
                               \/ z \in Cells(Separator(rects[p], root[p]))
  BY <1>5
<1>10. \A p, q \in D : \A z : Len(p) = Len(q) /\ Has(p, z) /\ Has(q, z) => p = q
  <2>1. SUFFICES ASSUME NEW p \in D, NEW q \in D, NEW z, Len(p) = Len(q), Has(p, z), Has(q, z)
                 PROVE  p = q
    OBVIOUS
  <2>2. Len(p) \in Nat
    BY <1>1, <1>3
  <2>3. QED
    BY <1>7, <2>1, <2>2
<1>11. \A p \in Leaves(root), q \in D : \A z : Has(p, z) /\ Has(q, z) => Len(q) <= Len(p)
  BY <1>8
<1>12. \A p \in D \ {<<>>} : \A z : Has(p, z) => Has(Front(p), z)
  BY <1>6
<1>13. QED
  BY <1>9, <1>10, <1>11, <1>12 DEF Has, D, rects

(* The panes of a tree: they are in the area, do not overlap, and leave only *)
(* lines out.                                                                *)
LEMMA TreeTiles ==
  ASSUME NEW T, NEW root, IsTree(root, T), NEW area \in Rectangles
  PROVE  LET rects == Rects(root, area) IN
         /\ \A p \in DOMAIN root : \A z : z \in Cells(rects[p]) => z \in Cells(area)
         /\ \A p, q \in Leaves(root) : \A z : z \in Cells(rects[p]) /\ z \in Cells(rects[q]) => p = q
         /\ \A z : z \in Cells(area) =>
              \/ \E p \in Leaves(root) : z \in Cells(rects[p])
              \/ \E p \in DOMAIN root \ Leaves(root) : z \in Cells(Separator(rects[p], root[p]))
<1> DEFINE rects == Rects(root, area)
           D == DOMAIN root
           Has(p, z) == z \in Cells(rects[p])
<1>1. /\ D \subseteq Positions /\ <<>> \in D /\ Leaves(root) \subseteq D
      /\ IsFiniteSet(D)
      /\ \A p \in D \ Leaves(root) :
           /\ root[p] \in [direction : Directions, ratio : MinRatio .. MaxRatio]
           /\ \A i \in {1, 2} : Append(p, i) \in D
  BY TreeFacts
<1>2. /\ \A p \in D : rects[p] \in Rectangles
      /\ rects[<<>>] = area
      /\ \A p \in D \ {<<>>} : rects[p] = SplitRect(rects[Front(p)], root[Front(p)])[Last(p)]
  BY RectsFacts
<1>3. \A p \in Positions : Len(p) \in Nat /\ (Len(p) = 0 <=> p = <<>>)
  BY EmptySeq, LenProperties DEF Positions
<1>4. \A p \in D \ {<<>>} :
        /\ Front(p) \in D \ Leaves(root) /\ Last(p) \in {1, 2} /\ Len(p) = Len(Front(p)) + 1
        /\ p = Append(Front(p), Last(p)) /\ Front(p) \in Positions
  BY AboveIsSplit
<1> HIDE DEF rects
<1>5. /\ \A p \in D \ Leaves(root) : \A z :
           Has(p, z) => \/ Has(Append(p, 1), z) \/ Has(Append(p, 2), z)
                        \/ z \in Cells(Separator(rects[p], root[p]))
      /\ \A p \in D \ {<<>>} : \A z : Has(p, z) => Has(Front(p), z)
      /\ \A p, q \in D : \A z : Len(p) = Len(q) /\ Has(p, z) /\ Has(q, z) => p = q
      /\ \A p \in Leaves(root), q \in D : \A z : Has(p, z) /\ Has(q, z) => Len(q) <= Len(p)
  BY TreeCells DEF rects
<1> HIDE DEF Has, D
<1>6. ASSUME NEW p \in D, NEW z, Has(p, z) PROVE Has(<<>>, z)
  <2> DEFINE S == {n \in Nat : \A q \in D : Len(q) = n /\ Has(q, z) => Has(<<>>, z)}
  <2>1. 0 \in S
    BY <1>1, <1>3
  <2>2. ASSUME NEW n \in Nat, n \in S PROVE n + 1 \in S
    <3>1. SUFFICES ASSUME NEW q \in D, Len(q) = n + 1, Has(q, z) PROVE Has(<<>>, z)
      OBVIOUS
    <3>2. q # <<>>
      BY <1>1, <1>3, <3>1
    <3>3. Has(Front(q), z) /\ Front(q) \in D /\ Len(Front(q)) = n
      BY <1>3, <1>4, <1>5, <3>1, <3>2
    <3>4. QED
      BY <2>2, <3>3
  <2>3. \A n \in Nat : n \in S
    <3> HIDE DEF S
    <3>1. QED
      BY <2>1, <2>2, NatSetInduction
  <2>4. Len(p) \in S
    BY <1>1, <1>3, <2>3
  <2>5. QED
    BY <1>6, <2>4
<1>7. ASSUME NEW p \in Leaves(root), NEW q \in Leaves(root), NEW z, Has(p, z), Has(q, z)
       PROVE  p = q
  <2>1. p \in D /\ q \in D /\ Len(p) \in Nat /\ Len(q) \in Nat
    BY <1>1, <1>3
  <2>2. Len(p) <= Len(q) /\ Len(q) <= Len(p)
    BY <1>5, <1>7, <2>1
  <2>3. Len(p) = Len(q)
    BY <2>1, <2>2
  <2>4. QED
    BY <1>5, <1>7, <2>1, <2>3
<1>8. ASSUME NEW z, Has(<<>>, z),
              \A p \in D \ Leaves(root) : z \notin Cells(Separator(rects[p], root[p]))
       PROVE  \E p \in Leaves(root) : Has(p, z)
  <2>1. SUFFICES ASSUME \A p \in Leaves(root) : ~ Has(p, z) PROVE FALSE
    OBVIOUS
  <2> DEFINE S == {n \in Nat : \E p \in D : Len(p) = n /\ Has(p, z)}
  <2>2. 0 \in S
    BY <1>1, <1>3, <1>8
  <2>3. ASSUME NEW n \in Nat, n \in S PROVE n + 1 \in S
    <3>1. PICK p \in D : Len(p) = n /\ Has(p, z)
      BY <2>3
    <3>2. p \in D \ Leaves(root) /\ p \in Positions
      BY <1>1, <2>1, <3>1
    <3>3. PICK i \in {1, 2} : Has(Append(p, i), z)
      BY <1>5, <1>8, <3>1, <3>2
    <3> DEFINE c == Append(p, i)
    <3>4. c \in D /\ Len(c) = n + 1 /\ Has(c, z)
      BY <1>1, <3>1, <3>2, <3>3, AppendFacts
    <3> HIDE DEF c
    <3>5. QED
      BY <3>4
  <2>4. \A n \in Nat : n \in S
    <3> HIDE DEF S
    <3>1. QED
      BY <2>2, <2>3, NatSetInduction
  <2>5. PICK n \in Nat : \A p \in D : Len(p) <= n
    BY <1>1, LengthsAreBounded
  <2>6. n + 1 \in S
    BY <2>4
  <2>7. QED
    BY <2>5, <2>6
<1>9. QED
  BY <1>2, <1>6, <1>7, <1>8 DEF Has, D, rects

-----------------------------------------------------------------------------
(* The theorems about what clients show *)

(* What the invariant says of a client that shows panes. *)
LEMMA InUsePhase ==
  ASSUME Inv, NEW c \in Shown
  PROVE  ShownOK(session[c], mux[c], terms, drawn)
<1>1. c \in Clients /\ session[c].at \notin {"off", "attaching"}
  BY DEF Shown
<1>2. SessionOK(session[c], mux[c], terms, drawn)
  BY <1>1 DEF Inv
<1>3. Off.at = "off"
  BY DEF Off
<1>4. QED
  BY <1>1, <1>2, <1>3 DEF SessionOK, AttachingOK

(* PanesTile: in a window of any size, and for a tree of any shape, the panes do
   not overlap, none leaves the area and only separators cover the rest
   (compute_rects, tui/layout.rs). *)
THEOREM TilesCorrect == Spec => []PanesTile
<1>1. Inv => PanesTile
  <2> SUFFICES ASSUME Inv, NEW c \in Shown
               PROVE  LET root   == session[c].layout.root
                          area   == session[c].area
                          rects  == Rects(root, area)
                          panes  == {Cells(rects[p]) : p \in Leaves(root)}
                          lines  == {Cells(Separator(rects[p], root[p])) :
                                       p \in DOMAIN root \ Leaves(root)}
                      IN  /\ UNION panes \subseteq Cells(area)
                          /\ Cells(area) \subseteq UNION (panes \cup lines)
                          /\ \A p, q \in Leaves(root) :
                               p # q => Cells(rects[p]) \cap Cells(rects[q]) = {}
    BY DEF PanesTile
  <2> DEFINE root == session[c].layout.root
             area == session[c].area
             rects == Rects(root, area)
             panes == {Cells(rects[p]) : p \in Leaves(root)}
             lines == {Cells(Separator(rects[p], root[p])) : p \in DOMAIN root \ Leaves(root)}
  <2>1. ShownOK(session[c], mux[c], terms, drawn)
    BY InUsePhase
  <2>2. IsTree(root, drawn) /\ area \in Rectangles
    <3>1. session[c].area \in Areas
      BY <2>1 DEF ShownOK
    <3>2. QED
      BY <2>1, <3>1, AreasAssumption DEF ShownOK, Sound
  <2> HIDE DEF root, area
  <2>3. /\ \A p \in DOMAIN root : \A z : z \in Cells(rects[p]) => z \in Cells(area)
        /\ \A p, q \in Leaves(root) : \A z : z \in Cells(rects[p]) /\ z \in Cells(rects[q]) => p = q
        /\ \A z : z \in Cells(area) =>
             \/ \E p \in Leaves(root) : z \in Cells(rects[p])
             \/ \E p \in DOMAIN root \ Leaves(root) : z \in Cells(Separator(rects[p], root[p]))
    BY <2>2, TreeTiles
  <2>4. Leaves(root) \subseteq DOMAIN root
    BY DEF Leaves
  <2> HIDE DEF rects
  <2>5. UNION panes \subseteq Cells(area)
    BY <2>3, <2>4
  <2>6. Cells(area) \subseteq UNION (panes \cup lines)
    BY <2>3
  <2>7. \A p, q \in Leaves(root) : p # q => Cells(rects[p]) \cap Cells(rects[q]) = {}
    BY <2>3
  <2>8. QED
    BY <2>5, <2>6, <2>7 DEF panes, lines, rects, root, area
<1>2. QED
  BY AlwaysInv, <1>1, PTL

(* ResizeFollowsKey: Right and Down never take from the focused pane, Left and Up
   never add to it, whichever halves of how many splits it is in (resize_focused). *)
THEOREM ResizeCorrect == Spec => ResizeFollowsKey
<1>1. ASSUME Inv, NEW c \in Clients, NEW key \in Keys, PaneResize(c, key)
      PROVE  LET before == FocusedRect(session[c])
                 after  == FocusedRect(session'[c])
             IN  IF key \in {"Right", "Down"}
                 THEN after.width >= before.width /\ after.height >= before.height
                 ELSE after.width <= before.width /\ after.height <= before.height
  <2> DEFINE s == session[c]
             n == session'[c]
             layout == s.layout
             resized == ResizeFocused(layout, key, Delta)
             area == s.area
             before == FocusedRect(s)
             after == FocusedRect(n)
  <2>1. s.at = "run" /\ s.at \in Phases
    BY <1>1, PhaseFacts DEF PaneResize, On
  <2>2. /\ s = Showing(s.at, s.view_id, s.layout, s.restored, s.vterms, s.area, s.todo)
        /\ Sound(layout, drawn) /\ area \in Areas
    BY <1>1, <2>1, ShownFacts
  <2>3. n.layout = resized /\ n.area = area
    <3> DEFINE at == IF s.view_id = None THEN "run" ELSE "syncing"
    <3>1. session' = [session EXCEPT ![c] = [[s EXCEPT !.layout = resized] EXCEPT !.at = at]]
      BY <1>1 DEF PaneResize, Goes
    <3>2. n = [[s EXCEPT !.layout = resized] EXCEPT !.at = at]
      BY <1>1, <3>1 DEF Inv
    <3> HIDE DEF s, n, resized, at
    <3>3. [s EXCEPT !.layout = resized]
            = Showing(s.at, s.view_id, resized, s.restored, s.vterms, s.area, s.todo)
      BY <2>2, ShowingUpdates
    <3>4. n = [Showing(s.at, s.view_id, resized, s.restored, s.vterms, s.area, s.todo)
                 EXCEPT !.at = at]
      BY <3>2, <3>3
    <3>5. QED
      BY <3>4 DEF Showing
  <2>4. area \in Rectangles /\ Delta \in Nat
    BY <2>2, AreasAssumption, DeltaAssumption
  <2>5. /\ before = Rects(layout.root, area)[PathOf(layout.root, layout.focused)]
        /\ after = Rects(resized.root, area)[PathOf(resized.root, resized.focused)]
    BY <2>3 DEF FocusedRect
  <2> HIDE DEF s, n, layout, area, before, after
  <2>6. IF key \in {"Right", "Down"} THEN Within(before, after) ELSE Within(after, before)
    BY <2>2, <2>4, <2>5, ResizeGrows
  <2>7. IF key \in {"Right", "Down"}
        THEN before.width <= after.width /\ before.height <= after.height
        ELSE after.width <= before.width /\ after.height <= before.height
    BY <2>6 DEF Within
  <2>8. \A x, y : x <= y => y >= x
    OBVIOUS
  <2> HIDE DEF resized
  <2>9. QED
    BY <2>7, <2>8 DEF before, after, s, n
<1>2. Inv /\ [Next]_vars =>
        [\A c \in Clients, key \in Keys :
           PaneResize(c, key) =>
             LET before == FocusedRect(session[c])
                 after  == FocusedRect(session'[c])
             IN  IF key \in {"Right", "Down"}
                 THEN after.width >= before.width /\ after.height >= before.height
                 ELSE after.width <= before.width /\ after.height <= before.height]_vars
  BY <1>1
<1>3. QED
  BY AlwaysInv, <1>2, PTL DEF Spec, ResizeFollowsKey

-----------------------------------------------------------------------------
(* Room for a split *)

(* A client in the middle of a split found room for it. *)
HasRoom(s) == s.at \in Directions => ~ TooSmall(s, s.at)

(* No client is in the middle of a split there is no room for. *)
FitInv == \A c \in Clients : HasRoom(session[c])

(* A step of one client. *)
LEMMA OneHasRoom ==
  ASSUME Inv, FitInv, NEW c \in Clients, NEW s, session' = [session EXCEPT ![c] = s], HasRoom(s)
  PROVE  FitInv'
<1>1. ASSUME NEW w \in Clients PROVE HasRoom(session'[w])
  BY DEF Inv, FitInv
<1> HIDE DEF HasRoom
<1>2. \A w \in Clients : HasRoom(session'[w])
  BY <1>1
<1>3. QED
  BY <1>2 DEF FitInv, HasRoom, TooSmall, FocusedRect

(* A step to where no split is. *)
LEMMA GoesElsewhere ==
  ASSUME Inv, FitInv, NEW c \in Clients, NEW at, at \notin Directions,
         NEW f, "at" \in DOMAIN f, Goes(c, at, f)
  PROVE  FitInv'
<1> DEFINE s == [f EXCEPT !.at = at]
<1>1. session' = [session EXCEPT ![c] = s]
  BY DEF Goes
<1>2. s.at = at
  OBVIOUS
<1> HIDE DEF s
<1>3. HasRoom(s)
  BY <1>2 DEF HasRoom
<1>4. QED
  BY <1>1, <1>3, OneHasRoom

(* The phases of the other handlers. *)
LEMMA NoSplit ==
  /\ \A at \in {"off", "attaching", "run", "undo", "adding", "removing", "syncing", "switching"} :
       at \notin Directions
  /\ \A c \in Clients : Inv /\ session[c].at \in Phases => "at" \in DOMAIN session[c]
<1>1. \A at \in {"off", "attaching", "run", "undo", "adding", "removing", "syncing", "switching"} :
        at \notin Directions
  BY DEF Directions
<1>2. ASSUME NEW c \in Clients, Inv, session[c].at \in Phases PROVE "at" \in DOMAIN session[c]
  <2> DEFINE s == session[c]
  <2>1. s = Showing(s.at, s.view_id, s.layout, s.restored, s.vterms, s.area, s.todo)
    BY <1>2, ShownFacts
  <2>2. DOMAIN Showing(s.at, s.view_id, s.layout, s.restored, s.vterms, s.area, s.todo)
          = {"at", "view_id", "layout", "restored", "vterms", "area", "todo"}
    BY DEF Showing
  <2> HIDE DEF s
  <2>3. "at" \in DOMAIN s
    BY <2>1, <2>2
  <2>4. QED
    BY <2>3 DEF s
<1>3. QED
  BY <1>1, <1>2

(* A handler that splits a pane has found room: it changes neither the layout *)
(* nor the area while it waits for the new terminal.                          *)
LEMMA SplitCreateFits ==
  ASSUME Inv, FitInv, NEW c \in Clients, NEW dir \in Directions, NEW new \in TermIds,
         SplitCreate(c, dir, new)
  PROVE  FitInv'
<1> DEFINE s == session[c]
           r == Showing(dir, s.view_id, s.layout, s.restored, s.vterms, s.area, <<new>>)
<1>1. s.at = "run" /\ ~ TooSmall(s, dir) /\ Goes(c, dir, [s EXCEPT !.todo = <<new>>])
  BY DEF SplitCreate, On
<1>2. s.at \in Phases
  BY <1>1, PhaseFacts
<1>3. s = Showing(s.at, s.view_id, s.layout, s.restored, s.vterms, s.area, s.todo)
  BY <1>2, ShownFacts
<1> HIDE DEF s
<1>4. session' = [session EXCEPT ![c] = r]
  <2>1. [s EXCEPT !.todo = <<new>>]
          = Showing(s.at, s.view_id, s.layout, s.restored, s.vterms, s.area, <<new>>)
    BY <1>3, ShowingUpdates
  <2>2. QED
    BY <1>1, <2>1, GoesFacts
<1>5. r.at = dir /\ r.layout = s.layout /\ r.area = s.area
  BY DEF Showing
<1> HIDE DEF r
<1>6. ~ TooSmall(r, dir)
  BY <1>1, <1>5 DEF TooSmall, FocusedRect
<1>7. HasRoom(r)
  BY <1>5, <1>6 DEF HasRoom
<1>8. QED
  BY <1>4, <1>7, OneHasRoom

(* The invariant is kept. *)
LEMMA NextFits == Inv /\ FitInv /\ [Next]_vars => FitInv'
<1> SUFFICES ASSUME Inv, FitInv, [Next]_vars PROVE FitInv'
  OBVIOUS
<1> DEFINE At(f) == "at" \in DOMAIN f
<1>1. ASSUME NEW c \in Clients, NEW v \in Views, ViewAttach(c, v) PROVE FitInv'
  <2> DEFINE s == [at |-> "attaching", view_id |-> v, ids |-> views[v].terminal_ids,
                   saved |-> views[v].layout]
  <2>1. session' = [session EXCEPT ![c] = s]
    BY <1>1 DEF ViewAttach
  <2>2. HasRoom(s)
    BY NoSplit DEF HasRoom
  <2> HIDE DEF s
  <2>3. QED
    BY <2>1, <2>2, OneHasRoom
<1>2. ASSUME NEW c \in Clients, NEW t \in terms, TerminalAttach(c, t) PROVE FitInv'
  <2> DEFINE s == [at |-> "attaching", view_id |-> None, ids |-> <<t>>, saved |-> None]
  <2>1. session' = [session EXCEPT ![c] = s]
    BY <1>2 DEF TerminalAttach
  <2>2. HasRoom(s)
    BY NoSplit DEF HasRoom
  <2> HIDE DEF s
  <2>3. QED
    BY <2>1, <2>2, OneHasRoom
<1>3. HasRoom(Off)
  BY NoSplit DEF HasRoom, Off
<1>4. ASSUME NEW c \in Clients, Leave(c) PROVE FitInv'
  BY <1>3, <1>4, OneHasRoom DEF Leave
<1>5. ASSUME NEW c \in Clients, MultiplexAttach(c) PROVE FitInv'
  <2> DEFINE old == session[c]
             Open(area) == [at |-> "run", view_id |-> old.view_id,
                            layout |-> Opened(old.ids, old.saved),
                            restored |-> IF old.saved = None THEN {} ELSE Panes(old.saved.root),
                            vterms |-> ToSet(old.ids), area |-> area, todo |-> <<>>]
  <2>1. PICK area \in Areas :
          session' = [session EXCEPT ![c] = IF mux'[c] = {} THEN Off ELSE Open(area)]
    BY <1>5 DEF MultiplexAttach
  <2>2. HasRoom(Open(area))
    BY NoSplit DEF HasRoom
  <2> HIDE DEF Open
  <2>3. HasRoom(IF mux'[c] = {} THEN Off ELSE Open(area))
    BY <1>3, <2>2
  <2>4. QED
    BY <2>1, <2>3, OneHasRoom
<1>6. ASSUME NEW c \in Clients, NEW at, at \notin Directions, NEW f, At(f), Goes(c, at, f)
      PROVE  FitInv'
  BY <1>6, GoesElsewhere
<1>7. \A c \in Clients : session[c].at \in Phases => At(session[c])
  BY NoSplit
<1>8. \A f : At(f) =>
        /\ \A l : At([f EXCEPT !.layout = l])
        /\ \A a : At([f EXCEPT !.area = a])
        /\ \A w, l : At([f EXCEPT !.vterms = w, !.layout = l])
        /\ \A l, w, q : At([f EXCEPT !.layout = l, !.vterms = w, !.todo = q])
        /\ \A q, w, l : At([f EXCEPT !.todo = q, !.vterms = w, !.layout = l])
        /\ \A w, r, l, q : At(Switched(f, w, r, l, q))
  BY DEF Switched
<1> HIDE DEF At
<1>9. ASSUME NEW c \in Clients, NEW dir \in Directions, SplitAdd(c, dir) PROVE FitInv'
  <2> DEFINE s == session[c]
             new == Head(s.todo)
             w == s.vterms \cup {new}
             l == SplitFocused(s.layout, dir, new)
             at == IF s.view_id = None THEN "run" ELSE "adding"
  <2>1. s.at \in Phases
    BY <1>9, PhaseFacts DEF SplitAdd
  <2>2. At(s)
    BY <1>7, <2>1
  <2>3. \/ Goes(c, at, [s EXCEPT !.vterms = w, !.layout = l])
        \/ Goes(c, "undo", s)
    BY <1>9 DEF SplitAdd
  <2>4. at \notin Directions /\ "undo" \notin Directions
    BY NoSplit
  <2> HIDE DEF s, w, l, at
  <2>5. At([s EXCEPT !.vterms = w, !.layout = l])
    BY <1>8, <2>2, Zenon
  <2>6. QED
    BY <1>6, <2>2, <2>3, <2>4, <2>5
<1>10. ASSUME NEW c \in Clients, SplitUndo(c) \/ SplitView(c) \/ SyncLayout(c) \/ CloseView(c)
       PROVE  FitInv'
  <2>1. /\ session[c].at \in Phases
        /\ Goes(c, "run", session[c]) \/ Goes(c, "syncing", session[c])
    BY <1>10, PhaseFacts DEF SplitUndo, SplitView, SyncLayout, CloseView
  <2>2. QED
    BY <1>6, <1>7, <2>1, NoSplit
<1>11. ASSUME NEW c \in Clients, SwitchTerminal(c) PROVE FitInv'
  <2> DEFINE s == session[c]
             t == Head(s.todo)
             q == Tail(s.todo)
             w == IF t \in terms THEN s.vterms \cup {t} ELSE s.vterms
             l == IF t \in terms \cup s.vterms /\ t \notin Panes(s.layout.root)
                  THEN SplitFocused(s.layout, "Vertical", t) ELSE s.layout
             at == IF Len(s.todo) = 1 THEN "run" ELSE "switching"
  <2>1. s.at \in Phases /\ Goes(c, at, [s EXCEPT !.todo = q, !.vterms = w, !.layout = l])
    BY <1>11, PhaseFacts DEF SwitchTerminal
  <2>2. At(s)
    BY <1>7, <2>1
  <2>3. at \notin Directions
    BY NoSplit
  <2> HIDE DEF s, q, w, l, at
  <2>4. At([s EXCEPT !.todo = q, !.vterms = w, !.layout = l])
    BY <1>8, <2>2, Zenon
  <2>5. QED
    BY <1>6, <2>1, <2>3, <2>4
<1>12. ASSUME NEW c \in Clients, CloseRemove(c) PROVE FitInv'
  <2> DEFINE s == session[c]
             closed == s.layout.focused
             q == <<closed>>
             w == s.vterms \ {closed}
             l == CloseFocused(s.layout)
             at == IF s.view_id = None THEN "run" ELSE "removing"
  <2>1. s.at \in Phases /\ Goes(c, at, [s EXCEPT !.layout = l, !.vterms = w, !.todo = q])
    BY <1>12, PhaseFacts DEF CloseRemove, On
  <2>2. At(s)
    BY <1>7, <2>1
  <2>3. at \notin Directions
    BY NoSplit
  <2> HIDE DEF s, q, w, l, at
  <2>4. At([s EXCEPT !.layout = l, !.vterms = w, !.todo = q])
    BY <1>8, <2>2, Zenon
  <2>5. QED
    BY <1>6, <2>1, <2>3, <2>4
<1>13. ASSUME NEW c \in Clients, NEW key \in Keys, PaneResize(c, key) PROVE FitInv'
  <2> DEFINE s == session[c]
             l == ResizeFocused(s.layout, key, Delta)
             at == IF s.view_id = None THEN "run" ELSE "syncing"
  <2>1. s.at \in Phases /\ Goes(c, at, [s EXCEPT !.layout = l])
    BY <1>13, PhaseFacts DEF PaneResize, On
  <2>2. At(s) /\ at \notin Directions
    BY <1>7, <2>1, NoSplit
  <2> HIDE DEF s, l, at
  <2>3. At([s EXCEPT !.layout = l])
    BY <1>8, <2>2, Zenon
  <2>4. QED
    BY <1>6, <2>1, <2>2, <2>3
<1>14. ASSUME NEW c \in Clients, NEW key \in Keys, PaneNavigate(c, key) PROVE FitInv'
  <2> DEFINE s == session[c]
             l == Navigate(s.layout, key, s.area)
  <2>1. s.at \in Phases /\ Goes(c, "run", [s EXCEPT !.layout = l])
    BY <1>14, PhaseFacts DEF PaneNavigate, On
  <2>2. At(s) /\ "run" \notin Directions
    BY <1>7, <2>1, NoSplit
  <2> HIDE DEF s, l
  <2>3. At([s EXCEPT !.layout = l])
    BY <1>8, <2>2, Zenon
  <2>4. QED
    BY <1>6, <2>1, <2>2, <2>3
<1>15. ASSUME NEW c \in Clients, NEW area \in Areas, Resize(c, area) PROVE FitInv'
  <2> DEFINE s == session[c]
  <2>1. s.at \in Phases /\ Goes(c, "run", [s EXCEPT !.area = area])
    BY <1>15, PhaseFacts DEF Resize, On
  <2>2. At(s) /\ "run" \notin Directions
    BY <1>7, <2>1, NoSplit
  <2> HIDE DEF s
  <2>3. At([s EXCEPT !.area = area])
    BY <1>8, <2>2, Zenon
  <2>4. QED
    BY <1>6, <2>1, <2>2, <2>3
<1>16. ASSUME NEW c \in Clients, NEW v \in Views, ViewSwitch(c, v) PROVE FitInv'
  <2> DEFINE s == session[c]
             ids == views[v].terminal_ids
             w == s.vterms \cap ToSet(ids)
             l == New(Head(ids))
             none == {}
  <2>1. s.at \in Phases /\ Goes(c, "switching", Switched(s, w, none, l, ids))
    BY <1>16, PhaseFacts DEF ViewSwitch, On, Switched
  <2>2. At(s) /\ "switching" \notin Directions
    BY <1>7, <2>1, NoSplit
  <2> HIDE DEF s, w, l, ids, none
  <2>3. At(Switched(s, w, none, l, ids))
    BY <1>8, <2>2, Zenon
  <2>4. QED
    BY <1>6, <2>1, <2>2, <2>3
<1>17. CASE session' = session
  BY <1>17 DEF FitInv, HasRoom, TooSmall, FocusedRect
<1>18. ASSUME NEW c \in Clients, Handler(c) PROVE FitInv'
  BY <1>5, <1>9, <1>10, <1>11, <1>18 DEF Handler
<1>19. ASSUME NEW c \in Clients, Key(c) PROVE FitInv'
  BY <1>12, <1>13, <1>14, <1>15, <1>16, <1>19, SplitCreateFits DEF Key
<1>20. ASSUME NEW t \in TermIds, TerminalKill(t) \/ \E v \in Views : ViewAddTerminal(v, t)
       PROVE  FitInv'
  BY <1>17, <1>20 DEF TerminalKill, ViewAddTerminal
<1>21. QED
  BY <1>1, <1>2, <1>4, <1>17, <1>18, <1>19, <1>20 DEF Next, vars

(* SplitsFit: a split of a pane that is not empty, and that is not refused as too
   small, leaves two panes that are not empty, in either direction, though the
   server is asked in between (handle_split). *)
THEOREM FitCorrect == Spec => SplitsFit
<1>1. Init => FitInv
  <2>1. HasRoom(Off)
    BY NoSplit DEF HasRoom, Off
  <2>2. QED
    BY <2>1 DEF Init, FitInv
<1>2. ASSUME Inv, FitInv, NEW c \in Clients, NEW dir \in Directions, SplitAdd(c, dir),
             session[c].layout # session'[c].layout, HasCells(FocusedRect(session[c]))
      PROVE  \A t \in {session[c].layout.focused, session'[c].layout.focused} :
               LET s == session'[c] IN
               HasCells(Rects(s.layout.root, s.area)[PathOf(s.layout.root, t)])
  <2> DEFINE s == session[c]
             n == session'[c]
             layout == s.layout
             new == Head(s.todo)
             split == SplitFocused(layout, dir, new)
             at == IF s.view_id = None THEN "run" ELSE "adding"
             w == s.vterms \cup {new}
  <2>1. s.at = dir /\ s.at \in Phases
    BY <1>2, PhaseFacts DEF SplitAdd
  <2>2. /\ s = Showing(s.at, s.view_id, s.layout, s.restored, s.vterms, s.area, s.todo)
        /\ Sound(layout, drawn) /\ s.area \in Areas
        /\ s.todo \in Seq(drawn) /\ s.todo # <<>> /\ new \notin Panes(layout.root)
    BY <1>2, <2>1, ShownFacts, PhaseFacts
  <2>3. \/ Goes(c, at, [s EXCEPT !.vterms = w, !.layout = split])
        \/ Goes(c, "undo", s)
    BY <1>2 DEF SplitAdd
  <2>4. ~ TooSmall(s, dir)
    BY <1>2, <2>1 DEF FitInv, HasRoom
  <2>5. new \in drawn
    BY <2>2, Elements
  <2>6. \A b : Goes(c, b, Showing(s.at, s.view_id, s.layout, s.restored, s.vterms, s.area, s.todo))
                 => n.layout = layout
    <3>1. ASSUME NEW b,
                 Goes(c, b, Showing(s.at, s.view_id, s.layout, s.restored, s.vterms, s.area, s.todo))
          PROVE  n = Showing(b, s.view_id, s.layout, s.restored, s.vterms, s.area, s.todo)
      BY <1>2, <3>1, GoesFacts DEF Inv
    <3>2. QED
      BY <3>1, ShowingFields
  <2>7. Goes(c, at, [s EXCEPT !.vterms = w, !.layout = split])
    BY <1>2, <2>2, <2>3, <2>6
  <2>8. n.layout = split /\ n.area = s.area
    <3> HIDE DEF s, w, split, at, n
    <3>1. \A x, l : [s EXCEPT !.vterms = x, !.layout = l]
                      = Showing(s.at, s.view_id, l, s.restored, x, s.area, s.todo)
      BY <2>2, ShowingUpdates
    <3>2. [s EXCEPT !.vterms = w, !.layout = split]
            = Showing(s.at, s.view_id, split, s.restored, w, s.area, s.todo)
      BY <3>1, Zenon
    <3>3. session' = [session EXCEPT ![c] =
                        Showing(at, s.view_id, split, s.restored, w, s.area, s.todo)]
      BY <2>7, <3>2, GoesFacts
    <3>4. n = Showing(at, s.view_id, split, s.restored, w, s.area, s.todo)
      BY <1>2, <3>3 DEF Inv, n
    <3>5. QED
      BY <3>4, ShowingFields
  <2>9. LET r == Rects(layout.root, s.area)[PathOf(layout.root, layout.focused)]
        IN  IF dir = "Vertical" THEN r.width >= 4 ELSE r.height >= 4
    <3> DEFINE r == Rects(layout.root, s.area)[PathOf(layout.root, layout.focused)]
    <3>1. layout.focused \in Panes(layout.root) /\ IsTree(layout.root, drawn)
      BY <2>2 DEF Sound
    <3>2. s.area \in Rectangles
      BY <2>2, AreasAssumption
    <3>3. r \in Rectangles
      <4>1. PathOf(layout.root, layout.focused) \in DOMAIN layout.root
        BY <3>1, PaneFacts DEF Leaves
      <4>2. QED
        BY <3>1, <3>2, <4>1, RectsFacts
    <3>4. IF dir = "Vertical" THEN ~ (r.width < 4) ELSE ~ (r.height < 4)
      BY <2>4, <3>1 DEF TooSmall, FocusedRect
    <3> HIDE DEF r
    <3>5. IF dir = "Vertical" THEN r.width >= 4 ELSE r.height >= 4
      BY <3>3, <3>4 DEF Rectangles
    <3>6. QED
      BY <3>5 DEF r
  <2> DEFINE area == s.area
  <2>10. area \in Rectangles
    BY <2>2, AreasAssumption
  <2>11. \A t \in {layout.focused, split.focused} :
           HasCells(Rects(split.root, area)[PathOf(split.root, t)])
    <3>1. LET r == Rects(layout.root, area)[PathOf(layout.root, layout.focused)]
          IN  HasCells(r) /\ IF dir = "Vertical" THEN r.width >= 4 ELSE r.height >= 4
      BY <1>2, <2>9 DEF FocusedRect
    <3>2. Sound(layout, drawn) /\ new \in drawn /\ new \notin Panes(layout.root)
      BY <2>2, <2>5
    <3> HIDE DEF layout, area, new, s
    <3>3. QED
      BY <2>10, <3>1, <3>2, SplitHasRoom
  <2> HIDE DEF split
  <2>12. QED
    BY <2>8, <2>11
<1>3. Inv /\ FitInv /\ [Next]_vars =>
        [\A c \in Clients, dir \in Directions :
           SplitAdd(c, dir) /\ session[c].layout # session'[c].layout
             /\ HasCells(FocusedRect(session[c]))
             => \A t \in {session[c].layout.focused, session'[c].layout.focused} :
                  LET s == session'[c] IN
                  HasCells(Rects(s.layout.root, s.area)[PathOf(s.layout.root, t)])]_vars
  BY <1>2
<1>4. QED
  BY AlwaysInv, <1>1, <1>3, NextFits, PTL DEF Spec, SplitsFit

-----------------------------------------------------------------------------
(* The corners of panes, and what lies across a separator *)

(* A rectangle with cells, and cells in its corners. *)
TopLeft(r)    == <<r.x, r.y>>
TopRight(r)   == <<r.x + r.width - 1, r.y>>
BottomLeft(r) == <<r.x, r.y + r.height - 1>>

(* The cell at a column and a row. *)
LEMMA CellAt ==
  ASSUME NEW r \in Rectangles, NEW a \in Int, NEW b \in Int
  PROVE  <<a, b>> \in Cells(r) <=>
           r.x <= a /\ a < r.x + r.width /\ r.y <= b /\ b < r.y + r.height
<1>1. \A c, d : <<a, b>> = <<c, d>> => a = c /\ b = d
  OBVIOUS
<1>2. QED
  BY <1>1, CellFacts

(* A rectangle that has a cell has those in its corners. *)
LEMMA CornerCells ==
  ASSUME NEW r \in Rectangles
  PROVE  /\ Cells(r) # {} => HasCells(r)
         /\ HasCells(r) => /\ TopLeft(r) \in Cells(r) /\ TopRight(r) \in Cells(r)
                         /\ BottomLeft(r) \in Cells(r)
<1>1. r.x \in Nat /\ r.y \in Nat /\ r.width \in Nat /\ r.height \in Nat
  BY DEF Rectangles
<1>2. Cells(r) # {} => HasCells(r)
  <2>1. SUFFICES ASSUME NEW z \in Cells(r) PROVE HasCells(r)
    OBVIOUS
  <2>2. PICK a \in Int, b \in Int : /\ r.x <= a /\ a < r.x + r.width
                                    /\ r.y <= b /\ b < r.y + r.height
    BY <2>1, CellFacts
  <2>3. QED
    BY <1>1, <2>2 DEF HasCells
<1>3. ASSUME HasCells(r)
      PROVE  TopLeft(r) \in Cells(r) /\ TopRight(r) \in Cells(r) /\ BottomLeft(r) \in Cells(r)
  <2> DEFINE a == r.x + r.width - 1
             b == r.y + r.height - 1
  <2>1. /\ a \in Int /\ r.x <= a /\ a < r.x + r.width /\ r.x < r.x + r.width
        /\ b \in Int /\ r.y <= b /\ b < r.y + r.height /\ r.y < r.y + r.height
        /\ r.x \in Int /\ r.y \in Int /\ r.x <= r.x /\ r.y <= r.y
    BY <1>1, <1>3 DEF HasCells
  <2> HIDE DEF a, b
  <2>2. <<r.x, r.y>> \in Cells(r)
    BY <2>1, CellAt
  <2>3. <<a, r.y>> \in Cells(r)
    BY <2>1, CellAt
  <2>4. <<r.x, b>> \in Cells(r)
    BY <2>1, CellAt
  <2>5. QED
    BY <2>2, <2>3, <2>4 DEF a, b, TopLeft, TopRight, BottomLeft
<1>4. QED
  BY <1>2, <1>3

(* A rectangle whose cells are all cells of another lies in it. *)
LEMMA LiesIn ==
  ASSUME NEW r \in Rectangles, NEW area \in Rectangles, HasCells(r),
         \A z : z \in Cells(r) => z \in Cells(area)
  PROVE  /\ area.x <= r.x /\ r.x + r.width <= area.x + area.width
         /\ area.y <= r.y /\ r.y + r.height <= area.y + area.height
<1>1. /\ r.x \in Nat /\ r.y \in Nat /\ r.width \in Nat /\ r.height \in Nat
      /\ area.x \in Nat /\ area.y \in Nat /\ area.width \in Nat /\ area.height \in Nat
  BY DEF Rectangles
<1>2. /\ <<r.x, r.y>> \in Cells(area) /\ <<r.x + r.width - 1, r.y>> \in Cells(area)
      /\ <<r.x, r.y + r.height - 1>> \in Cells(area)
  BY CornerCells DEF TopLeft, TopRight, BottomLeft
<1>3. \A a, b \in Int : <<a, b>> \in Cells(area) <=>
        /\ area.x <= a /\ a < area.x + area.width
        /\ area.y <= b /\ b < area.y + area.height
  BY CellAt
<1>4. r.x \in Int /\ r.y \in Int /\ r.x + r.width - 1 \in Int /\ r.y + r.height - 1 \in Int
  BY <1>1
<1>5. area.x <= r.x /\ area.y <= r.y
  BY <1>2, <1>3, <1>4
<1>6. r.x + r.width - 1 < area.x + area.width
  BY <1>2, <1>3, <1>4
<1>7. r.y + r.height - 1 < area.y + area.height
  BY <1>2, <1>3, <1>4
<1>8. QED
  BY <1>1, <1>5, <1>6, <1>7

(* The corners of an area are corners of its halves. *)
LEMMA HalfCorners ==
  ASSUME NEW area \in Rectangles,
         NEW node \in [direction : Directions, ratio : MinRatio .. MaxRatio],
         HasCells(SplitRect(area, node)[1]), HasCells(SplitRect(area, node)[2])
  PROVE  LET first == SplitRect(area, node)[1]
             second == SplitRect(area, node)[2]
         IN  /\ HasCells(area) /\ TopLeft(first) = TopLeft(area)
             /\ node.direction = "Vertical" => /\ BottomLeft(first) = BottomLeft(area)
                                               /\ TopRight(second) = TopRight(area)
             /\ node.direction # "Vertical" => /\ BottomLeft(second) = BottomLeft(area)
                                               /\ TopRight(first) = TopRight(area)
<1> DEFINE first == SplitRect(area, node)[1]
           second == SplitRect(area, node)[2]
           w == FirstExtent(area.width, node.ratio)
           h == FirstExtent(area.height, node.ratio)
<1>1. area.x \in Nat /\ area.y \in Nat /\ area.width \in Nat /\ area.height \in Nat
  BY DEF Rectangles
<1>2. /\ w \in Nat /\ w <= AtLeastZero(area.width - Sep)
      /\ h \in Nat /\ h <= AtLeastZero(area.height - Sep)
  <2>1. node.ratio \in MinRatio .. MaxRatio
    OBVIOUS
  <2>2. QED
    BY <1>1, <2>1, ExtentFacts
<1>3. /\ AtLeastZero(area.width - Sep) = IF area.width = 0 THEN 0 ELSE area.width - 1
      /\ AtLeastZero(area.height - Sep) = IF area.height = 0 THEN 0 ELSE area.height - 1
  BY <1>1 DEF AtLeastZero, Sep
<1>4. node.direction = "Vertical" =>
        /\ first.x = area.x /\ first.width = w /\ first.y = area.y /\ first.height = area.height
        /\ second.x = area.x + w + 1 /\ second.width = AtLeastZero(area.width - Sep) - w
        /\ second.y = area.y /\ second.height = area.height
  BY HalfFields DEF Sep
<1>5. node.direction # "Vertical" =>
        /\ first.y = area.y /\ first.height = h /\ first.x = area.x /\ first.width = area.width
        /\ second.y = area.y + h + 1 /\ second.height = AtLeastZero(area.height - Sep) - h
        /\ second.x = area.x /\ second.width = area.width
  BY HalfFields DEF Sep
<1>6. first.width > 0 /\ first.height > 0 /\ second.width > 0 /\ second.height > 0
  BY DEF HasCells
<1> HIDE DEF first, second, w, h
<1>7. CASE node.direction = "Vertical"
  <2>1. /\ area.width > 0 /\ area.height > 0 /\ first.x = area.x /\ first.y = area.y
        /\ first.height = area.height
        /\ second.x + second.width - 1 = area.x + area.width - 1 /\ second.y = area.y
    BY <1>1, <1>2, <1>3, <1>4, <1>6, <1>7
  <2>2. QED
    BY <1>7, <2>1 DEF first, second, HasCells, TopLeft, TopRight, BottomLeft
<1>8. CASE node.direction # "Vertical"
  <2>1. /\ area.width > 0 /\ area.height > 0 /\ first.x = area.x /\ first.y = area.y
        /\ first.width = area.width
        /\ second.y + second.height - 1 = area.y + area.height - 1 /\ second.x = area.x
    BY <1>1, <1>2, <1>3, <1>5, <1>6, <1>8
  <2>2. QED
    BY <1>8, <2>1 DEF first, second, HasCells, TopLeft, TopRight, BottomLeft
<1>9. QED
  BY <1>7, <1>8

(* The keys that lead across the line of a split, from the first half to the  *)
(* second and back, and the corner of the first half that is next to the line. *)
Across(node)    == IF node.direction = "Vertical" THEN "Right" ELSE "Down"
Back(node)      == IF node.direction = "Vertical" THEN "Left" ELSE "Up"
NextTo(node, r) == IF node.direction = "Vertical" THEN TopRight(r) ELSE BottomLeft(r)

(* r lies that way of f, one cell away at the most. *)
Near(key, f, r) == Beside(key, f, r) /\ Distance(key, f, r) <= 1

(* A pane in the corner of each half, next to the line between them: each lies *)
(* beside the other, one cell away, and what is as near reaches into the area  *)
(* and out of the half.                                                        *)
LEMMA AcrossTheLine ==
  ASSUME NEW area \in Rectangles,
         NEW node \in [direction : Directions, ratio : MinRatio .. MaxRatio],
         NEW first, first = SplitRect(area, node)[1],
         NEW second, second = SplitRect(area, node)[2],
         NEW f \in Rectangles, \A z : z \in Cells(f) => z \in Cells(first),
         NextTo(node, first) \in Cells(f),
         NEW g \in Rectangles, \A z : z \in Cells(g) => z \in Cells(second),
         TopLeft(second) \in Cells(g)
  PROVE  /\ Beside(Across(node), f, g) /\ Distance(Across(node), f, g) = 1
         /\ Beside(Back(node), g, f) /\ Distance(Back(node), g, f) = 1
         /\ \A q \in Rectangles : HasCells(q) =>
              /\ Near(Across(node), f, q)
                   => \E z : z \in Cells(q) /\ z \in Cells(area) /\ z \notin Cells(first)
              /\ Near(Back(node), g, q)
                   => \E z : z \in Cells(q) /\ z \in Cells(area) /\ z \notin Cells(second)
<1> DEFINE w == FirstExtent(area.width, node.ratio)
           h == FirstExtent(area.height, node.ratio)
<1>1. first \in Rectangles /\ second \in Rectangles
  BY SplitRectFacts
<1>2. HasCells(f) /\ HasCells(g) /\ HasCells(first) /\ HasCells(second)
  BY <1>1, CornerCells
<1>3. /\ first.x <= f.x /\ f.x + f.width <= first.x + first.width
      /\ first.y <= f.y /\ f.y + f.height <= first.y + first.height
  BY <1>1, <1>2, LiesIn
<1>4. /\ second.x <= g.x /\ g.x + g.width <= second.x + second.width
      /\ second.y <= g.y /\ g.y + g.height <= second.y + second.height
  BY <1>1, <1>2, LiesIn
<1>5. \A r \in {area, first, second, f, g} :
        r.x \in Nat /\ r.y \in Nat /\ r.width \in Nat /\ r.height \in Nat
  BY <1>1 DEF Rectangles
<1>6. /\ f.width > 0 /\ f.height > 0 /\ g.width > 0 /\ g.height > 0
      /\ first.width > 0 /\ first.height > 0 /\ second.width > 0 /\ second.height > 0
  BY <1>2 DEF HasCells
<1>7. g.x <= second.x /\ g.y <= second.y
  <2>1. second.x \in Int /\ second.y \in Int
    BY <1>5
  <2>2. <<second.x, second.y>> \in Cells(g)
    BY DEF TopLeft
  <2>3. QED
    BY <2>1, <2>2, CellAt
<1>8. /\ w \in Nat /\ w <= AtLeastZero(area.width - Sep)
      /\ h \in Nat /\ h <= AtLeastZero(area.height - Sep)
  <2>1. node.ratio \in MinRatio .. MaxRatio
    OBVIOUS
  <2>2. QED
    BY <1>5, <2>1, ExtentFacts
<1>9. /\ AtLeastZero(area.width - Sep) = IF area.width = 0 THEN 0 ELSE area.width - 1
      /\ AtLeastZero(area.height - Sep) = IF area.height = 0 THEN 0 ELSE area.height - 1
  BY <1>5 DEF AtLeastZero, Sep
<1>10. \A r \in Rectangles : \A a, b \in Int : <<a, b>> \in Cells(r) <=>
         r.x <= a /\ a < r.x + r.width /\ r.y <= b /\ b < r.y + r.height
  BY CellAt
<1>11. CASE node.direction = "Vertical"
  <2>1. /\ first.x = area.x /\ first.width = w /\ first.y = area.y /\ first.height = area.height
        /\ second.x = area.x + w + 1 /\ second.width = AtLeastZero(area.width - Sep) - w
        /\ second.y = area.y /\ second.height = area.height
    BY <1>11, HalfFields DEF Sep
  <2>2. area.width = first.width + 1 + second.width
    BY <1>5, <1>6, <1>8, <1>9, <2>1
  <2>3. f.x + f.width = first.x + first.width /\ f.y = first.y
    <3>1. first.x + first.width - 1 \in Int /\ first.y \in Int
      BY <1>5
    <3>2. <<first.x + first.width - 1, first.y>> \in Cells(f)
      BY <1>11 DEF NextTo, TopRight
    <3>3. first.x + first.width - 1 < f.x + f.width /\ f.y <= first.y
      BY <1>10, <3>1, <3>2
    <3>4. QED
      BY <1>3, <1>5, <3>3
  <2>4. g.x = second.x /\ g.x = first.x + first.width + 1 /\ g.y = first.y
    BY <1>4, <1>5, <1>7, <2>1
  <2>5. Across(node) = "Right" /\ Back(node) = "Left"
    BY <1>11 DEF Across, Back
  <2>6. Distance("Right", f, g) = 1 /\ Distance("Left", g, f) = 1
    BY <1>5, <2>3, <2>4 DEF Distance
  <2>7. Overlap(f.y, f.height, g.y, g.height) /\ Overlap(g.y, g.height, f.y, f.height)
    BY <1>5, <1>6, <2>3, <2>4 DEF Overlap
  <2>8. Beside("Right", f, g) /\ Beside("Left", g, f)
    BY <2>6, <2>7 DEF Beside
  <2>9. ASSUME NEW q \in Rectangles, HasCells(q), Near("Right", f, q)
        PROVE  \E z : z \in Cells(q) /\ z \in Cells(area) /\ z \notin Cells(first)
    <3>1. q.x \in Nat /\ q.y \in Nat /\ q.width \in Nat /\ q.height \in Nat
      BY DEF Rectangles
    <3>2. /\ q.x - (f.x + f.width) >= 0 /\ q.x - (f.x + f.width) <= 1
          /\ q.y < f.y + f.height /\ f.y < q.y + q.height
          /\ q.width > 0 /\ q.height > 0
      BY <2>9 DEF Near, Beside, Distance, Overlap, HasCells
    <3> DEFINE b == IF q.y <= f.y THEN f.y ELSE q.y
    <3>3. /\ b \in Int /\ q.y <= b /\ b < q.y + q.height /\ f.y <= b /\ b < f.y + f.height
      BY <1>5, <1>6, <3>1, <3>2
    <3> HIDE DEF b
    <3>4. /\ q.x \in Int /\ q.x <= q.x /\ q.x < q.x + q.width
          /\ area.x <= q.x /\ q.x < area.x + area.width /\ ~ (q.x < first.x + first.width)
      BY <1>5, <1>6, <2>1, <2>2, <2>3, <3>1, <3>2
    <3>5. area.y <= b /\ b < area.y + area.height
      BY <1>3, <1>5, <2>1, <3>3
    <3>6. /\ <<q.x, b>> \in Cells(q) /\ <<q.x, b>> \in Cells(area)
          /\ <<q.x, b>> \notin Cells(first)
      BY <1>1, <1>10, <3>3, <3>4, <3>5
    <3>7. QED
      BY <3>6
  <2>10. ASSUME NEW q \in Rectangles, HasCells(q), Near("Left", g, q)
         PROVE  \E z : z \in Cells(q) /\ z \in Cells(area) /\ z \notin Cells(second)
    <3>1. q.x \in Nat /\ q.y \in Nat /\ q.width \in Nat /\ q.height \in Nat
      BY DEF Rectangles
    <3>2. /\ g.x - (q.x + q.width) >= 0 /\ g.x - (q.x + q.width) <= 1
          /\ q.y < g.y + g.height /\ g.y < q.y + q.height
          /\ q.width > 0 /\ q.height > 0
      BY <2>10 DEF Near, Beside, Distance, Overlap, HasCells
    <3> DEFINE a == q.x + q.width - 1
               b == IF q.y <= g.y THEN g.y ELSE q.y
    <3>3. /\ b \in Int /\ q.y <= b /\ b < q.y + q.height /\ g.y <= b /\ b < g.y + g.height
      BY <1>5, <1>6, <3>1, <3>2
    <3>4. /\ a \in Int /\ q.x <= a /\ a < q.x + q.width
          /\ area.x <= a /\ a < area.x + area.width /\ ~ (second.x <= a)
      <4>1. /\ second.x \in Nat /\ first.width \in Nat /\ first.width > 0 /\ area.x \in Nat
            /\ g.x = second.x /\ second.x = area.x + first.width + 1
            /\ second.width \in Nat /\ area.width = first.width + 1 + second.width
        BY <1>5, <1>6, <2>1, <2>2, <2>4
      <4>2. QED
        BY <3>1, <3>2, <4>1
    <3> HIDE DEF a, b
    <3>5. area.y <= b /\ b < area.y + area.height
      BY <1>4, <1>5, <2>1, <3>3
    <3>6. <<a, b>> \in Cells(q) /\ <<a, b>> \in Cells(area) /\ <<a, b>> \notin Cells(second)
      BY <1>1, <1>10, <3>3, <3>4, <3>5
    <3>7. QED
      BY <3>6
  <2>11. QED
    BY <2>5, <2>6, <2>8, <2>9, <2>10
<1>12. CASE node.direction # "Vertical"
  <2>1. /\ first.y = area.y /\ first.height = h /\ first.x = area.x /\ first.width = area.width
        /\ second.y = area.y + h + 1 /\ second.height = AtLeastZero(area.height - Sep) - h
        /\ second.x = area.x /\ second.width = area.width
    BY <1>12, HalfFields DEF Sep
  <2>2. area.height = first.height + 1 + second.height
    BY <1>5, <1>6, <1>8, <1>9, <2>1
  <2>3. f.y + f.height = first.y + first.height /\ f.x = first.x
    <3>1. first.y + first.height - 1 \in Int /\ first.x \in Int
      BY <1>5
    <3>2. <<first.x, first.y + first.height - 1>> \in Cells(f)
      BY <1>12 DEF NextTo, BottomLeft
    <3>3. first.y + first.height - 1 < f.y + f.height /\ f.x <= first.x
      BY <1>10, <3>1, <3>2
    <3>4. QED
      BY <1>3, <1>5, <3>3
  <2>4. g.y = second.y /\ g.y = first.y + first.height + 1 /\ g.x = first.x
    BY <1>4, <1>5, <1>7, <2>1
  <2>5. Across(node) = "Down" /\ Back(node) = "Up"
    BY <1>12 DEF Across, Back
  <2>6. Distance("Down", f, g) = 1 /\ Distance("Up", g, f) = 1
    BY <1>5, <2>3, <2>4 DEF Distance
  <2>7. Overlap(f.x, f.width, g.x, g.width) /\ Overlap(g.x, g.width, f.x, f.width)
    BY <1>5, <1>6, <2>3, <2>4 DEF Overlap
  <2>8. Beside("Down", f, g) /\ Beside("Up", g, f)
    BY <2>6, <2>7 DEF Beside
  <2>9. ASSUME NEW q \in Rectangles, HasCells(q), Near("Down", f, q)
        PROVE  \E z : z \in Cells(q) /\ z \in Cells(area) /\ z \notin Cells(first)
    <3>1. q.x \in Nat /\ q.y \in Nat /\ q.width \in Nat /\ q.height \in Nat
      BY DEF Rectangles
    <3>2. /\ q.y - (f.y + f.height) >= 0 /\ q.y - (f.y + f.height) <= 1
          /\ q.x < f.x + f.width /\ f.x < q.x + q.width
          /\ q.width > 0 /\ q.height > 0
      BY <2>9 DEF Near, Beside, Distance, Overlap, HasCells
    <3> DEFINE a == IF q.x <= f.x THEN f.x ELSE q.x
    <3>3. /\ a \in Int /\ q.x <= a /\ a < q.x + q.width /\ f.x <= a /\ a < f.x + f.width
      BY <1>5, <1>6, <3>1, <3>2
    <3> HIDE DEF a
    <3>4. /\ q.y \in Int /\ q.y <= q.y /\ q.y < q.y + q.height
          /\ area.y <= q.y /\ q.y < area.y + area.height /\ ~ (q.y < first.y + first.height)
      BY <1>5, <1>6, <2>1, <2>2, <2>3, <3>1, <3>2
    <3>5. area.x <= a /\ a < area.x + area.width
      BY <1>3, <1>5, <2>1, <3>3
    <3>6. /\ <<a, q.y>> \in Cells(q) /\ <<a, q.y>> \in Cells(area)
          /\ <<a, q.y>> \notin Cells(first)
      BY <1>1, <1>10, <3>3, <3>4, <3>5
    <3>7. QED
      BY <3>6
  <2>10. ASSUME NEW q \in Rectangles, HasCells(q), Near("Up", g, q)
         PROVE  \E z : z \in Cells(q) /\ z \in Cells(area) /\ z \notin Cells(second)
    <3>1. q.x \in Nat /\ q.y \in Nat /\ q.width \in Nat /\ q.height \in Nat
      BY DEF Rectangles
    <3>2. /\ g.y - (q.y + q.height) >= 0 /\ g.y - (q.y + q.height) <= 1
          /\ q.x < g.x + g.width /\ g.x < q.x + q.width
          /\ q.width > 0 /\ q.height > 0
      BY <2>10 DEF Near, Beside, Distance, Overlap, HasCells
    <3> DEFINE a == IF q.x <= g.x THEN g.x ELSE q.x
               b == q.y + q.height - 1
    <3>3. /\ a \in Int /\ q.x <= a /\ a < q.x + q.width /\ g.x <= a /\ a < g.x + g.width
      BY <1>5, <1>6, <3>1, <3>2
    <3>4. /\ b \in Int /\ q.y <= b /\ b < q.y + q.height
          /\ area.y <= b /\ b < area.y + area.height /\ ~ (second.y <= b)
      <4>1. /\ second.y \in Nat /\ first.height \in Nat /\ first.height > 0 /\ area.y \in Nat
            /\ g.y = second.y /\ second.y = area.y + first.height + 1
            /\ second.height \in Nat /\ area.height = first.height + 1 + second.height
        BY <1>5, <1>6, <2>1, <2>2, <2>4
      <4>2. QED
        BY <3>1, <3>2, <4>1
    <3> HIDE DEF a, b
    <3>5. area.x <= a /\ a < area.x + area.width
      BY <1>4, <1>5, <2>1, <3>3
    <3>6. <<a, b>> \in Cells(q) /\ <<a, b>> \in Cells(area) /\ <<a, b>> \notin Cells(second)
      BY <1>1, <1>10, <3>3, <3>4, <3>5
    <3>7. QED
      BY <3>6
  <2>11. QED
    BY <2>5, <2>6, <2>8, <2>9, <2>10
<1>13. QED
  BY <1>11, <1>12

-----------------------------------------------------------------------------
(* From every pane to every other *)

(* Of two nodes that share a cell, one is below the other. *)
LEMMA SharedCell ==
  ASSUME NEW T, NEW root, IsTree(root, T), NEW area \in Rectangles,
         NEW p \in DOMAIN root, NEW q \in DOMAIN root, Len(p) <= Len(q),
         NEW z, z \in Cells(Rects(root, area)[p]), z \in Cells(Rects(root, area)[q])
  PROVE  IsPrefix(p, q)
<1> DEFINE Has(r) == z \in Cells(Rects(root, area)[r])
           D == DOMAIN root
           Above(r) == Len(r) >= Len(p) /\ Has(r) => IsPrefix(p, r)
           S == {n \in Nat : \A r \in D : Len(r) = Len(p) + n => Above(r)}
<1>1. D \subseteq Positions /\ \A r \in Positions : Len(r) \in Nat /\ (Len(r) = 0 <=> r = <<>>)
  <2>1. D \subseteq Positions
    BY TreeFacts
  <2>2. QED
    BY <2>1, EmptySeq, LenProperties DEF Positions
<1>2. /\ \A r, s \in D : Len(r) = Len(s) /\ Has(r) /\ Has(s) => r = s
      /\ \A r \in D \ {<<>>} : Has(r) => Has(Front(r))
  <2> DEFINE rects == Rects(root, area)
  <2>1. /\ \A r, s \in D : \A y : Len(r) = Len(s) /\ y \in Cells(rects[r]) /\ y \in Cells(rects[s])
                                     => r = s
        /\ \A r \in D \ {<<>>} : \A y : y \in Cells(rects[r]) => y \in Cells(rects[Front(r)])
    BY TreeCells
  <2> HIDE DEF rects
  <2>2. \A r \in D : Has(r) <=> z \in Cells(rects[r])
    BY DEF rects
  <2>3. \A r \in D \ {<<>>} : Front(r) \in D
    BY TreeFacts
  <2> HIDE DEF Has, D
  <2>4. QED
    BY <2>1, <2>2, <2>3
<1>3. Has(p) /\ Has(q)
  OBVIOUS
<1> HIDE DEF Has
<1>4. 0 \in S
  <2>1. SUFFICES ASSUME NEW r \in D, Len(r) = Len(p) + 0, Has(r) PROVE IsPrefix(p, r)
    OBVIOUS
  <2>2. r = p
    BY <1>1, <1>2, <1>3, <2>1
  <2>3. QED
    BY <1>1, <2>2, PrefixOfItself
<1>5. ASSUME NEW n \in Nat, n \in S PROVE n + 1 \in S
  <2>1. SUFFICES ASSUME NEW r \in D, Len(r) = Len(p) + (n + 1), Has(r) PROVE IsPrefix(p, r)
    OBVIOUS
  <2>2. r # <<>> /\ Len(p) \in Nat
    BY <1>1, <2>1
  <2>3. /\ Front(r) \in D /\ Last(r) \in {1, 2} /\ Len(Front(r)) \in Nat
        /\ Len(r) = Len(Front(r)) + 1 /\ r = Append(Front(r), Last(r))
    BY <2>2, AboveIsSplit
  <2>4. Has(Front(r)) /\ Len(Front(r)) = Len(p) + n
    BY <1>2, <2>1, <2>2, <2>3
  <2>5. IsPrefix(p, Front(r))
    BY <1>5, <2>2, <2>3, <2>4
  <2>6. p \in Positions /\ Front(r) \in Positions
    BY <1>1, <2>3
  <2>7. IsPrefix(p, Append(Front(r), Last(r)))
    BY <2>3, <2>5, <2>6, PrefixGrows
  <2>8. QED
    BY <2>3, <2>7
<1>6. \A n \in Nat : n \in S
  <2> HIDE DEF S
  <2>1. QED
    BY <1>4, <1>5, NatSetInduction
<1> DEFINE k == Len(q) - Len(p)
<1>7. k \in Nat /\ Len(q) = Len(p) + k /\ Len(q) >= Len(p)
  BY <1>1
<1> HIDE DEF k
<1>8. QED
  BY <1>3, <1>6, <1>7

(* The cells of what is below a node are cells of the node. *)
LEMMA BelowLiesIn ==
  ASSUME NEW T, NEW root, IsTree(root, T), NEW area \in Rectangles,
         NEW p \in DOMAIN root, NEW q \in DOMAIN root, IsPrefix(p, q),
         NEW z, z \in Cells(Rects(root, area)[q])
  PROVE  z \in Cells(Rects(root, area)[p])
<1> DEFINE Has(r) == z \in Cells(Rects(root, area)[r])
           D == DOMAIN root
           S == {n \in Nat : \A r \in Positions :
                   Len(r) = n /\ p \o r \in D /\ Has(p \o r) => Has(p)}
<1>1. /\ D \subseteq Positions
      /\ \A r \in Positions : Len(r) \in Nat /\ (Len(r) = 0 <=> r = <<>>)
      /\ \A r \in D \ {<<>>} : Front(r) \in D
  <2>1. D \subseteq Positions /\ \A r \in D \ {<<>>} : Front(r) \in D
    BY TreeFacts
  <2>2. QED
    BY <2>1, EmptySeq, LenProperties DEF Positions
<1>2. \A r \in D \ {<<>>} : Has(r) => Has(Front(r))
  BY TreeCells
<1> DEFINE s == SubSeq(q, Len(p) + 1, Len(q))
<1>3. s \in Positions /\ q = p \o s
  BY <1>1, PrefixFacts
<1>4. Has(q)
  OBVIOUS
<1> HIDE DEF Has, s
<1>5. 0 \in S
  <2>1. p \o <<>> = p
    BY <1>1, ConcatFacts, EmptyPosition
  <2>2. QED
    BY <1>1, <2>1
<1>6. ASSUME NEW n \in Nat, n \in S PROVE n + 1 \in S
  <2>1. SUFFICES ASSUME NEW r \in Positions, Len(r) = n + 1, p \o r \in D, Has(p \o r) PROVE Has(p)
    OBVIOUS
  <2>2. r # <<>>
    BY <1>1, <2>1
  <2>3. Front(r) \in Positions /\ Last(r) \in {1, 2} /\ r = Append(Front(r), Last(r))
        /\ Len(r) = Len(Front(r)) + 1 /\ Len(Front(r)) \in Nat
    BY <1>1, <2>2, FrontFacts
  <2> DEFINE f == Front(r)
             i == Last(r)
  <2>4. f \in Positions /\ i \in {1, 2} /\ Len(f) = n /\ r = Append(f, i)
    BY <2>1, <2>3
  <2> HIDE DEF f, i
  <2>5. p \in Positions /\ p \o f \in Positions /\ p \o Append(f, i) = Append(p \o f, i)
    <3>1. p \in Positions
      BY <1>1
    <3>2. p \o f \in Positions /\ \A k \in {1, 2} : p \o Append(f, k) = Append(p \o f, k)
      BY <2>4, <3>1, ConcatFacts
    <3>3. QED
      BY <2>4, <3>1, <3>2
  <2>6. Front(Append(p \o f, i)) = p \o f /\ Append(p \o f, i) # <<>>
    BY <2>4, <2>5, AppendFacts
  <2>7. p \o f \in D /\ Has(p \o f)
    BY <1>1, <1>2, <2>1, <2>4, <2>5, <2>6
  <2>8. QED
    BY <1>6, <2>4, <2>7
<1>7. \A n \in Nat : n \in S
  <2> HIDE DEF S
  <2>1. QED
    BY <1>5, <1>6, NatSetInduction
<1>8. Len(s) \in S
  BY <1>1, <1>3, <1>7
<1>9. Has(p)
  BY <1>3, <1>4, <1>8
<1>10. QED
  BY <1>9 DEF Has

(* As long as no pane is empty, no node is, and panes are in its corners. *)
LEMMA CornersHavePanes ==
  ASSUME NEW T, NEW root, IsTree(root, T), NEW area \in Rectangles,
         \A p \in Leaves(root) : Cells(Rects(root, area)[p]) # {}
  PROVE  LET rects == Rects(root, area) IN
         \A p \in DOMAIN root :
            /\ HasCells(rects[p])
            /\ \E q \in Leaves(root) : TopLeft(rects[p]) \in Cells(rects[q])
            /\ \E q \in Leaves(root) : TopRight(rects[p]) \in Cells(rects[q])
            /\ \E q \in Leaves(root) : BottomLeft(rects[p]) \in Cells(rects[q])
<1> DEFINE rects == Rects(root, area)
           D == DOMAIN root
           Taken(z) == \E q \in Leaves(root) : z \in Cells(rects[q])
           Good(p) == /\ HasCells(rects[p]) /\ Taken(TopLeft(rects[p]))
                      /\ Taken(TopRight(rects[p])) /\ Taken(BottomLeft(rects[p]))
<1>1. /\ D \subseteq Positions /\ IsFiniteSet(D) /\ Leaves(root) \subseteq D
      /\ \A p \in D \ Leaves(root) :
           /\ root[p] \in [direction : Directions, ratio : MinRatio .. MaxRatio]
           /\ \A i \in {1, 2} : Append(p, i) \in D
  BY TreeFacts
<1>2. \A p \in D : rects[p] \in Rectangles
  BY RectsFacts
<1>3. \A p \in D \ Leaves(root) : \A i \in {1, 2} :
        rects[Append(p, i)] = SplitRect(rects[p], root[p])[i]
  BY TreeCells
<1>4. \A p \in Positions : Len(p) \in Nat
  BY LenProperties DEF Positions
<1>5. PICK m \in Nat : \A p \in D : Len(p) <= m
  BY <1>1, LengthsAreBounded
<1>6. \A p \in Leaves(root) : Cells(rects[p]) # {}
  OBVIOUS
<1> HIDE DEF rects
<1>7. ASSUME NEW p \in Leaves(root) PROVE Good(p)
  <2>1. rects[p] \in Rectangles
    BY <1>1, <1>2
  <2>2. /\ HasCells(rects[p]) /\ TopLeft(rects[p]) \in Cells(rects[p])
        /\ TopRight(rects[p]) \in Cells(rects[p]) /\ BottomLeft(rects[p]) \in Cells(rects[p])
    BY <1>6, <2>1, CornerCells
  <2>3. QED
    BY <2>2
<1>8. ASSUME NEW p \in D \ Leaves(root), Good(Append(p, 1)), Good(Append(p, 2)) PROVE Good(p)
  <2> DEFINE A == rects[p]
             n == root[p]
             F == SplitRect(A, n)[1]
             G == SplitRect(A, n)[2]
  <2>1. A \in Rectangles /\ n \in [direction : Directions, ratio : MinRatio .. MaxRatio]
    BY <1>1, <1>2
  <2>2. /\ HasCells(F) /\ Taken(TopLeft(F)) /\ Taken(TopRight(F)) /\ Taken(BottomLeft(F))
        /\ HasCells(G) /\ Taken(TopLeft(G)) /\ Taken(TopRight(G)) /\ Taken(BottomLeft(G))
    <3>1. rects[Append(p, 1)] = F /\ rects[Append(p, 2)] = G
      BY <1>3
    <3> HIDE DEF F, G, Taken
    <3>2. QED
      BY <1>8, <3>1
  <2> HIDE DEF A, n, Taken
  <2>3. /\ HasCells(A) /\ TopLeft(F) = TopLeft(A)
        /\ n.direction = "Vertical" => /\ BottomLeft(F) = BottomLeft(A)
                                       /\ TopRight(G) = TopRight(A)
        /\ n.direction # "Vertical" => /\ BottomLeft(G) = BottomLeft(A)
                                       /\ TopRight(F) = TopRight(A)
    BY <2>1, <2>2, HalfCorners
  <2> HIDE DEF F, G
  <2>4. HasCells(A) /\ Taken(TopLeft(A)) /\ Taken(TopRight(A)) /\ Taken(BottomLeft(A))
    BY <2>2, <2>3
  <2>5. QED
    BY <2>4 DEF A
<1> HIDE DEF Good
<1> DEFINE S == {k \in Nat : \A p \in D : Len(p) + k >= m => Good(p)}
<1>9. ASSUME NEW p \in D, \A i \in {1, 2} : Append(p, i) \in D => Good(Append(p, i)) PROVE Good(p)
  <2>1. CASE p \in Leaves(root)
    BY <1>7, <2>1
  <2>2. CASE p \notin Leaves(root)
    BY <1>1, <1>8, <1>9, <2>2
  <2>3. QED
    BY <2>1, <2>2
<1>10. \A p \in D, i \in {1, 2} : Len(Append(p, i)) = Len(p) + 1 /\ Len(p) \in Nat
  BY <1>1, <1>4, AppendFacts
<1>11. 0 \in S
  <2>1. SUFFICES ASSUME NEW p \in D, Len(p) + 0 >= m PROVE Good(p)
    OBVIOUS
  <2>2. ASSUME NEW i \in {1, 2}, Append(p, i) \in D PROVE FALSE
    <3>1. Len(Append(p, i)) <= m
      BY <1>5, <2>2
    <3>2. Len(Append(p, i)) = Len(p) + 1 /\ Len(p) \in Nat
      BY <1>10
    <3>3. QED
      BY <2>1, <3>1, <3>2
  <2>3. QED
    BY <1>9, <2>2
<1>12. ASSUME NEW k \in Nat, k \in S PROVE k + 1 \in S
  <2>1. SUFFICES ASSUME NEW p \in D, Len(p) + (k + 1) >= m PROVE Good(p)
    OBVIOUS
  <2>2. ASSUME NEW i \in {1, 2}, Append(p, i) \in D PROVE Good(Append(p, i))
    <3>1. Len(Append(p, i)) + k >= m
      BY <1>10, <2>1
    <3>2. QED
      BY <1>12, <2>2, <3>1
  <2>3. QED
    BY <1>9, <2>2
<1>13. \A k \in Nat : k \in S
  <2> HIDE DEF S
  <2>1. QED
    BY <1>11, <1>12, NatSetInduction
<1>14. \A p \in D : Good(p)
  <2>1. SUFFICES ASSUME NEW p \in D PROVE Good(p)
    OBVIOUS
  <2>2. m \in S /\ Len(p) + m >= m
    BY <1>1, <1>4, <1>13
  <2>3. QED
    BY <2>2
<1>15. QED
  BY <1>14 DEF Good, rects

(* Under the halves of a split are two panes on both sides of its line, and a *)
(* key leads from each to a pane of the other half.                           *)
LEMMA Neighbours ==
  ASSUME NEW T, NEW root, IsTree(root, T), NEW area \in Rectangles,
         \A p \in Leaves(root) : Cells(Rects(root, area)[p]) # {},
         NEW p \in DOMAIN root \ Leaves(root)
  PROVE  LET rects == Rects(root, area)
             node == root[p]
         IN
         \E f, g \in Leaves(root) :
            /\ IsPrefix(Append(p, 1), f) /\ IsPrefix(Append(p, 2), g) /\ f # g
            /\ Beside(Across(node), rects[f], rects[g])
            /\ Distance(Across(node), rects[f], rects[g]) = 1
            /\ Beside(Back(node), rects[g], rects[f])
            /\ Distance(Back(node), rects[g], rects[f]) = 1
            /\ \A q \in Leaves(root) :
                 /\ Near(Across(node), rects[f], rects[q]) => IsPrefix(Append(p, 2), q)
                 /\ Near(Back(node), rects[g], rects[q]) => IsPrefix(Append(p, 1), q)
<1> DEFINE rects == Rects(root, area)
           D == DOMAIN root
           c1 == Append(p, 1)
           c2 == Append(p, 2)
           node == root[p]
           A == rects[p]
           F == rects[c1]
           G == rects[c2]
<1>1. /\ p \in D /\ p \in Positions /\ c1 \in D /\ c2 \in D /\ Leaves(root) \subseteq D
      /\ node \in [direction : Directions, ratio : MinRatio .. MaxRatio]
      /\ D \subseteq Positions
  BY TreeFacts
<1>2. \A r \in D : rects[r] \in Rectangles
  BY RectsFacts
<1>3. F = SplitRect(A, node)[1] /\ G = SplitRect(A, node)[2]
  BY TreeCells
<1>4. \A r \in D :
        /\ HasCells(rects[r])
        /\ \E q \in Leaves(root) : TopLeft(rects[r]) \in Cells(rects[q])
        /\ \E q \in Leaves(root) : TopRight(rects[r]) \in Cells(rects[q])
        /\ \E q \in Leaves(root) : BottomLeft(rects[r]) \in Cells(rects[q])
  BY CornersHavePanes
<1>5. \A r \in Positions : Len(r) \in Nat
  BY LenProperties DEF Positions
<1>6. ASSUME NEW r \in D, NEW q \in Leaves(root),
             NEW z, z \in Cells(rects[r]), z \in Cells(rects[q])
      PROVE  IsPrefix(r, q)
  <2>1. q \in D /\ Len(r) <= Len(q)
    BY <1>1, <1>6, TreeCells
  <2>2. QED
    BY <1>6, <2>1, SharedCell
<1>7. ASSUME NEW r \in D, NEW q \in D, IsPrefix(r, q)
      PROVE  \A z : z \in Cells(rects[q]) => z \in Cells(rects[r])
  BY <1>7, BelowLiesIn
<1>8. NextTo(node, F) \in Cells(F) /\ \E q \in Leaves(root) : NextTo(node, F) \in Cells(rects[q])
  <2>1. F \in Rectangles /\ HasCells(F)
    BY <1>1, <1>2, <1>4
  <2>2. TopRight(F) \in Cells(F) /\ BottomLeft(F) \in Cells(F)
    BY <2>1, CornerCells
  <2>3. QED
    BY <1>1, <1>4, <2>2 DEF NextTo
<1>9. TopLeft(G) \in Cells(G) /\ \E q \in Leaves(root) : TopLeft(G) \in Cells(rects[q])
  <2>1. G \in Rectangles /\ HasCells(G)
    BY <1>1, <1>2, <1>4
  <2>2. QED
    BY <1>1, <1>4, <2>1, CornerCells
<1>10. PICK f \in Leaves(root) : NextTo(node, F) \in Cells(rects[f])
  BY <1>8
<1>11. PICK g \in Leaves(root) : TopLeft(G) \in Cells(rects[g])
  BY <1>9
<1>12. IsPrefix(c1, f)
  <2> HIDE DEF rects, c1, node
  <2>1. QED
    BY <1>1, <1>6, <1>8, <1>10
<1>13. IsPrefix(c2, g)
  <2> HIDE DEF rects, c2
  <2>1. QED
    BY <1>1, <1>6, <1>9, <1>11
<1> DEFINE rf == rects[f]
           rg == rects[g]
<1>14. /\ \A z : z \in Cells(rf) => z \in Cells(F)
       /\ \A z : z \in Cells(rg) => z \in Cells(G)
       /\ rf \in Rectangles /\ rg \in Rectangles /\ A \in Rectangles
  <2> HIDE DEF rects, c1, c2
  <2>1. QED
    BY <1>1, <1>2, <1>7, <1>12, <1>13
<1>15. NextTo(node, F) \in Cells(rf) /\ TopLeft(G) \in Cells(rg)
  BY <1>10, <1>11
<1> HIDE DEF rects
<1>16. /\ Beside(Across(node), rf, rg) /\ Distance(Across(node), rf, rg) = 1
       /\ Beside(Back(node), rg, rf) /\ Distance(Back(node), rg, rf) = 1
       /\ \A r \in Rectangles : HasCells(r) =>
            /\ Near(Across(node), rf, r)
                 => \E z : z \in Cells(r) /\ z \in Cells(A) /\ z \notin Cells(F)
            /\ Near(Back(node), rg, r)
                 => \E z : z \in Cells(r) /\ z \in Cells(A) /\ z \notin Cells(G)
  <2> HIDE DEF A, F, G, rf, rg, node
  <2>1. QED
    BY <1>1, <1>3, <1>14, <1>15, AcrossTheLine
<1>17. ASSUME NEW q \in Leaves(root), NEW z, z \in Cells(rects[q]), z \in Cells(A)
       PROVE  /\ z \notin Cells(F) => IsPrefix(c2, q)
              /\ z \notin Cells(G) => IsPrefix(c1, q)
  <2>1. IsPrefix(p, q) /\ q \in D /\ p # q /\ q \in Positions
    BY <1>1, <1>6, <1>17
  <2>2. IsPrefix(c1, q) \/ IsPrefix(c2, q)
    BY <1>1, <2>1, BelowAChild
  <2> HIDE DEF c1, c2
  <2>3. IsPrefix(c1, q) => z \in Cells(F)
    BY <1>1, <1>7, <1>17, <2>1
  <2>4. IsPrefix(c2, q) => z \in Cells(G)
    BY <1>1, <1>7, <1>17, <2>1
  <2>5. QED
    BY <2>2, <2>3, <2>4
<1>18. \A q \in Leaves(root) :
         /\ Near(Across(node), rf, rects[q]) => IsPrefix(c2, q)
         /\ Near(Back(node), rg, rects[q]) => IsPrefix(c1, q)
  <2>1. SUFFICES ASSUME NEW q \in Leaves(root)
                 PROVE  /\ Near(Across(node), rf, rects[q]) => IsPrefix(c2, q)
                        /\ Near(Back(node), rg, rects[q]) => IsPrefix(c1, q)
    OBVIOUS
  <2>2. rects[q] \in Rectangles /\ HasCells(rects[q])
    BY <1>1, <1>2, <1>4
  <2> HIDE DEF A, F, G, rf, rg, node, c1, c2
  <2>3. ASSUME Near(Across(node), rf, rects[q])
        PROVE  IsPrefix(c2, q)
    <3>1. \E z : z \in Cells(rects[q]) /\ z \in Cells(A) /\ z \notin Cells(F)
      BY <1>16, <2>2, <2>3
    <3>2. QED
      BY <1>17, <3>1
  <2>4. ASSUME Near(Back(node), rg, rects[q])
        PROVE  IsPrefix(c1, q)
    <3>1. \E z : z \in Cells(rects[q]) /\ z \in Cells(A) /\ z \notin Cells(G)
      BY <1>16, <2>2, <2>4
    <3>2. QED
      BY <1>17, <3>1
  <2>5. QED
    BY <2>3, <2>4
<1>19. f # g
  <2>1. SUFFICES ASSUME f = g PROVE FALSE
    OBVIOUS
  <2>2. Distance(Across(node), rf, rf) = 1
    BY <1>16, <2>1
  <2>3. rf.x \in Nat /\ rf.y \in Nat /\ rf.width \in Nat /\ rf.height \in Nat
    BY <1>14 DEF Rectangles
  <2> HIDE DEF rf
  <2>4. Distance("Right", rf, rf) # 1 /\ Distance("Down", rf, rf) # 1
    BY <2>3 DEF Distance
  <2>5. QED
    BY <2>2, <2>4 DEF Across
<1>20. /\ IsPrefix(c1, f) /\ IsPrefix(c2, g) /\ f # g
       /\ Beside(Across(node), rf, rg) /\ Distance(Across(node), rf, rg) = 1
       /\ Beside(Back(node), rg, rf) /\ Distance(Back(node), rg, rf) = 1
  BY <1>12, <1>13, <1>16, <1>19
<1>21. QED
  BY <1>18, <1>20 DEF rects

(* A set of panes that is not empty and not all of them has all panes of one *)
(* half, and none of the other, at some split.                               *)
LEMMA MixedSplit ==
  ASSUME NEW T, NEW root, IsTree(root, T), NEW P,
         NEW a \in Leaves(root), a \in P, NEW b \in Leaves(root), b \notin P
  PROVE  \E p \in DOMAIN root \ Leaves(root), i, j \in {1, 2} :
            /\ i # j
            /\ \A q \in Leaves(root) : /\ IsPrefix(Append(p, i), q) => q \in P
                                       /\ IsPrefix(Append(p, j), q) => q \notin P
<1> DEFINE D == DOMAIN root
           Mixed(p) == /\ \E q \in Leaves(root) : IsPrefix(p, q) /\ q \in P
                       /\ \E q \in Leaves(root) : IsPrefix(p, q) /\ q \notin P
           M == {p \in D : Mixed(p)}
           d == [p \in M |-> - Len(p)]
<1>1. /\ D \subseteq Positions /\ IsFiniteSet(D) /\ Leaves(root) \subseteq D /\ <<>> \in D
      /\ \A p \in D \ Leaves(root) : \A i \in {1, 2} : Append(p, i) \in D
      /\ \A p \in Leaves(root) : \A i \in {1, 2} : Append(p, i) \notin D
  BY TreeFacts
<1>2. \A p \in Positions : Len(p) \in Nat
  BY LenProperties DEF Positions
<1>3. \A q \in Positions : IsPrefix(<<>>, q)
  BY DEF IsPrefix, Positions
<1>4. <<>> \in M
  BY <1>1, <1>3
<1>5. IsFiniteSet(M)
  <2>1. M \in SUBSET D
    OBVIOUS
  <2> HIDE DEF M, D
  <2>2. QED
    BY <1>1, <2>1, FS_Subset
<1>6. \A p \in M : d[p] = - Len(p) /\ d[p] \in Int /\ Len(p) \in Nat
  BY <1>1, <1>2
<1>7. PICK p \in M : \A q \in M : d[p] <= d[q]
  <2> HIDE DEF M, d
  <2>1. QED
    BY <1>4, <1>5, <1>6, LeastExists
<1>8. \A i \in {1, 2} : Append(p, i) \notin M
  <2>1. SUFFICES ASSUME NEW i \in {1, 2}, Append(p, i) \in M PROVE FALSE
    OBVIOUS
  <2>2. Len(Append(p, i)) = Len(p) + 1
    BY <1>1, AppendFacts
  <2> HIDE DEF M, d
  <2>3. - Len(p) <= - Len(Append(p, i)) /\ Len(p) \in Nat
    BY <1>6, <1>7, <2>1
  <2>4. QED
    BY <2>2, <2>3
<1>9. ASSUME NEW q \in Leaves(root), IsPrefix(p, q), p # q
      PROVE  IsPrefix(Append(p, 1), q) \/ IsPrefix(Append(p, 2), q)
  <2>1. p \in Positions /\ q \in Positions
    BY <1>1
  <2>2. QED
    BY <1>9, <2>1, BelowAChild
<1>10. p \in D \ Leaves(root)
  <2>1. SUFFICES ASSUME p \in Leaves(root) PROVE FALSE
    OBVIOUS
  <2>2. \A q \in Leaves(root) : IsPrefix(p, q) => q = p
    <3>1. SUFFICES ASSUME NEW q \in Leaves(root), IsPrefix(p, q), q # p PROVE FALSE
      OBVIOUS
    <3>2. p \in D /\ IsStrictPrefix(p, q)
      BY <3>1 DEF IsStrictPrefix
    <3>3. QED
      BY <2>1, <3>1, <3>2, AboveFacts
  <2>3. QED
    BY <2>2
<1>11. PICK x \in Leaves(root) : IsPrefix(p, x) /\ x \in P
  OBVIOUS
<1>12. PICK y \in Leaves(root) : IsPrefix(p, y) /\ y \notin P
  OBVIOUS
<1>13. PICK i \in {1, 2} : IsPrefix(Append(p, i), x)
  BY <1>9, <1>10, <1>11
<1>14. PICK j \in {1, 2} : IsPrefix(Append(p, j), y)
  BY <1>9, <1>10, <1>12
<1>15. \A k \in {1, 2} : ~ Mixed(Append(p, k))
  BY <1>1, <1>8, <1>10
<1>16. \A q \in Leaves(root) : /\ IsPrefix(Append(p, i), q) => q \in P
                               /\ IsPrefix(Append(p, j), q) => q \notin P
  BY <1>11, <1>12, <1>13, <1>14, <1>15
<1>17. i # j
  BY <1>11, <1>13, <1>16
<1>18. QED
  BY <1>10, <1>16, <1>17

(* Some key leads out of a group of panes. *)
LEMMA KeyLeadsOut ==
  ASSUME NEW T, NEW layout, Sound(layout, T), NEW area \in Rectangles,
         \A p \in Leaves(layout.root) : Cells(Rects(layout.root, area)[p]) # {},
         NEW S \in SUBSET Panes(layout.root), S # {}, S # Panes(layout.root)
  PROVE  \E t \in S, key \in Keys :
            Navigate([layout EXCEPT !.focused = t], key, area).focused \notin S
<1> DEFINE root == layout.root
           rects == Rects(root, area)
           P == {p \in Leaves(root) : root[p].terminal_id \in S}
<1>1. /\ IsTree(root, T) /\ Distinct(root)
      /\ layout = [root |-> root, focused |-> layout.focused]
  BY DEF Sound
<1>2. /\ \A p \in Leaves(root) : root[p] = Leaf(root[p].terminal_id)
      /\ \A p \in Leaves(root) : root[p].terminal_id \in Panes(root)
  BY <1>1, TreeFacts DEF Panes
<1>3. PICK a \in Leaves(root) : a \in P
  BY DEF Panes
<1>4. PICK b \in Leaves(root) : b \notin P
  BY DEF Panes
<1>5. PICK p \in DOMAIN root \ Leaves(root), i \in {1, 2}, j \in {1, 2} :
        /\ i # j
        /\ \A q \in Leaves(root) : /\ IsPrefix(Append(p, i), q) => q \in P
                                   /\ IsPrefix(Append(p, j), q) => q \notin P
  <2> HIDE DEF P, root
  <2>1. QED
    BY <1>1, <1>3, <1>4, MixedSplit
<1> DEFINE across == Across(root[p])
           back == Back(root[p])
<1>6. across \in Keys /\ back \in Keys
  BY DEF Across, Back, Keys
<1>7. PICK f \in Leaves(root), g \in Leaves(root) :
        /\ IsPrefix(Append(p, 1), f) /\ IsPrefix(Append(p, 2), g) /\ f # g
        /\ Beside(across, rects[f], rects[g]) /\ Distance(across, rects[f], rects[g]) = 1
        /\ Beside(back, rects[g], rects[f]) /\ Distance(back, rects[g], rects[f]) = 1
        /\ \A q \in Leaves(root) :
             /\ Near(across, rects[f], rects[q]) => IsPrefix(Append(p, 2), q)
             /\ Near(back, rects[g], rects[q]) => IsPrefix(Append(p, 1), q)
  <2>1. \A q \in Leaves(root) : Cells(rects[q]) # {}
    OBVIOUS
  <2> HIDE DEF root
  <2>2. QED
    BY <1>1, <2>1, Neighbours
<1> HIDE DEF across, back
<1>8. ASSUME NEW x \in Leaves(root), x \in P, NEW y \in Leaves(root), x # y, NEW key \in Keys,
             Beside(key, rects[x], rects[y]), Distance(key, rects[x], rects[y]) = 1,
             \A q \in Leaves(root) :
               Near(key, rects[x], rects[q]) => q \notin P
      PROVE  \E t \in S, k \in Keys :
               Navigate([layout EXCEPT !.focused = t], k, area).focused \notin S
  <2> DEFINE t == root[x].terminal_id
             from == [layout EXCEPT !.focused = t]
  <2>1. t \in S /\ t \in Panes(root) /\ root[x] = Leaf(t)
    BY <1>2, <1>8
  <2>2. from = [root |-> root, focused |-> t]
    <3> HIDE DEF root, t
    <3>1. QED
      BY <1>1
  <2> HIDE DEF from, t
  <2>3. from.root = root /\ from.focused = t /\ Sound(from, T)
    <3>1. from.root = root /\ from.focused = t
      BY <2>2
    <3>2. QED
      BY <1>1, <2>1, <2>2, <3>1 DEF Sound
  <2> HIDE DEF root
  <2>4. PICK q \in Leaves(root) :
          /\ Navigate(from, key, area).focused = root[q].terminal_id
          /\ Beside(key, rects[x], rects[q])
          /\ Distance(key, rects[x], rects[q]) <= Distance(key, rects[x], rects[y])
    <3>1. \E q \in Leaves(from.root) :
            /\ Navigate(from, key, area).focused = from.root[q].terminal_id
            /\ Beside(key, Rects(from.root, area)[x], Rects(from.root, area)[q])
            /\ Distance(key, Rects(from.root, area)[x], Rects(from.root, area)[q])
                 <= Distance(key, Rects(from.root, area)[x], Rects(from.root, area)[y])
      <4>1. /\ x \in Leaves(from.root) /\ from.root[x] = Leaf(from.focused)
            /\ y \in Leaves(from.root) /\ y # x
            /\ Beside(key, Rects(from.root, area)[x], Rects(from.root, area)[y])
        BY <1>8, <2>1, <2>3
      <4>2. QED
        BY <2>3, <4>1, NavigateNearest
    <3>2. QED
      BY <2>3, <3>1
  <2>5. q \notin P
    BY <1>8, <2>4 DEF Near
  <2>6. Navigate(from, key, area).focused \notin S
    BY <2>4, <2>5
  <2>7. QED
    BY <2>1, <2>6 DEF from
<1>9. CASE i = 1
  <2>1. j = 2
    BY <1>5, <1>9
  <2>2. f \in P /\ \A q \in Leaves(root) : IsPrefix(Append(p, 2), q) => q \notin P
    BY <1>5, <1>7, <1>9, <2>1
  <2> HIDE DEF P, root, rects
  <2>3. \A q \in Leaves(root) :
          Near(across, rects[f], rects[q]) => q \notin P
    BY <1>7, <2>2
  <2>4. QED
    BY <1>6, <1>7, <1>8, <2>2, <2>3
<1>10. CASE i = 2
  <2>1. j = 1
    BY <1>5, <1>10
  <2>2. g \in P /\ \A q \in Leaves(root) : IsPrefix(Append(p, 1), q) => q \notin P
    BY <1>5, <1>7, <1>10, <2>1
  <2> HIDE DEF P, root, rects
  <2>3. \A q \in Leaves(root) :
          Near(back, rects[g], rects[q]) => q \notin P
    BY <1>7, <2>2
  <2>4. QED
    BY <1>6, <1>7, <1>8, <2>2, <2>3
<1>11. QED
  BY <1>9, <1>10

(* PanesAreReachable: in a window of any size in which no pane is empty, and for
   a tree of any shape, the keys of navigation lead from every pane to every
   other one (navigate, tui/layout.rs). *)
THEOREM ReachableCorrect == Spec => []PanesAreReachable
<1>1. Inv => PanesAreReachable
  <2> SUFFICES ASSUME Inv, NEW c \in Shown
               PROVE  LET layout == session[c].layout
                          area   == session[c].area
                          panes  == Panes(layout.root)
                          goes(t, key) ==
                            Navigate([layout EXCEPT !.focused = t], key, area).focused
                      IN  (\A p \in Leaves(layout.root) : Cells(Rects(layout.root, area)[p]) # {})
                            => \A S \in (SUBSET panes) \ {{}, panes} :
                                 \E t \in S, key \in Keys : goes(t, key) \notin S
    BY DEF PanesAreReachable
  <2> DEFINE layout == session[c].layout
             area == session[c].area
  <2>1. ShownOK(session[c], mux[c], terms, drawn)
    BY InUsePhase
  <2>2. Sound(layout, drawn) /\ area \in Rectangles
    <3>1. session[c].area \in Areas
      BY <2>1 DEF ShownOK
    <3>2. QED
      BY <2>1, <3>1, AreasAssumption DEF ShownOK
  <2> HIDE DEF layout, area
  <2>3. ASSUME \A p \in Leaves(layout.root) : Cells(Rects(layout.root, area)[p]) # {},
               NEW S \in (SUBSET Panes(layout.root)) \ {{}, Panes(layout.root)}
        PROVE  \E t \in S, key \in Keys :
                  Navigate([layout EXCEPT !.focused = t], key, area).focused \notin S
    <3>1. S \in SUBSET Panes(layout.root) /\ S # {} /\ S # Panes(layout.root)
      BY <2>3
    <3>2. QED
      BY <2>2, <2>3, <3>1, KeyLeadsOut
  <2>4. QED
    BY <2>3 DEF layout, area
<1>2. QED
  BY AlwaysInv, <1>1, PTL

=============================================================================
