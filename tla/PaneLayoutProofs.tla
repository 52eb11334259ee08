-------------------------- MODULE PaneLayoutProofs --------------------------
(***************************************************************************)
(* What the operations of PaneLayout do to a layout, for trees of any      *)
(* shape and size: splitting, closing, resizing and navigating keep it     *)
(* sound (a tree whose panes are of different terminals, one of them       *)
(* focused), and add or take away the panes they are meant to.             *)
(*                                                                         *)
(* Trees are finite and the operations recursive, so the proofs need       *)
(* induction.  It is taken in the form of sets: NatSetInduction and        *)
(* FiniteSetSetInduction follow from the well-foundedness of the strict    *)
(* subset order on finite sets.  A recursive function is a CHOOSE of what  *)
(* satisfies its equation; RectsExist shows that there is such a function. *)
(***************************************************************************)
EXTENDS PaneLayout, FiniteSetTheorems, SequenceTheorems, TLAPS

-----------------------------------------------------------------------------
(* Positions *)

(* Induction over the naturals, for a set S of them. *)
LEMMA NatSetInduction ==
  ASSUME NEW S, 0 \in S, \A n \in Nat : n \in S => n + 1 \in S
  PROVE  \A n \in Nat : n \in S
<1> SUFFICES ASSUME NEW m \in Nat, m \notin S PROVE FALSE
  OBVIOUS
<1> DEFINE T == {0..k : k \in Nat \ S}
           R == StrictSubsetOrdering(Nat)
<1>1. T \subseteq FiniteSubsetsOf(Nat) /\ T # {}
  <2>1. ASSUME NEW k \in Nat PROVE 0..k \in SUBSET Nat /\ IsFiniteSet(0..k)
    BY FS_Interval
  <2>2. QED
    BY <2>1 DEF FiniteSubsetsOf
<1>2. PICK x \in T : \A y \in T : <<y, x>> \notin R
  <2> HIDE DEF T, R
  <2>1. IsWellFoundedOn(R, FiniteSubsetsOf(Nat))
    BY FS_StrictSubsetOrderingWellFounded DEF R
  <2>2. QED
    BY <1>1, <2>1, WFMin
<1>3. PICK k \in Nat \ S : x = 0..k
  BY <1>2
<1>4. k # 0 /\ k - 1 \in Nat \ S
  BY <1>3
<1>5. 0..(k-1) \in T
  BY <1>4
<1>6. <<0..(k-1), x>> \in R
  <2>1. 0..(k-1) \subseteq 0..k /\ 0..(k-1) # 0..k
    <3>1. k \in 0..k /\ k \notin 0..(k-1)
      BY <1>3
    <3>2. QED
      BY <1>3, <3>1
  <2>2. QED
    BY <2>1, <1>3 DEF StrictSubsetOrdering
<1>7. QED
  BY <1>2, <1>5, <1>6

(* What a path to a node can be. *)
Positions == Seq({1, 2})

(* The root is a position. *)
LEMMA EmptyPosition == <<>> \in Positions
BY EmptySeq DEF Positions

(* A child of a position is one, and tells its parent and which child it is. *)
LEMMA AppendFacts ==
  ASSUME NEW p \in Positions, NEW i \in {1, 2}
  PROVE  /\ Append(p, i) \in Positions /\ Append(p, i) # <<>>
         /\ Front(Append(p, i)) = p
         /\ Last(Append(p, i)) = i
         /\ Len(Append(p, i)) = Len(p) + 1
<1> USE DEF Positions
<1>1. /\ Append(p, i) \in Seq({1, 2}) /\ Append(p, i) # <<>>
      /\ Len(Append(p, i)) = Len(p) + 1
      /\ \A k \in 1..Len(p) : Append(p, i)[k] = p[k]
      /\ Append(p, i)[Len(p) + 1] = i
  BY AppendProperties
<1>2. Last(Append(p, i)) = i
  BY <1>1 DEF Last
<1>3. Front(Append(p, i)) = SubSeq(Append(p, i), 1, Len(p))
  BY <1>1, LenProperties DEF Front
<1>4. SubSeq(Append(p, i), 1, Len(p)) = p
  <2> DEFINE s == SubSeq(Append(p, i), 1, Len(p))
  <2>1. Len(p) \in Nat /\ \A k \in 1..Len(p) : p[k] \in {1, 2}
    BY LenProperties, ElementOfSeq
  <2>2. \A k \in 1..Len(p) : Append(p, i)[k] \in {1, 2}
    BY <2>1, <1>1
  <2>3. /\ s \in Seq({1, 2}) /\ Len(s) = IF 1 <= Len(p) THEN Len(p) - 1 + 1 ELSE 0
        /\ \A k \in 1..Len(p) - 1 + 1 : s[k] = Append(p, i)[1 + k - 1]
    BY <2>1, <2>2, SubSeqProperties
  <2>4. Len(s) = Len(p) /\ \A k \in 1..Len(p) : s[k] = p[k]
    BY <2>1, <2>3, <1>1
  <2>5. QED
    BY <2>3, <2>4, SeqEqual
<1>5. QED
  BY <1>1, <1>2, <1>3, <1>4

(* Different parents have different children. *)
LEMMA AppendOnce ==
  ASSUME NEW p \in Positions, NEW q \in Positions, NEW i \in {1, 2}, NEW j \in {1, 2},
         Append(p, i) = Append(q, j)
  PROVE  p = q /\ i = j
<1>1. Front(Append(p, i)) = p /\ Last(Append(p, i)) = i
  BY AppendFacts
<1>2. Front(Append(q, j)) = q /\ Last(Append(q, j)) = j
  BY AppendFacts
<1>3. QED
  BY <1>1, <1>2

(* Every position but the root is a child of its parent. *)
LEMMA FrontFacts ==
  ASSUME NEW p \in Positions, p # <<>>
  PROVE  /\ Front(p) \in Positions /\ Last(p) \in {1, 2}
         /\ p = Append(Front(p), Last(p))
         /\ Len(p) = Len(Front(p)) + 1
<1>1. PICK s \in Seq({1, 2}), i \in {1, 2} : p = Append(s, i)
  BY SequenceEmptyOrAppend DEF Positions
<1>2. QED
  BY <1>1, AppendFacts DEF Positions

(* A path that goes on below a position is a position. *)
LEMMA ConcatFacts ==
  ASSUME NEW p \in Positions, NEW q \in Positions
  PROVE  /\ p \o q \in Positions
         /\ p \o <<>> = p
         /\ \A i \in {1, 2} : p \o Append(q, i) = Append(p \o q, i)
         /\ Len(p \o q) = Len(p) + Len(q)
<1> USE DEF Positions
<1>1. p \o q \in Seq({1, 2}) /\ Len(p \o q) = Len(p) + Len(q)
  BY ConcatProperties
<1>2. p \o <<>> = p
  BY ConcatEmptySeq
<1>3. ASSUME NEW i \in {1, 2} PROVE p \o Append(q, i) = Append(p \o q, i)
  <2>1. <<i>> \in Seq({1, 2})
    BY <1>1
  <2>2. Append(q, i) = q \o <<i>> /\ Append(p \o q, i) = (p \o q) \o <<i>>
    BY <1>1, AppendIsConcat
  <2>3. QED
    BY <2>1, <2>2, ConcatAssociative
<1>4. QED
  BY <1>1, <1>2, <1>3

(* What goes on below a position is told by where it ends. *)
LEMMA ConcatOnce ==
  ASSUME NEW p \in Positions, NEW q \in Positions, NEW r \in Positions, p \o q = p \o r
  PROVE  q = r
<1> USE DEF Positions
<1>1. /\ Len(p) \in Nat /\ Len(q) \in Nat /\ Len(r) \in Nat
  BY LenProperties
<1>2. Len(q) = Len(r)
  BY <1>1, ConcatProperties
<1>3. ASSUME NEW k \in 1..Len(q) PROVE q[k] = r[k]
  <2>1. Len(p) + k \in 1..Len(p) + Len(q) /\ ~ (Len(p) + k <= Len(p)) /\ Len(p) + k - Len(p) = k
    BY <1>1
  <2>2. (p \o q)[Len(p) + k] = q[k] /\ (p \o r)[Len(p) + k] = r[k]
    BY <2>1, <1>2, ConcatProperties
  <2>3. QED
    BY <2>2
<1>4. QED
  BY <1>2, <1>3, SeqEqual

(* The parent of what is strictly below p is at p or below it. *)
LEMMA FrontOfConcat ==
  ASSUME NEW p \in Positions, NEW q \in Positions, q # <<>>
  PROVE  /\ Front(p \o q) = p \o Front(q)
         /\ Last(p \o q) = Last(q)
         /\ p \o q # <<>>
<1>1. Front(q) \in Positions /\ Last(q) \in {1, 2} /\ q = Append(Front(q), Last(q))
  BY FrontFacts
<1>2. p \o q = Append(p \o Front(q), Last(q)) /\ p \o Front(q) \in Positions
  <2>1. p \o Front(q) \in Positions /\ p \o Append(Front(q), Last(q)) = Append(p \o Front(q), Last(q))
    BY <1>1, ConcatFacts
  <2>2. QED
    BY <1>1, <2>1
<1>3. QED
  BY <1>1, <1>2, AppendFacts

(* SubSeq cuts off what was put in front. *)
LEMMA SuffixFacts ==
  ASSUME NEW p \in Positions, NEW r \in Positions
  PROVE  SubSeq(p \o r, Len(p) + 1, Len(p \o r)) = r
<1> USE DEF Positions
<1> DEFINE q == p \o r
           s == SubSeq(q, Len(p) + 1, Len(q))
<1>1. Len(p) \in Nat /\ Len(r) \in Nat /\ Len(q) = Len(p) + Len(r) /\ q \in Seq({1, 2})
  BY LenProperties, ConcatProperties
<1>2. \A k \in 1..Len(q) : q[k] \in {1, 2}
  BY <1>1, ElementOfSeq
<1>3. \A k \in Len(p) + 1..Len(q) : q[k] \in {1, 2}
  BY <1>1, <1>2
<1>4. /\ s \in Seq({1, 2})
      /\ Len(s) = IF Len(p) + 1 <= Len(q) THEN Len(q) - (Len(p) + 1) + 1 ELSE 0
      /\ \A k \in 1..Len(q) - (Len(p) + 1) + 1 : s[k] = q[Len(p) + 1 + k - 1]
  <2> HIDE DEF q
  <2>1. Len(p) + 1 \in Int /\ Len(q) \in Int
    BY <1>1
  <2>2. QED
    BY <2>1, <1>3, SubSeqProperties
<1>5. Len(s) = Len(r)
  BY <1>1, <1>4
<1>6. ASSUME NEW k \in 1..Len(r) PROVE s[k] = r[k]
  <2>1. s[k] = q[Len(p) + k]
    BY <1>1, <1>4
  <2>2. Len(p) + k \in 1..Len(p) + Len(r) /\ ~ (Len(p) + k <= Len(p)) /\ Len(p) + k - Len(p) = k
    BY <1>1
  <2>3. q[Len(p) + k] = r[k]
    BY <2>2, ConcatProperties
  <2>4. QED
    BY <2>1, <2>3
<1>7. QED
  BY <1>4, <1>5, <1>6, SeqEqual

(* What starts with p is below p. *)
LEMMA PrefixFacts ==
  ASSUME NEW p \in Positions, NEW q \in Positions
  PROVE  /\ IsPrefix(p, q) => /\ SubSeq(q, Len(p) + 1, Len(q)) \in Positions
                              /\ q = p \o SubSeq(q, Len(p) + 1, Len(q))
         /\ \A r \in Positions : IsPrefix(p, p \o r)
<1> USE DEF Positions
<1>1. Len(p) \in Nat /\ Len(q) \in Nat
  BY LenProperties
<1>2. SubSeq(p, 1, Len(p)) = p
  BY SubSeqFull
<1>3. ASSUME NEW r \in Positions PROVE IsPrefix(p, p \o r)
  <2>1. Len(r) \in Nat /\ Len(p \o r) = Len(p) + Len(r)
    BY LenProperties, ConcatProperties
  <2>2. SubSeq(p \o r, 1, Len(p)) = p
    <3>1. CASE p = <<>>
      <4>1. Len(p) = 0
        BY <3>1
      <4>2. QED
        BY <4>1, <3>1, SubSeqEmpty
    <3>2. CASE p # <<>>
      <4>1. 1 \in 1..Len(p) /\ Len(p) \in 1..Len(p)
        BY <3>2, EmptySeq, <1>1
      <4>2. SubSeq(p \o r, 1, Len(p)) = SubSeq(p, 1, Len(p))
        BY <4>1, SubSeqOfConcat1
      <4>3. QED
        BY <4>2, <1>2
    <3>3. QED
      BY <3>1, <3>2
  <2>3. QED
    BY <2>1, <2>2, <1>1, <1>2 DEF IsPrefix
<1>4. ASSUME IsPrefix(p, q)
      PROVE  /\ SubSeq(q, Len(p) + 1, Len(q)) \in Positions
             /\ q = p \o SubSeq(q, Len(p) + 1, Len(q))
  <2>1. Len(p) <= Len(q) /\ p = SubSeq(q, 1, Len(p))
    BY <1>2, <1>4 DEF IsPrefix
  <2>2. SubSeq(q, 1, Len(p)) \o SubSeq(q, Len(p) + 1, Len(q)) = SubSeq(q, 1, Len(q))
    <3>1. 1 \in 1..Len(q) + 1 /\ Len(p) \in 1 - 1..Len(q) /\ Len(q) \in Len(p)..Len(q)
      BY <1>1, <2>1
    <3>2. QED
      BY <3>1, ConcatAdjacentSubSeq
  <2>3. SubSeq(q, 1, Len(q)) = q
    BY SubSeqFull
  <2>4. SubSeq(q, Len(p) + 1, Len(q)) \in Seq({1, 2})
    <3>1. \A k \in 1..Len(q) : q[k] \in {1, 2}
      BY ElementOfSeq
    <3>2. \A k \in Len(p) + 1..Len(q) : q[k] \in {1, 2}
      BY <3>1, <1>1
    <3>3. QED
      BY <3>2, <1>1, SubSeqProperties
  <2>5. QED
    BY <2>1, <2>2, <2>3, <2>4
<1>5. QED
  BY <1>3, <1>4

(* What is below a position stays below it one step further. *)
LEMMA PrefixGrows ==
  ASSUME NEW p \in Positions, NEW q \in Positions, IsPrefix(p, q), NEW i \in {1, 2}
  PROVE  IsPrefix(p, Append(q, i))
<1> DEFINE r == SubSeq(q, Len(p) + 1, Len(q))
<1>1. r \in Positions /\ q = p \o r
  BY PrefixFacts
<1> HIDE DEF r
<1>2. Append(q, i) = p \o Append(r, i) /\ Append(r, i) \in Positions
  <2>1. p \o Append(r, i) = Append(p \o r, i)
    BY <1>1, ConcatFacts
  <2>2. Append(r, i) \in Positions
    BY <1>1, AppendFacts
  <2>3. QED
    BY <1>1, <2>1, <2>2
<1>3. QED
  BY <1>2, PrefixFacts

(* A position is below itself. *)
LEMMA PrefixOfItself ==
  ASSUME NEW p \in Positions
  PROVE  IsPrefix(p, p)
<1>1. p \o <<>> = p
  BY ConcatFacts, EmptyPosition
<1>2. IsPrefix(p, p \o <<>>)
  BY PrefixFacts, EmptyPosition
<1>3. QED
  BY <1>1, <1>2

(* What is below a position, but for the position, is below one of the two *)
(* that follow it.                                                         *)
LEMMA BelowAChild ==
  ASSUME NEW p \in Positions, NEW q \in Positions, IsPrefix(p, q), p # q
  PROVE  \E i \in {1, 2} : IsPrefix(Append(p, i), q)
<1> DEFINE Child1(r) == \E i \in {1, 2} : IsPrefix(Append(p, i), p \o r)
           S == {n \in Nat : \A r \in Positions : Len(r) = n + 1 => Child1(r)}
<1>1. \A r \in Positions : Len(r) \in Nat /\ (Len(r) = 0 <=> r = <<>>)
  BY EmptySeq, LenProperties DEF Positions
<1>2. ASSUME NEW r \in Positions, r # <<>>
      PROVE  /\ Front(r) \in Positions /\ Last(r) \in {1, 2} /\ Len(Front(r)) \in Nat
             /\ Len(r) = Len(Front(r)) + 1 /\ p \o Front(r) \in Positions
             /\ p \o r = Append(p \o Front(r), Last(r))
  <2>1. /\ Front(r) \in Positions /\ Last(r) \in {1, 2}
        /\ Len(r) = Len(Front(r)) + 1 /\ r = Append(Front(r), Last(r))
    BY <1>2, FrontFacts
  <2>2. /\ p \o Front(r) \in Positions
        /\ p \o Append(Front(r), Last(r)) = Append(p \o Front(r), Last(r))
    BY <2>1, ConcatFacts
  <2>3. QED
    BY <1>1, <2>1, <2>2
<1>3. 0 \in S
  <2>1. SUFFICES ASSUME NEW r \in Positions, Len(r) = 0 + 1 PROVE Child1(r)
    OBVIOUS
  <2>2. r # <<>>
    BY <1>1, <2>1
  <2>3. Front(r) = <<>> /\ Last(r) \in {1, 2} /\ p \o r = Append(p \o Front(r), Last(r))
    BY <1>1, <1>2, <2>1, <2>2
  <2>4. p \o r = Append(p, Last(r))
    BY <2>3, ConcatFacts, EmptyPosition
  <2>5. Append(p, Last(r)) \in Positions
    BY <2>3, AppendFacts
  <2>6. IsPrefix(Append(p, Last(r)), p \o r)
    BY <2>4, <2>5, PrefixOfItself
  <2>7. QED
    BY <2>3, <2>6
<1>4. ASSUME NEW n \in Nat, n \in S PROVE n + 1 \in S
  <2>1. SUFFICES ASSUME NEW r \in Positions, Len(r) = (n + 1) + 1 PROVE Child1(r)
    OBVIOUS
  <2>2. r # <<>>
    BY <1>1, <2>1
  <2>3. /\ Front(r) \in Positions /\ Last(r) \in {1, 2} /\ Len(Front(r)) = n + 1
        /\ p \o Front(r) \in Positions /\ p \o r = Append(p \o Front(r), Last(r))
    BY <1>2, <2>1, <2>2
  <2>4. PICK i \in {1, 2} : IsPrefix(Append(p, i), p \o Front(r))
    BY <1>4, <2>3
  <2>5. IsPrefix(Append(p, i), Append(p \o Front(r), Last(r)))
    BY <2>3, <2>4, AppendFacts, PrefixGrows
  <2>6. QED
    BY <2>3, <2>5
<1>5. \A n \in Nat : n \in S
  <2> HIDE DEF S
  <2>1. QED
    BY <1>3, <1>4, NatSetInduction
<1> DEFINE s == SubSeq(q, Len(p) + 1, Len(q))
<1>6. s \in Positions /\ q = p \o s
  BY PrefixFacts
<1> HIDE DEF s
<1>7. s # <<>>
  BY <1>6, ConcatFacts, EmptyPosition
<1> DEFINE k == Len(s) - 1
<1>8. k \in Nat /\ Len(s) = k + 1
  BY <1>1, <1>6, <1>7
<1> HIDE DEF k
<1>9. QED
  BY <1>5, <1>6, <1>8

-----------------------------------------------------------------------------
(* Trees *)

(* No terminal has two panes. *)
Distinct(root) == \A p, q \in Leaves(root) : root[p] = root[q] => p = q

(* Leaves and splits are different nodes. *)
LEMMA NodeKinds ==
  /\ \A t : IsLeaf(Leaf(t)) /\ Leaf(t).terminal_id = t
  /\ \A node \in [direction : Directions, ratio : MinRatio .. MaxRatio] : ~ IsLeaf(node)
<1>1. ASSUME NEW t PROVE IsLeaf(Leaf(t)) /\ Leaf(t).terminal_id = t
  BY DEF IsLeaf, Leaf
<1>2. ASSUME NEW node \in [direction : Directions, ratio : MinRatio .. MaxRatio]
      PROVE  ~ IsLeaf(node)
  BY DEF IsLeaf
<1>3. QED
  BY <1>1, <1>2

(* What IsTree says, of leaves and of splits.  *)
LEMMA TreeFacts ==
  ASSUME NEW root, NEW T, IsTree(root, T)
  PROVE  /\ DOMAIN root \subseteq Positions /\ <<>> \in DOMAIN root
         /\ IsFiniteSet(DOMAIN root)
         /\ \A p \in DOMAIN root \ {<<>>} : Front(p) \in DOMAIN root
         /\ \A p \in Leaves(root) : /\ p \in DOMAIN root
                                    /\ root[p].terminal_id \in T
                                    /\ root[p] = Leaf(root[p].terminal_id)
                                    /\ \A i \in {1, 2} : Append(p, i) \notin DOMAIN root
         /\ \A p \in DOMAIN root \ Leaves(root) :
               /\ root[p] \in [direction : Directions, ratio : MinRatio .. MaxRatio]
               /\ \A i \in {1, 2} : Append(p, i) \in DOMAIN root
<1>1. ASSUME NEW p \in Leaves(root)
      PROVE  /\ p \in DOMAIN root /\ root[p].terminal_id \in T
             /\ root[p] = Leaf(root[p].terminal_id)
             /\ \A i \in {1, 2} : Append(p, i) \notin DOMAIN root
  <2>1. p \in DOMAIN root /\ IsLeaf(root[p])
    BY DEF Leaves
  <2>2. root[p] \notin [direction : Directions, ratio : MinRatio .. MaxRatio]
    BY <2>1, NodeKinds
  <2>3. root[p] \in {Leaf(t) : t \in T} /\ \A i \in {1, 2} : Append(p, i) \notin DOMAIN root
    BY <2>1, <2>2 DEF IsTree
  <2>4. QED
    BY <2>1, <2>3, NodeKinds
<1>2. ASSUME NEW p \in DOMAIN root \ Leaves(root)
      PROVE  /\ root[p] \in [direction : Directions, ratio : MinRatio .. MaxRatio]
             /\ \A i \in {1, 2} : Append(p, i) \in DOMAIN root
  <2>1. ~ IsLeaf(root[p])
    BY DEF Leaves
  <2>2. root[p] \notin {Leaf(t) : t \in T}
    BY <2>1, NodeKinds
  <2>3. QED
    BY <2>2 DEF IsTree
<1>3. QED
  BY <1>1, <1>2 DEF IsTree, Positions

(* root is a tree whose leaves are L. *)
TreeWith(root, T, L) ==
  /\ DOMAIN root \subseteq Positions /\ <<>> \in DOMAIN root
  /\ IsFiniteSet(DOMAIN root)
  /\ \A p \in DOMAIN root \ {<<>>} : Front(p) \in DOMAIN root
  /\ L \subseteq DOMAIN root
  /\ \A p \in L : /\ root[p] \in {Leaf(t) : t \in T}
                  /\ \A i \in {1, 2} : Append(p, i) \notin DOMAIN root
  /\ \A p \in DOMAIN root \ L :
       /\ root[p] \in [direction : Directions, ratio : MinRatio .. MaxRatio]
       /\ \A i \in {1, 2} : Append(p, i) \in DOMAIN root

(* TreeWith is IsTree with the leaves given. *)
LEMMA TreeRule ==
  ASSUME NEW root, NEW T, NEW L, TreeWith(root, T, L)
  PROVE  IsTree(root, T) /\ Leaves(root) = L
<1>1. IsTree(root, T)
  BY DEF IsTree, TreeWith, Positions
<1>2. \A p \in DOMAIN root : IsLeaf(root[p]) <=> p \in L
  BY NodeKinds DEF TreeWith
<1>3. L \subseteq DOMAIN root
  BY DEF TreeWith
<1>4. QED
  BY <1>1, <1>2, <1>3 DEF Leaves

(* The tree of a client that attaches to one terminal. *)
LEMMA NewIsTree ==
  ASSUME NEW T, NEW t \in T
  PROVE  /\ IsTree(New(t).root, T) /\ Distinct(New(t).root)
         /\ Panes(New(t).root) = {t} /\ New(t).focused = t
<1> DEFINE root == New(t).root
<1>1. root = [p \in {<<>>} |-> Leaf(t)] /\ New(t).focused = t
  BY DEF New
<1>2. DOMAIN root = {<<>>} /\ root[<<>>] = Leaf(t)
  BY <1>1
<1> HIDE DEF root
<1>3. IsTree(root, T) /\ Leaves(root) = {<<>>}
  <2>1. \A i \in {1, 2} : Append(<<>>, i) # <<>>
    BY EmptyPosition, AppendFacts
  <2>2. IsFiniteSet({<<>>})
    BY FS_Singleton
  <2>3. QED
    <3>1. TreeWith(root, T, {<<>>})
      BY <1>2, <2>1, <2>2, EmptyPosition DEF TreeWith
    <3>2. QED
      BY <3>1, TreeRule
<1>4. Panes(root) = {t}
  BY <1>2, <1>3, NodeKinds DEF Panes
<1>5. Distinct(root)
  BY <1>3 DEF Distinct
<1>6. QED
  BY <1>1, <1>3, <1>4, <1>5 DEF root

(* A child of a position, for the provers to take as it is. *)
Child(p, i) == Append(p, i)

(* Splitting a leaf adds one leaf, for the new terminal. *)
LEMMA SplitNodeFacts ==
  ASSUME NEW root, NEW T, IsTree(root, T), NEW p \in Leaves(root),
         NEW dir \in Directions, NEW new \in T,
         NEW split, split = SplitNode(root, p, dir, new)
  PROVE
         /\ IsTree(split, T)
         /\ \A q : q \in DOMAIN split <=> q \in DOMAIN root \/ q = Child(p, 1) \/ q = Child(p, 2)
         /\ Leaves(split) = (Leaves(root) \ {p}) \cup {Child(p, 1), Child(p, 2)}
         /\ split[Child(p, 1)] = root[p] /\ split[Child(p, 2)] = Leaf(new)
         /\ split[p] = Split(dir, Half)
         /\ \A q \in DOMAIN root \ {p} : split[q] = root[q]
<1> USE DEF Child
<1> DEFINE p1 == Append(p, 1)
           p2 == Append(p, 2)
           L == (Leaves(root) \ {p}) \cup {p1, p2}
<1>1. /\ p \in DOMAIN root /\ p1 \notin DOMAIN root /\ p2 \notin DOMAIN root
      /\ DOMAIN root \subseteq Positions
      /\ root[p] \in {Leaf(t) : t \in T}
  BY TreeFacts
<1>2. /\ p1 \in Positions /\ Front(p1) = p /\ p1 # p2 /\ p1 # <<>>
      /\ p2 \in Positions /\ Front(p2) = p /\ p2 # <<>>
  <2>1. p \in Positions
    BY <1>1
  <2>2. Last(p1) = 1 /\ Last(p2) = 2
    BY <2>1, AppendFacts
  <2>3. QED
    BY <2>1, <2>2, AppendFacts
<1>3. /\ DOMAIN split = DOMAIN root \cup {p1, p2}
      /\ split[p] = Split(dir, Half) /\ split[p1] = root[p] /\ split[p2] = Leaf(new)
      /\ \A q \in DOMAIN root \ {p} : split[q] = root[q]
  <2> HIDE DEF p1, p2
  <2>1. split = [q \in DOMAIN root \cup {p1, p2} |->
                   CASE q = p  -> Split(dir, Half)
                     [] q = p1 -> root[p]
                     [] q = p2 -> Leaf(new)
                     [] OTHER  -> root[q]]
    BY DEF SplitNode, p1, p2
  <2>2. DOMAIN split = DOMAIN root \cup {p1, p2}
    BY <2>1
  <2>3. split[p] = Split(dir, Half)
    BY <2>1, <1>1
  <2>4. split[p1] = root[p] /\ split[p2] = Leaf(new)
    BY <2>1, <1>1, <1>2
  <2>5. \A q \in DOMAIN root \ {p} : split[q] = root[q]
    BY <2>1, <1>1
  <2>6. QED
    BY <2>2, <2>3, <2>4, <2>5
<1>4. IsTree(split, T) /\ Leaves(split) = L
  <2>1. DOMAIN split \subseteq Positions /\ <<>> \in DOMAIN split
    BY <1>1, <1>2, <1>3, TreeFacts
  <2>2. IsFiniteSet(DOMAIN split)
    <3>1. IsFiniteSet(DOMAIN root \cup {p1})
      BY TreeFacts, FS_AddElement
    <3>2. IsFiniteSet((DOMAIN root \cup {p1}) \cup {p2})
      BY <3>1, FS_AddElement
    <3>3. DOMAIN split = (DOMAIN root \cup {p1}) \cup {p2}
      BY <1>3
    <3>4. QED
      BY <3>2, <3>3
  <2>3. ASSUME NEW q \in DOMAIN split \ {<<>>} PROVE Front(q) \in DOMAIN split
    <3>1. CASE q \in DOMAIN root
      <4>1. Front(q) \in DOMAIN root
        BY <3>1, TreeFacts
      <4>2. QED
        BY <4>1, <1>3
    <3>2. CASE q \in {p1, p2}
      BY <3>2, <1>1, <1>2, <1>3
    <3>3. QED
      BY <3>1, <3>2, <1>3
  <2>4. L \subseteq DOMAIN split
    BY <1>3, TreeFacts
  <2>5. ASSUME NEW q \in L
        PROVE  /\ split[q] \in {Leaf(t) : t \in T}
               /\ \A i \in {1, 2} : Append(q, i) \notin DOMAIN split
    <3>1. q \in Positions
      BY <2>1, <2>4
    <3>2. ASSUME NEW i \in {1, 2} PROVE Append(q, i) \in Positions /\ Front(Append(q, i)) = q
      BY <3>1, AppendFacts
    <3>3. CASE q \in Leaves(root) \ {p}
      <4>1. ASSUME NEW i \in {1, 2} PROVE Append(q, i) \notin DOMAIN split
        <5>1. Append(q, i) \notin DOMAIN root
          BY <3>3, TreeFacts
        <5>2. Append(q, i) # p1 /\ Append(q, i) # p2
          BY <3>2, <3>3, <1>2
        <5>3. QED
          BY <5>1, <5>2, <1>3
      <4>2. split[q] = root[q] /\ root[q] \in {Leaf(t) : t \in T}
        BY <3>3, <1>3, TreeFacts
      <4>3. QED
        BY <4>1, <4>2
    <3>4. CASE q \in {p1, p2}
      <4>1. ASSUME NEW i \in {1, 2} PROVE Append(q, i) \notin DOMAIN split
        <5>1. Append(q, i) # <<>>
          BY <3>1, AppendFacts
        <5>2. Append(q, i) \notin DOMAIN root
          <6>1. q \notin DOMAIN root /\ Front(Append(q, i)) = q
            BY <1>1, <3>2, <3>4
          <6>2. \A r \in DOMAIN root \ {<<>>} : Front(r) \in DOMAIN root
            BY TreeFacts
          <6>3. QED
            BY <6>1, <6>2, <5>1
        <5>3. Append(q, i) # p1 /\ Append(q, i) # p2
          <6>1. q # p
            BY <1>1, <3>4
          <6>2. QED
            BY <6>1, <3>2, <1>2
        <5>4. QED
          BY <5>2, <5>3, <1>3
      <4>2. split[q] \in {Leaf(t) : t \in T}
        BY <3>4, <1>1, <1>3
      <4>3. QED
        BY <4>1, <4>2
    <3>5. QED
      BY <3>3, <3>4
  <2>6. ASSUME NEW q \in DOMAIN split \ L
        PROVE  /\ split[q] \in [direction : Directions, ratio : MinRatio .. MaxRatio]
               /\ \A i \in {1, 2} : Append(q, i) \in DOMAIN split
    <3>1. CASE q = p
      <4>1. split[q] \in [direction : Directions, ratio : MinRatio .. MaxRatio]
        BY <3>1, <1>3 DEF Split, Half, MinRatio, MaxRatio
      <4>2. QED
        BY <4>1, <3>1, <1>3
    <3>2. CASE q # p
      <4>1. q \in DOMAIN root \ Leaves(root) /\ q \in DOMAIN root \ {p}
        BY <3>2, <1>3
      <4>2. QED
        BY <4>1, <1>3, TreeFacts
    <3>3. QED
      BY <3>1, <3>2
  <2>7. QED
    <3>1. TreeWith(split, T, L)
      BY <2>1, <2>2, <2>3, <2>4, <2>5, <2>6 DEF TreeWith
    <3>2. QED
      BY <3>1, TreeRule
<1>5. QED
  BY <1>3, <1>4

-----------------------------------------------------------------------------
(* Subtrees *)

(* A path that is not empty starts with a step to a child. *)
LEMMA FirstStep ==
  ASSUME NEW p \in Positions, NEW s \in Positions, s # <<>>
  PROVE  \E i \in {1, 2}, r \in Positions : s = <<i>> \o r /\ p \o s = Append(p, i) \o r
<1> USE DEF Positions
<1>1. Len(s) \in Nat \ {0}
  BY EmptySeq
<1> DEFINE i == s[1]
           r == SubSeq(s, 2, Len(s))
<1>2. i \in {1, 2} /\ r \in Seq({1, 2})
  <2>1. \A k \in 1..Len(s) : s[k] \in {1, 2}
    BY ElementOfSeq
  <2>2. \A k \in 2..Len(s) : s[k] \in {1, 2}
    BY <2>1, <1>1
  <2>3. QED
    BY <2>1, <2>2, <1>1, SubSeqProperties
<1>3. s = <<i>> \o r
  <2>1. SubSeq(s, 1, Len(s)) = <<s[1]>> \o SubSeq(s, 1 + 1, Len(s))
    <3>1. 1 \in 1..Len(s) /\ Len(s) \in 1..Len(s)
      BY <1>1
    <3>2. QED
      BY <3>1, SubSeqRecursiveFirst
  <2>2. SubSeq(s, 1, Len(s)) = s
    BY SubSeqFull
  <2>3. QED
    BY <2>1, <2>2
<1>4. p \o s = Append(p, i) \o r
  <2> HIDE DEF i, r
  <2>1. <<i>> \in Seq({1, 2}) /\ Append(p, i) = p \o <<i>>
    BY <1>2, AppendIsConcat
  <2>2. (p \o <<i>>) \o r = p \o (<<i>> \o r)
    BY <1>2, <2>1, ConcatAssociative
  <2>3. QED
    BY <1>3, <2>1, <2>2
<1> HIDE DEF i, r
<1>5. QED
  BY <1>2, <1>3, <1>4

(* Nothing is below a leaf. *)
LEMMA LeafIsLast ==
  ASSUME NEW root, NEW T, IsTree(root, T), NEW p \in Leaves(root),
         NEW s \in Positions, p \o s \in DOMAIN root
  PROVE  s = <<>>
<1> DEFINE D == DOMAIN root
           S == {n \in Nat : \A r \in Positions : Len(r) <= n /\ p \o r \in D => r = <<>>}
<1>1. /\ p \in Positions /\ D \subseteq Positions
      /\ \A i \in {1, 2} : Append(p, i) \notin D
      /\ \A q \in D \ {<<>>} : Front(q) \in D
  BY TreeFacts
<1>2. \A r \in Positions : Len(r) \in Nat /\ (Len(r) = 0 => r = <<>>)
  BY LenProperties, EmptySeq DEF Positions
<1> HIDE DEF D
<1>3. 0 \in S
  BY <1>2
<1>4. ASSUME NEW n \in Nat, n \in S PROVE n + 1 \in S
  <2> SUFFICES ASSUME NEW r \in Positions, Len(r) <= n + 1, p \o r \in D, r # <<>>
               PROVE  FALSE
    OBVIOUS
  <2>1. /\ Front(r) \in Positions /\ Last(r) \in {1, 2} /\ r = Append(Front(r), Last(r))
        /\ Len(r) = Len(Front(r)) + 1
    BY FrontFacts
  <2>2. p \o Front(r) \in D
    <3>1. Front(p \o r) = p \o Front(r) /\ p \o r # <<>>
      BY <1>1, FrontOfConcat
    <3>2. QED
      BY <3>1, <1>1
  <2>3. Len(Front(r)) <= n
    BY <2>1, <1>2
  <2>4. Front(r) = <<>>
    BY <2>1, <2>2, <2>3, <1>4
  <2>5. p \o r = Append(p, Last(r))
    <3>1. p \o Append(Front(r), Last(r)) = Append(p \o Front(r), Last(r))
      <4> DEFINE f == Front(r)
                 i == Last(r)
      <4>1. p \in Positions /\ f \in Positions /\ i \in {1, 2}
        BY <1>1, <2>1
      <4> HIDE DEF f, i, S
      <4>2. \A j \in {1, 2} : p \o Append(f, j) = Append(p \o f, j)
        BY <4>1, ConcatFacts
      <4>3. p \o Append(f, i) = Append(p \o f, i)
        BY <4>1, <4>2
      <4>4. QED
        BY <4>3 DEF f, i
    <3>2. p \o <<>> = p
      BY <1>1, ConcatFacts
    <3>3. QED
      BY <3>1, <3>2, <2>1, <2>4
  <2>6. QED
    BY <2>1, <2>5, <1>1
<1>5. Len(s) \in S
  <2> HIDE DEF S
  <2>1. \A n \in Nat : n \in S
    BY <1>3, <1>4, NatSetInduction
  <2>2. QED
    BY <2>1, <1>2
<1>6. QED
  BY <1>2, <1>5 DEF D

(* What lies below s, seen from s. *)
Under(root, s) == {r \in Positions : s \o r \in DOMAIN root}

(* Below, which is finite by its form, says the same as Under. *)
LEMMA BelowFacts ==
  ASSUME NEW root, NEW T, IsTree(root, T), NEW s \in Positions
  PROVE  Below(root, s) = Under(root, s)
<1> DEFINE suffix(q) == SubSeq(q, Len(s) + 1, Len(q))
<1>1. DOMAIN root \subseteq Positions
  BY TreeFacts
<1>2. ASSUME NEW q \in DOMAIN root PROVE suffix(q) \in Positions
  <2>1. Len(s) \in Nat /\ Len(q) \in Nat /\ \A k \in 1..Len(q) : q[k] \in {1, 2}
    BY <1>1, LenProperties, ElementOfSeq DEF Positions
  <2>2. \A k \in Len(s) + 1..Len(q) : q[k] \in {1, 2}
    BY <2>1
  <2>3. QED
    BY <2>1, <2>2, SubSeqProperties DEF Positions
<1>3. ASSUME NEW r \in Under(root, s) PROVE r \in {suffix(q) : q \in DOMAIN root}
  <2>1. r \in Positions /\ s \o r \in DOMAIN root
    BY DEF Under
  <2>2. suffix(s \o r) = r
    BY <2>1, SuffixFacts
  <2>3. QED
    BY <2>1, <2>2
<1>4. Below(root, s) = {r \in {suffix(q) : q \in DOMAIN root} : s \o r \in DOMAIN root}
  BY DEF Below
<1> HIDE DEF suffix
<1>5. QED
  BY <1>2, <1>3, <1>4 DEF Under

(* A set of positions that start alike is as finite as the tree. *)
LEMMA UnderIsFinite ==
  ASSUME NEW root, NEW T, IsTree(root, T), NEW s \in Positions
  PROVE  IsFiniteSet(Under(root, s))
<1> DEFINE f == [r \in Under(root, s) |-> s \o r]
<1>1. f \in [Under(root, s) -> DOMAIN root]
  BY DEF Under
<1>2. \A q, r \in Under(root, s) : f[q] = f[r] => q = r
  BY ConcatOnce DEF Under
<1>3. f \in Injection(Under(root, s), DOMAIN root)
  BY <1>1, <1>2 DEF Injection, IsInjective
<1>4. QED
  BY <1>3, TreeFacts, FS_Injection

(* A subtree is a tree; its leaves are the leaves below its root. *)
LEMMA SubtreeFacts ==
  ASSUME NEW root, NEW T, IsTree(root, T), NEW s \in DOMAIN root
  PROVE  LET sub == Subtree(root, s) IN
         /\ IsTree(sub, T)
         /\ DOMAIN sub = Under(root, s)
         /\ \A r \in Under(root, s) : sub[r] = root[s \o r]
         /\ Leaves(sub) = {r \in Under(root, s) : s \o r \in Leaves(root)}
<1> DEFINE sub == Subtree(root, s)
           U == Under(root, s)
           L == {r \in U : s \o r \in Leaves(root)}
<1>1. s \in Positions
  BY TreeFacts
<1>2. DOMAIN sub = U /\ \A r \in U : sub[r] = root[s \o r]
  BY <1>1, BelowFacts DEF Subtree
<1> HIDE DEF sub
<1>3. TreeWith(sub, T, L)
  <2>1. DOMAIN sub \subseteq Positions /\ IsFiniteSet(DOMAIN sub)
    BY <1>1, <1>2, UnderIsFinite DEF Under
  <2>2. <<>> \in DOMAIN sub
    <3>1. s \o <<>> = s /\ <<>> \in Positions
      BY <1>1, EmptyPosition, ConcatFacts
    <3>2. QED
      BY <3>1, <1>2 DEF Under
  <2>3. ASSUME NEW r \in DOMAIN sub \ {<<>>} PROVE Front(r) \in DOMAIN sub
    <3>1. r \in Positions /\ r # <<>> /\ s \o r \in DOMAIN root
      BY <1>2 DEF Under
    <3>2. Front(s \o r) = s \o Front(r) /\ s \o r # <<>> /\ Front(r) \in Positions
      BY <3>1, <1>1, FrontOfConcat, FrontFacts
    <3>3. Front(s \o r) \in DOMAIN root
      BY <3>1, <3>2, TreeFacts
    <3>4. QED
      BY <3>2, <3>3, <1>2 DEF Under
  <2>4. ASSUME NEW r \in U
        PROVE  \A i \in {1, 2} : Append(r, i) \in U <=> Append(s \o r, i) \in DOMAIN root
    <3>1. r \in Positions
      BY DEF Under
    <3>2. \A i \in {1, 2} : Append(r, i) \in Positions /\ s \o Append(r, i) = Append(s \o r, i)
      <4>1. \A i \in {1, 2} : Append(r, i) \in Positions
        BY <3>1, AppendFacts
      <4>2. \A i \in {1, 2} : s \o Append(r, i) = Append(s \o r, i)
        BY <3>1, <1>1, ConcatFacts
      <4>3. QED
        BY <4>1, <4>2
    <3>3. QED
      BY <3>2 DEF Under
  <2>5. ASSUME NEW r \in L
        PROVE  /\ sub[r] \in {Leaf(t) : t \in T}
               /\ \A i \in {1, 2} : Append(r, i) \notin DOMAIN sub
    <3>1. r \in U /\ s \o r \in Leaves(root)
      OBVIOUS
    <3>2. root[s \o r] \in {Leaf(t) : t \in T}
      BY <3>1, TreeFacts
    <3>3. \A i \in {1, 2} : Append(s \o r, i) \notin DOMAIN root
      BY <3>1, TreeFacts
    <3>4. QED
      BY <3>1, <3>2, <3>3, <2>4, <1>2
  <2>6. ASSUME NEW r \in U \ L
        PROVE  /\ sub[r] \in [direction : Directions, ratio : MinRatio .. MaxRatio]
               /\ \A i \in {1, 2} : Append(r, i) \in DOMAIN sub
    <3>1. s \o r \in DOMAIN root \ Leaves(root)
      BY DEF Under
    <3>2. QED
      BY <3>1, <2>4, <1>2, TreeFacts
  <2>7. QED
    BY <2>1, <2>2, <2>3, <2>5, <2>6, <1>2 DEF TreeWith
<1>4. QED
  BY <1>2, <1>3, TreeRule DEF sub

(* Following the first children leads to a leaf. *)
LEMMA FirstLeafFacts ==
  ASSUME NEW root, NEW T, IsTree(root, T)
  PROVE  FirstLeaf(root) \in Panes(root)
<1> DEFINE Ones(n) == [i \in 1..n |-> 1]
           S == {n \in Nat : Ones(n) \in DOMAIN root}
<1>1. ASSUME NEW n \in Nat
      PROVE  /\ Ones(n) \in Positions /\ Len(Ones(n)) = n
             /\ DOMAIN Ones(n) = 1..n /\ \A i \in 1..n : Ones(n)[i] = 1
  BY DEF Positions
<1>2. ASSUME NEW n \in Nat PROVE Append(Ones(n), 1) = Ones(n + 1)
  <2>1. /\ Append(Ones(n), 1) \in Seq({1, 2}) /\ Len(Append(Ones(n), 1)) = n + 1
        /\ \A k \in 1..n : Append(Ones(n), 1)[k] = 1
        /\ Append(Ones(n), 1)[n + 1] = 1
    BY <1>1, AppendProperties DEF Positions
  <2>2. \A k \in 1..n + 1 : Append(Ones(n), 1)[k] = Ones(n + 1)[k]
    BY <2>1, <1>1
  <2>3. Ones(n + 1) \in Seq({1, 2}) /\ Len(Ones(n + 1)) = n + 1
    BY <1>1 DEF Positions
  <2> HIDE DEF Ones
  <2>4. QED
    BY <2>1, <2>2, <2>3, SeqEqual
<1>3. Ones(0) = <<>>
  BY <1>1, EmptySeq DEF Positions
<1> HIDE DEF Ones
<1>4. \E n \in Nat : Ones(n) \in Leaves(root)
  <2> SUFFICES ASSUME \A n \in Nat : Ones(n) \notin Leaves(root) PROVE FALSE
    OBVIOUS
  <2>1. 0 \in S
    BY <1>3, TreeFacts
  <2>2. ASSUME NEW n \in Nat, n \in S PROVE n + 1 \in S
    <3>1. Ones(n) \in DOMAIN root \ Leaves(root)
      BY <2>2
    <3>2. Append(Ones(n), 1) \in DOMAIN root
      BY <3>1, TreeFacts
    <3>3. Ones(n + 1) \in DOMAIN root
      BY <3>2, <1>2
    <3>4. QED
      BY <3>3
  <2>3. \A n \in Nat : Ones(n) \in DOMAIN root
    <3> HIDE DEF S
    <3>1. \A n \in Nat : n \in S
      BY <2>1, <2>2, NatSetInduction
    <3>2. QED
      BY <3>1 DEF S
  <2> DEFINE c == Cardinality(DOMAIN root)
             f == [n \in 0..c |-> Ones(n)]
  <2>4. IsFiniteSet(DOMAIN root) /\ c \in Nat
    BY TreeFacts, FS_CardinalityType
  <2> HIDE DEF c
  <2>5. IsFiniteSet(0..c) /\ Cardinality(0..c) = c + 1
    BY <2>4, FS_Interval
  <2>6. f \in [0..c -> DOMAIN root]
    BY <2>3, <2>4
  <2>7. \E m, n \in 0..c : m # n /\ f[m] = f[n]
    <3> HIDE DEF f
    <3>1. Cardinality(DOMAIN root) < Cardinality(0..c)
      BY <2>4, <2>5 DEF c
    <3>2. QED
      BY <2>4, <2>5, <2>6, <3>1, FS_PigeonHole
  <2>8. QED
    BY <2>4, <2>7, <1>1
<1>5. PICK n \in Nat : Ones(n) \in Leaves(root)
  BY <1>4
<1>6. \A i \in DOMAIN Ones(n) : Ones(n)[i] = 1
  BY <1>1
<1>7. QED
  BY <1>5, <1>6 DEF FirstLeaf, Panes

-----------------------------------------------------------------------------
(* Closing a leaf *)

(* The other child of the parent of p. *)
Sibling(p) == Append(Front(p), 3 - Last(p))
(* What is not at or under a position. *)
Others(root, parent) == {q \in DOMAIN root : ~ IsPrefix(parent, q)}

(* A leaf but the root has a parent, and a sibling. *)
LEMMA SiblingFacts ==
  ASSUME NEW root, NEW T, IsTree(root, T), NEW p \in Leaves(root), p # <<>>
  PROVE  /\ p \in Positions /\ Front(p) \in DOMAIN root \ Leaves(root)
         /\ Front(p) \in Positions /\ p = Append(Front(p), Last(p))
         /\ Sibling(p) \in DOMAIN root /\ Sibling(p) \in Positions /\ Sibling(p) # p
         /\ 3 - Last(p) \in {1, 2} /\ Last(p) \in {1, 2}
         /\ \A r \in Positions : \E s \in Positions : s # <<>> /\ Sibling(p) \o r = Front(p) \o s
<1>1. p \in DOMAIN root /\ p \in Positions /\ DOMAIN root \subseteq Positions
  BY TreeFacts
<1>2. /\ Front(p) \in Positions /\ Last(p) \in {1, 2} /\ p = Append(Front(p), Last(p))
  BY <1>1, FrontFacts
<1>3. Front(p) \in DOMAIN root \ Leaves(root)
  <2>1. Front(p) \in DOMAIN root
    BY <1>1, TreeFacts
  <2>2. Append(Front(p), Last(p)) \in DOMAIN root
    BY <1>1, <1>2
  <2>3. QED
    BY <1>2, <2>1, <2>2, TreeFacts
<1>4. 3 - Last(p) \in {1, 2} /\ 3 - Last(p) # Last(p)
  BY <1>2
<1>5. Sibling(p) \in DOMAIN root /\ Sibling(p) \in Positions
  BY <1>1, <1>3, <1>4, TreeFacts DEF Sibling
<1>6. Sibling(p) # p
  <2>1. Last(Sibling(p)) = 3 - Last(p)
    BY <1>2, <1>4, AppendFacts DEF Sibling
  <2>2. QED
    BY <1>4, <2>1
<1>7. ASSUME NEW r \in Positions
      PROVE  \E s \in Positions : s # <<>> /\ Sibling(p) \o r = Front(p) \o s
  <2> DEFINE a == 3 - Last(p)
             s == <<a>> \o r
  <2>1. a \in {1, 2} /\ <<a>> \in Positions
    BY <1>4 DEF Positions
  <2>2. Sibling(p) = Front(p) \o <<a>>
    BY <1>2, <2>1, AppendIsConcat DEF Sibling, Positions
  <2>3. (Front(p) \o <<a>>) \o r = Front(p) \o s
    BY <1>2, <2>1, ConcatAssociative DEF Positions
  <2>4. s \in Positions /\ Len(s) = Len(<<a>>) + Len(r)
    BY <2>1, ConcatFacts
  <2>5. s # <<>>
    <3>1. Len(<<a>>) = 1 /\ Len(r) \in Nat /\ Len(<<>>) = 0
      BY LenProperties, EmptySeq DEF Positions
    <3> HIDE DEF s
    <3>2. QED
      BY <2>4, <3>1
  <2>6. QED
    BY <2>2, <2>3, <2>4, <2>5
<1>8. QED
  BY <1>1, <1>2, <1>3, <1>4, <1>5, <1>6, <1>7

(* The nodes of the new tree: those that are not below the parent, and those   *)
(* below the sibling, moved up.                                                *)
LEMMA RemoveNodeShape ==
  ASSUME NEW root, NEW T, IsTree(root, T), NEW p \in Leaves(root), p # <<>>
  PROVE  LET R == RemoveNode(root, p)
             U == Under(root, Sibling(p))
             O == Others(root, Front(p))
         IN  /\ DOMAIN R = O \cup {Front(p) \o r : r \in U}
             /\ \A q \in O : R[q] = root[q]
             /\ \A r \in U : /\ R[Front(p) \o r] = root[Sibling(p) \o r]
                             /\ Front(p) \o r \notin O /\ Sibling(p) \o r \notin O
                             /\ Sibling(p) \o r \in DOMAIN root
                             /\ r \in Positions
<1> DEFINE R == RemoveNode(root, p)
           U == Under(root, Sibling(p))
           O == Others(root, Front(p))
           M == {Front(p) \o r : r \in U}
           sub == Subtree(root, Sibling(p))
<1>1. Front(p) \in Positions /\ Sibling(p) \in DOMAIN root /\ Sibling(p) \in Positions
  BY SiblingFacts
<1>2. DOMAIN sub = U /\ \A r \in U : sub[r] = root[Sibling(p) \o r]
  BY <1>1, SubtreeFacts
<1>3. R = [q \in O \cup {Front(p) \o r : r \in DOMAIN sub} |->
             IF q \in O THEN root[q] ELSE sub[SubSeq(q, Len(Front(p)) + 1, Len(q))]]
  BY DEF RemoveNode, Sibling, Others
<1> HIDE DEF R, sub, O, U
<1>4. DOMAIN R = O \cup M
  BY <1>2, <1>3
<1>5. \A q \in O : R[q] = root[q]
  BY <1>3
<1>6. ASSUME NEW r \in U
      PROVE  /\ R[Front(p) \o r] = root[Sibling(p) \o r]
             /\ Front(p) \o r \notin O /\ Sibling(p) \o r \notin O
             /\ Sibling(p) \o r \in DOMAIN root
             /\ r \in Positions
  <2>1. r \in Positions /\ Sibling(p) \o r \in DOMAIN root
    BY DEF U, Under
  <2>2. IsPrefix(Front(p), Front(p) \o r)
    BY <1>1, <2>1, PrefixFacts
  <2>3. IsPrefix(Front(p), Sibling(p) \o r)
    <3>1. PICK s \in Positions : Sibling(p) \o r = Front(p) \o s
      BY <2>1, SiblingFacts
    <3>2. QED
      BY <1>1, <3>1, PrefixFacts
  <2>4. Front(p) \o r \notin O /\ Sibling(p) \o r \notin O
    BY <2>2, <2>3 DEF O, Others
  <2>5. R[Front(p) \o r] = sub[SubSeq(Front(p) \o r, Len(Front(p)) + 1, Len(Front(p) \o r))]
    BY <1>2, <1>3, <2>4
  <2>6. R[Front(p) \o r] = sub[r]
    BY <1>1, <2>1, <2>5, SuffixFacts
  <2>7. QED
    BY <1>2, <2>1, <2>4, <2>6
<1>7. QED
  BY <1>4, <1>5, <1>6 DEF R, O, U

(* remove_node leaves finitely many nodes. *)
LEMMA RemovedIsFinite ==
  ASSUME NEW root, NEW T, IsTree(root, T), NEW p \in Leaves(root), p # <<>>
  PROVE  IsFiniteSet(DOMAIN RemoveNode(root, p))
<1> DEFINE R == RemoveNode(root, p)
           U == Under(root, Sibling(p))
           O == Others(root, Front(p))
           M == {Front(p) \o r : r \in U}
           f == [r \in U |-> Front(p) \o r]
<1>1. DOMAIN R = O \cup M
  BY RemoveNodeShape
<1>2. IsFiniteSet(O)
  <2>1. O \in SUBSET DOMAIN root
    BY DEF Others
  <2>2. QED
    BY <2>1, TreeFacts, FS_Subset
<1>3. IsFiniteSet(U)
  BY SiblingFacts, UnderIsFinite
<1>4. f \in Surjection(U, M)
  BY DEF Surjection
<1> HIDE DEF f, M, O, U, R
<1>5. IsFiniteSet(M)
  BY <1>3, <1>4, FS_Surjection
<1>6. QED
  BY <1>1, <1>2, <1>5, FS_Union DEF R

(* remove_node leaves a tree. *)
LEMMA RemoveNodeFacts ==
  ASSUME NEW root, NEW T, IsTree(root, T), NEW p \in Leaves(root), p # <<>>
  PROVE  LET R == RemoveNode(root, p)
             U == Under(root, Sibling(p))
             O == Others(root, Front(p))
         IN  /\ IsTree(R, T)
             /\ Leaves(R) = {q \in O : q \in Leaves(root)}
                              \cup {Front(p) \o r : r \in {s \in U : Sibling(p) \o s \in Leaves(root)}}
<1> DEFINE R == RemoveNode(root, p)
           parent == Front(p)
           sib == Sibling(p)
           U == Under(root, sib)
           O == Others(root, parent)
           LO == {q \in O : q \in Leaves(root)}
           LU == {r \in U : sib \o r \in Leaves(root)}
           L == LO \cup {parent \o r : r \in LU}
<1>1. /\ parent \in Positions /\ sib \in Positions /\ sib \in DOMAIN root
      /\ parent \in DOMAIN root
      /\ O \subseteq DOMAIN root /\ DOMAIN root \subseteq Positions
  BY SiblingFacts, TreeFacts DEF Others
<1>2. /\ DOMAIN R = O \cup {parent \o r : r \in U}
      /\ \A q \in O : R[q] = root[q]
      /\ \A r \in U : /\ R[parent \o r] = root[sib \o r]
                      /\ parent \o r \notin O
                      /\ sib \o r \in DOMAIN root
                      /\ r \in Positions
  BY RemoveNodeShape
<1>3. IsFiniteSet(DOMAIN R)
  BY RemovedIsFinite
<1>4. \A q \in DOMAIN root : q \in O <=> ~ IsPrefix(parent, q)
  BY DEF Others
<1>5. \A r \in Positions : sib \o r \in DOMAIN root => r \in U
  BY DEF Under
<1> HIDE DEF R, parent, sib, U, O
<1>6. <<>> \in U /\ parent \o <<>> = parent
  BY <1>1, <1>5, EmptyPosition, ConcatFacts
<1>7. ASSUME NEW q \in Positions, IsPrefix(parent, q)
      PROVE  \E s \in Positions : q = parent \o s
  BY <1>1, <1>7, PrefixFacts
<1>8. \A s \in Positions : IsPrefix(parent, parent \o s)
  BY <1>1, PrefixFacts
<1>9. DOMAIN R \subseteq Positions
  <2>1. ASSUME NEW r \in U PROVE parent \o r \in Positions
    BY <1>1, <1>2, ConcatFacts
  <2>2. QED
    BY <1>1, <1>2, <2>1
<1>10. <<>> \in DOMAIN R
  <2>1. CASE parent = <<>>
    BY <2>1, <1>2, <1>6
  <2>2. CASE parent # <<>>
    <3>1. <<>> \in DOMAIN root
      BY TreeFacts
    <3>2. ~ IsPrefix(parent, <<>>)
      <4>1. SUFFICES ASSUME IsPrefix(parent, <<>>) PROVE FALSE
        OBVIOUS
      <4>2. PICK s \in Positions : <<>> = parent \o s
        BY <4>1, <1>7, EmptyPosition
      <4>3. Len(<<>>) = Len(parent) + Len(s)
        BY <1>1, <4>2, ConcatFacts
      <4>4. Len(parent) \in Nat \ {0} /\ Len(s) \in Nat /\ Len(<<>>) = 0
        BY <1>1, <2>2, EmptySeq, LenProperties DEF Positions
      <4>5. QED
        BY <4>3, <4>4
    <3>3. QED
      BY <1>2, <1>4, <3>1, <3>2
  <2>3. QED
    BY <2>1, <2>2
<1>11. ASSUME NEW q \in DOMAIN R \ {<<>>} PROVE Front(q) \in DOMAIN R
  <2>1. q \in Positions /\ Front(q) \in Positions /\ Last(q) \in {1, 2}
        /\ q = Append(Front(q), Last(q))
    BY <1>9, FrontFacts
  <2>2. CASE q \in O
    <3>1. Front(q) \in DOMAIN root
      BY <2>2, <1>1, TreeFacts
    <3>2. ~ IsPrefix(parent, Front(q))
      <4>1. SUFFICES ASSUME IsPrefix(parent, Front(q)) PROVE FALSE
        OBVIOUS
      <4>2. PICK s \in Positions : Front(q) = parent \o s
        BY <2>1, <4>1, <1>7
      <4>3. q = parent \o Append(s, Last(q)) /\ Append(s, Last(q)) \in Positions
        <5>1. \A i \in {1, 2} : parent \o Append(s, i) = Append(parent \o s, i)
          BY <1>1, ConcatFacts
        <5>2. Append(s, Last(q)) \in Positions
          BY <2>1, AppendFacts
        <5>3. QED
          BY <2>1, <4>2, <5>1, <5>2
      <4>4. QED
        BY <4>3, <2>2, <1>1, <1>4, <1>8
    <3>3. QED
      BY <1>2, <1>4, <3>1, <3>2
  <2>3. CASE q \notin O
    <3>1. PICK r \in U : q = parent \o r
      BY <2>3, <1>2
    <3>2. r \in Positions /\ sib \o r \in DOMAIN root
      BY <1>2
    <3>3. CASE r = <<>>
      <4>1. Front(parent) \in DOMAIN root /\ ~ IsPrefix(parent, Front(parent))
        <5>1. q = parent /\ parent # <<>>
          BY <1>6, <3>1, <3>3
        <5>2. Front(parent) \in DOMAIN root /\ Front(parent) \in Positions
              /\ Len(parent) = Len(Front(parent)) + 1
          BY <1>1, <5>1, TreeFacts, FrontFacts
        <5>3. Len(Front(parent)) \in Nat
          BY <5>2, LenProperties DEF Positions
        <5>4. ~ (Len(parent) <= Len(Front(parent)))
          BY <5>2, <5>3
        <5>5. QED
          BY <5>2, <5>4 DEF IsPrefix
      <4>2. QED
        BY <4>1, <1>2, <1>4, <1>6, <3>1, <3>3
    <3>4. CASE r # <<>>
      <4>1. Front(q) = parent \o Front(r)
        BY <1>1, <3>1, <3>2, <3>4, FrontOfConcat
      <4>2. Front(sib \o r) = sib \o Front(r) /\ sib \o r # <<>>
        BY <1>1, <3>2, <3>4, FrontOfConcat
      <4>3. Front(r) \in Positions /\ sib \o Front(r) \in DOMAIN root
        <5>1. Front(r) \in Positions
          BY <3>2, <3>4, FrontFacts
        <5>2. Front(sib \o r) \in DOMAIN root
          BY <3>2, <4>2, TreeFacts
        <5>3. QED
          BY <4>2, <5>1, <5>2
      <4>4. QED
        BY <1>2, <1>5, <4>1, <4>3
    <3>5. QED
      BY <3>3, <3>4
  <2>4. QED
    BY <2>2, <2>3
<1>12. L \subseteq DOMAIN R
  BY <1>2
<1>13. ASSUME NEW q \in O, NEW i \in {1, 2}
       PROVE  Append(q, i) \in DOMAIN R <=> Append(q, i) \in DOMAIN root
  <2>1. q \in Positions /\ Append(q, i) \in Positions /\ Front(Append(q, i)) = q
        /\ ~ IsPrefix(parent, q) /\ Append(q, i) # <<>> /\ q \in DOMAIN root
    BY <1>1, <1>4, AppendFacts
  <2>2. ASSUME NEW s \in Positions, Append(q, i) = parent \o s PROVE s = <<>>
    <3>1. SUFFICES ASSUME s # <<>> PROVE FALSE
      OBVIOUS
    <3>2. q = parent \o Front(s) /\ Front(s) \in Positions
      <4>1. Front(parent \o s) = parent \o Front(s)
        BY <1>1, <3>1, FrontOfConcat
      <4>2. Front(s) \in Positions
        BY <3>1, FrontFacts
      <4>3. QED
        BY <2>1, <2>2, <4>1, <4>2
    <3>3. QED
      BY <2>1, <3>2, <1>8
  <2>3. ASSUME Append(q, i) \in DOMAIN R PROVE Append(q, i) \in DOMAIN root
    <3>1. CASE Append(q, i) \in O
      BY <3>1, <1>1
    <3>2. CASE Append(q, i) \notin O
      <4>1. PICK r \in U : Append(q, i) = parent \o r
        BY <2>3, <3>2, <1>2
      <4>2. r = <<>>
        BY <4>1, <2>2, <1>2
      <4>3. QED
        BY <4>1, <4>2, <1>1, <1>6
    <3>3. QED
      BY <3>1, <3>2
  <2>4. ASSUME Append(q, i) \in DOMAIN root PROVE Append(q, i) \in DOMAIN R
    <3>1. CASE IsPrefix(parent, Append(q, i))
      <4>1. PICK s \in Positions : Append(q, i) = parent \o s
        BY <2>1, <3>1, <1>7
      <4>2. QED
        BY <4>1, <2>2, <1>2, <1>6
    <3>2. CASE ~ IsPrefix(parent, Append(q, i))
      BY <2>4, <3>2, <1>2, <1>4
    <3>3. QED
      BY <3>1, <3>2
  <2>5. QED
    BY <2>3, <2>4
<1>14. ASSUME NEW r \in U, NEW i \in {1, 2}
       PROVE  Append(parent \o r, i) \in DOMAIN R <=> Append(sib \o r, i) \in DOMAIN root
  <2>1. r \in Positions /\ Append(r, i) \in Positions
    BY <1>2, AppendFacts
  <2>2. /\ parent \o Append(r, i) = Append(parent \o r, i)
        /\ sib \o Append(r, i) = Append(sib \o r, i)
    <3>1. parent \in Positions /\ sib \in Positions
      BY <1>1
    <3> HIDE DEF parent, sib, U, O, R
    <3>2. parent \o Append(r, i) = Append(parent \o r, i)
      BY <2>1, <3>1, ConcatFacts
    <3>3. sib \o Append(r, i) = Append(sib \o r, i)
      BY <2>1, <3>1, ConcatFacts
    <3>4. QED
      BY <3>2, <3>3
  <2>3. ASSUME Append(parent \o r, i) \in DOMAIN R PROVE Append(r, i) \in U
    <3>1. parent \o Append(r, i) \notin O
      BY <1>1, <1>4, <1>8, <2>1
    <3>2. PICK s \in U : parent \o Append(r, i) = parent \o s
      BY <2>2, <2>3, <3>1, <1>2
    <3>3. s = Append(r, i)
      BY <3>2, <2>1, <1>1, <1>2, ConcatOnce
    <3>4. QED
      BY <3>3
  <2>4. QED
    BY <2>1, <2>2, <2>3, <1>2, <1>5
<1>15. ASSUME NEW q \in L
       PROVE  /\ R[q] \in {Leaf(t) : t \in T}
              /\ \A i \in {1, 2} : Append(q, i) \notin DOMAIN R
  <2>1. CASE q \in LO
    <3>1. R[q] = root[q] /\ q \in Leaves(root) /\ q \in O
      BY <2>1, <1>2
    <3>2. QED
      BY <3>1, <1>13, TreeFacts
  <2>2. CASE q \in {parent \o r : r \in LU}
    <3>1. PICK r \in U : q = parent \o r /\ sib \o r \in Leaves(root)
      BY <2>2
    <3>2. R[q] = root[sib \o r]
      BY <3>1, <1>2
    <3>3. QED
      BY <3>1, <3>2, <1>14, TreeFacts
  <2>3. QED
    BY <2>1, <2>2
<1>16. ASSUME NEW q \in DOMAIN R \ L
       PROVE  /\ R[q] \in [direction : Directions, ratio : MinRatio .. MaxRatio]
              /\ \A i \in {1, 2} : Append(q, i) \in DOMAIN R
  <2>1. CASE q \in O
    <3>1. R[q] = root[q] /\ q \in DOMAIN root \ Leaves(root)
      BY <2>1, <1>1, <1>2
    <3>2. QED
      BY <2>1, <3>1, <1>13, TreeFacts
  <2>2. CASE q \notin O
    <3>1. PICK r \in U : q = parent \o r
      BY <2>2, <1>2
    <3>2. sib \o r \in DOMAIN root \ Leaves(root) /\ R[q] = root[sib \o r]
      BY <3>1, <1>2
    <3>3. QED
      BY <3>1, <3>2, <1>14, TreeFacts
  <2>3. QED
    BY <2>1, <2>2
<1>17. TreeWith(R, T, L)
  <2> HIDE DEF L
  <2>1. QED
    BY <1>3, <1>9, <1>10, <1>11, <1>12, <1>15, <1>16 DEF TreeWith
<1>18. IsTree(R, T) /\ Leaves(R) = L
  BY <1>17, TreeRule
<1>19. QED
  BY <1>18 DEF R, parent, sib, U, O

-----------------------------------------------------------------------------
(* Layouts *)

(* A layout as the client has it: a tree whose panes are distinct, one of them *)
(* focused.                                                                    *)
Sound(layout, T) ==
  /\ layout = [root |-> layout.root, focused |-> layout.focused]
  /\ IsTree(layout.root, T) /\ Distinct(layout.root)
  /\ layout.focused \in Panes(layout.root)

(* A pane is a leaf, and PathOf finds it. *)
LEMMA PaneFacts ==
  ASSUME NEW root, NEW T, IsTree(root, T)
  PROVE  /\ Panes(root) \subseteq T
         /\ \A t \in Panes(root) : PathOf(root, t) \in Leaves(root) /\ root[PathOf(root, t)] = Leaf(t)
         /\ \A t : t \in Panes(root) <=> \E p \in Leaves(root) : root[p] = Leaf(t)
<1>1. \A p \in Leaves(root) : root[p] = Leaf(root[p].terminal_id) /\ root[p].terminal_id \in T
  BY TreeFacts
<1>2. Panes(root) \subseteq T
  BY <1>1 DEF Panes
<1>3. ASSUME NEW t \in Panes(root)
      PROVE  PathOf(root, t) \in Leaves(root) /\ root[PathOf(root, t)] = Leaf(t)
  <2>1. \E p \in Leaves(root) : root[p].terminal_id = t
    BY DEF Panes
  <2>2. PathOf(root, t) \in Leaves(root) /\ root[PathOf(root, t)].terminal_id = t
    BY <2>1 DEF PathOf
  <2>3. QED
    BY <1>1, <2>2
<1>4. ASSUME NEW t, NEW p \in Leaves(root), root[p] = Leaf(t) PROVE t \in Panes(root)
  <2>1. root[p].terminal_id = t
    BY <1>4, NodeKinds
  <2>2. QED
    BY <2>1 DEF Panes
<1>5. QED
  BY <1>2, <1>3, <1>4

(* A leaf tells its terminal. *)
LEMMA LeafOnce == \A t, u : Leaf(t) = Leaf(u) => t = u
BY NodeKinds

(* The layout of a client that attaches to one terminal is sound. *)
LEMMA NewIsSound ==
  ASSUME NEW T, NEW t \in T
  PROVE  Sound(New(t), T) /\ Panes(New(t).root) = {t}
<1>1. New(t) = [root |-> New(t).root, focused |-> New(t).focused]
  BY DEF New
<1>2. QED
  BY <1>1, NewIsTree DEF Sound

(* A split adds a pane for a terminal that has none, and focuses it. *)
LEMMA SplitFacts ==
  ASSUME NEW T, NEW layout, Sound(layout, T), NEW dir \in Directions,
         NEW new \in T, new \notin Panes(layout.root)
  PROVE  LET split == SplitFocused(layout, dir, new) IN
         /\ Sound(split, T)
         /\ \A t : t \in Panes(split.root) <=> t \in Panes(layout.root) \/ t = new
         /\ split.focused = new
<1> DEFINE root == layout.root
           p == PathOf(root, layout.focused)
           R == SplitNode(root, p, dir, new)
           split == SplitFocused(layout, dir, new)
<1>1. IsTree(root, T) /\ Distinct(root) /\ layout.focused \in Panes(root)
  BY DEF Sound
<1>2. p \in Leaves(root) /\ root[p] = Leaf(layout.focused)
  BY <1>1, PaneFacts
<1>3. split = [root |-> R, focused |-> new]
  BY <1>1 DEF SplitFocused
<1>4. split.root = R /\ split.focused = new
  BY <1>3
<1> HIDE DEF p, split
<1>5. /\ IsTree(R, T)
      /\ Leaves(R) = (Leaves(root) \ {p}) \cup {Child(p, 1), Child(p, 2)}
      /\ R[Child(p, 1)] = root[p] /\ R[Child(p, 2)] = Leaf(new)
      /\ \A q \in DOMAIN root \ {p} : R[q] = root[q]
  <2> HIDE DEF R, root
  <2>1. R = SplitNode(root, p, dir, new) /\ IsTree(root, T) /\ p \in Leaves(root)
    BY <1>1, <1>2 DEF R
  <2>2. IsTree(R, T)
    BY <2>1, SplitNodeFacts
  <2>3. Leaves(R) = (Leaves(root) \ {p}) \cup {Child(p, 1), Child(p, 2)}
    BY <2>1, SplitNodeFacts
  <2>4. R[Child(p, 1)] = root[p] /\ R[Child(p, 2)] = Leaf(new)
    BY <2>1, SplitNodeFacts
  <2>5. \A q \in DOMAIN root \ {p} : R[q] = root[q]
    BY <2>1, SplitNodeFacts
  <2>6. QED
    BY <2>2, <2>3, <2>4, <2>5
<1>6. \A q \in Leaves(root) : q \in DOMAIN root /\ root[q] # Leaf(new)
  BY <1>1, PaneFacts DEF Leaves
<1>7. Child(p, 1) \notin Leaves(root) /\ Child(p, 2) \notin Leaves(root)
  BY <1>1, <1>2, <1>6, TreeFacts DEF Child
<1> HIDE DEF R
<1>8. \A t : t \in Panes(R) <=> t \in Panes(root) \/ t = new
  <2>1. \A t : t \in Panes(R) <=> \E q \in Leaves(R) : R[q] = Leaf(t)
    BY <1>5, PaneFacts
  <2>2. \A t : t \in Panes(root) <=> \E q \in Leaves(root) : root[q] = Leaf(t)
    BY <1>1, PaneFacts
  <2>3. ASSUME NEW t, NEW q \in Leaves(R), R[q] = Leaf(t) PROVE t \in Panes(root) \/ t = new
    <3>1. CASE q \in Leaves(root) \ {p}
      BY <1>5, <1>6, <2>2, <2>3, <3>1
    <3>2. CASE q = Child(p, 1)
      BY <1>2, <1>5, <2>2, <2>3, <3>2
    <3>3. CASE q = Child(p, 2)
      BY <1>5, <2>3, <3>3, LeafOnce
    <3>4. QED
      BY <1>5, <3>1, <3>2, <3>3
  <2>4. ASSUME NEW t, NEW q \in Leaves(root), root[q] = Leaf(t) PROVE t \in Panes(R)
    <3>1. CASE q = p
      BY <1>5, <2>1, <2>4, <3>1
    <3>2. CASE q # p
      BY <1>5, <1>6, <2>1, <2>4, <3>2
    <3>3. QED
      BY <3>1, <3>2
  <2>5. new \in Panes(R)
    BY <1>5, <2>1
  <2>6. QED
    BY <2>1, <2>2, <2>3, <2>4, <2>5
<1>9. Distinct(R)
  <2>1. ASSUME NEW q \in Leaves(R), NEW r \in Leaves(R), R[q] = R[r] PROVE q = r
    <3>1. \A o \in Leaves(root) \ {p} : R[o] = root[o] /\ root[o] # Leaf(new) /\ root[o] # root[p]
      BY <1>1, <1>2, <1>5, <1>6 DEF Distinct
    <3>2. root[p] # Leaf(new)
      BY <1>2, <1>6
    <3>3. CASE q \in Leaves(root) \ {p}
      <4>1. r \in Leaves(root) \ {p}
        BY <1>5, <2>1, <3>1, <3>3
      <4>2. QED
        BY <1>1, <2>1, <3>1, <3>3, <4>1 DEF Distinct
    <3>4. CASE q = Child(p, 1)
      BY <1>5, <2>1, <3>1, <3>2, <3>4
    <3>5. CASE q = Child(p, 2)
      BY <1>5, <2>1, <3>1, <3>2, <3>5
    <3>6. QED
      BY <1>5, <3>3, <3>4, <3>5
  <2>2. QED
    BY <2>1 DEF Distinct
<1>10. new \in Panes(R)
  BY <1>8
<1>11. QED
  BY <1>3, <1>4, <1>5, <1>8, <1>9, <1>10 DEF Sound, split

(* The leaves of the tree after a close are those before, but the closed one. *)
LEMMA RemainingLeaves ==
  ASSUME NEW root, NEW T, IsTree(root, T), NEW p \in Leaves(root), p # <<>>
  PROVE  LET R == RemoveNode(root, p) IN
         /\ \A q \in Leaves(R) : \E o \in Leaves(root) \ {p} : R[q] = root[o]
         /\ \A o \in Leaves(root) \ {p} : \E q \in Leaves(R) : R[q] = root[o]
         /\ Distinct(root) => Distinct(R)
<1> DEFINE R == RemoveNode(root, p)
           parent == Front(p)
           sib == Sibling(p)
           U == Under(root, sib)
           O == Others(root, parent)
<1>1. /\ p \in Positions /\ parent \in Positions /\ sib \in Positions
      /\ Last(p) \in {1, 2} /\ 3 - Last(p) \in {1, 2}
      /\ p = Append(parent, Last(p)) /\ sib = Append(parent, 3 - Last(p)) /\ sib # p
      /\ parent \in DOMAIN root \ Leaves(root)
  BY SiblingFacts DEF Sibling
<1>2. /\ Leaves(R) = {q \in O : q \in Leaves(root)}
                       \cup {parent \o r : r \in {s \in U : sib \o s \in Leaves(root)}}
      /\ \A q \in O : R[q] = root[q]
      /\ \A r \in U : /\ R[parent \o r] = root[sib \o r]
                      /\ parent \o r \notin O /\ sib \o r \notin O
                      /\ r \in Positions
  BY RemoveNodeFacts, RemoveNodeShape
<1>3. \A r \in Positions : sib \o r \in DOMAIN root => r \in U
  BY DEF Under
<1>4. p \notin O /\ \A q \in Leaves(root) : q \in DOMAIN root /\ q \in Positions
  <2>1. <<Last(p)>> \in Positions
    BY <1>1 DEF Positions
  <2>2. p = parent \o <<Last(p)>>
    BY <1>1, AppendIsConcat DEF Positions
  <2>3. IsPrefix(parent, p)
    <3> HIDE DEF parent
    <3>1. \A r \in Positions : IsPrefix(parent, parent \o r)
      BY <1>1, PrefixFacts
    <3>2. QED
      BY <2>1, <2>2, <3>1
  <2>4. QED
    BY <2>3, TreeFacts DEF Others, Leaves
<1>5. \A q \in DOMAIN root : q \notin O => IsPrefix(parent, q)
  BY DEF Others
<1> HIDE DEF R, parent, sib, U, O
<1>6. ASSUME NEW r \in U PROVE sib \o r # p
  <2>1. SUFFICES ASSUME sib \o r = p PROVE FALSE
    OBVIOUS
  <2>2. Len(p) = Len(sib) + Len(r)
    BY <1>1, <1>2, <2>1, ConcatFacts
  <2>3. Len(p) = Len(parent) + 1 /\ Len(sib) = Len(parent) + 1
    BY <1>1, AppendFacts
  <2>4. Len(r) \in Nat /\ Len(parent) \in Nat /\ (r # <<>> => Len(r) # 0)
    BY <1>1, <1>2, LenProperties, EmptySeq DEF Positions
  <2>5. r = <<>>
    BY <2>2, <2>3, <2>4
  <2>6. sib \o <<>> = sib
    BY <1>1, EmptyPosition, ConcatFacts
  <2>7. QED
    BY <1>1, <2>1, <2>5, <2>6
<1>7. ASSUME NEW q \in Leaves(R) PROVE \E o \in Leaves(root) \ {p} : R[q] = root[o]
  <2>1. CASE q \in O /\ q \in Leaves(root)
    BY <2>1, <1>2, <1>4
  <2>2. CASE \E r \in U : q = parent \o r /\ sib \o r \in Leaves(root)
    BY <2>2, <1>2, <1>6
  <2>3. QED
    BY <2>1, <2>2, <1>2
<1>8. ASSUME NEW o \in Leaves(root) \ {p} PROVE \E q \in Leaves(R) : R[q] = root[o]
  <2>1. CASE o \in O
    BY <2>1, <1>2
  <2>2. CASE o \notin O
    <3>1. IsPrefix(parent, o)
      BY <2>2, <1>4, <1>5
    <3>2. PICK s \in Positions : o = parent \o s
      BY <3>1, <1>1, <1>4, PrefixFacts
    <3>3. s # <<>>
      <4>1. parent \o <<>> = parent
        BY <1>1, EmptyPosition, ConcatFacts
      <4>2. QED
        BY <4>1, <3>2, <1>1
    <3>4. PICK i \in {1, 2}, r \in Positions : parent \o s = Append(parent, i) \o r
      <4>1. \E i \in {1, 2}, r \in Positions : s = <<i>> \o r /\ parent \o s = Append(parent, i) \o r
        BY <3>2, <3>3, <1>1, FirstStep
      <4>2. QED
        BY <4>1
    <3>5. CASE i = Last(p)
      <4>1. o = p \o r
        BY <3>2, <3>4, <3>5, <1>1
      <4>2. r = <<>>
        BY <4>1, <1>4, LeafIsLast
      <4>3. p \o <<>> = p
        BY <1>1, EmptyPosition, ConcatFacts
      <4>4. QED
        BY <4>1, <4>2, <4>3
    <3>6. CASE i # Last(p)
      <4>1. i = 3 - Last(p)
        BY <3>6, <1>1
      <4>2. o = sib \o r
        BY <3>2, <3>4, <4>1, <1>1
      <4>3. r \in U
        BY <4>2, <1>3, <1>4
      <4>4. parent \o r \in Leaves(R)
        BY <4>2, <4>3, <1>2
      <4>5. QED
        BY <4>2, <4>3, <4>4, <1>2
    <3>7. QED
      BY <3>5, <3>6
  <2>3. QED
    BY <2>1, <2>2
<1>9. ASSUME Distinct(root), NEW q1 \in Leaves(R), NEW q2 \in Leaves(R), R[q1] = R[q2]
      PROVE  q1 = q2
  <2>1. \A q \in Leaves(R) : \/ q \in O /\ q \in Leaves(root) /\ R[q] = root[q]
                             \/ \E r \in U : /\ q = parent \o r /\ sib \o r \in Leaves(root)
                                             /\ R[q] = root[sib \o r] /\ sib \o r \notin O
    BY <1>2
  <2>2. \A o1, o2 \in Leaves(root) : root[o1] = root[o2] => o1 = o2
    BY <1>9 DEF Distinct
  <2>3. CASE q1 \in O
    <3>1. q1 \in Leaves(root) /\ R[q1] = root[q1]
      BY <2>3, <2>1, <1>2
    <3>2. q2 \in O
      BY <3>1, <2>1, <2>2, <2>3, <1>9
    <3>3. q2 \in Leaves(root) /\ R[q2] = root[q2]
      BY <3>2, <1>2, <2>1
    <3>4. QED
      BY <3>1, <3>3, <2>2, <1>9
  <2>4. CASE q1 \notin O
    <3>1. PICK r1 \in U : q1 = parent \o r1 /\ sib \o r1 \in Leaves(root)
                          /\ R[q1] = root[sib \o r1] /\ sib \o r1 \notin O
      BY <2>1, <2>4
    <3>2. q2 \notin O
      <4>1. SUFFICES ASSUME q2 \in O PROVE FALSE
        OBVIOUS
      <4>2. q2 \in Leaves(root) /\ R[q2] = root[q2]
        BY <4>1, <1>2, <2>1
      <4>3. q2 = sib \o r1
        BY <4>2, <3>1, <2>2, <1>9
      <4>4. QED
        BY <4>1, <4>3, <3>1
    <3>3. PICK r2 \in U : q2 = parent \o r2 /\ sib \o r2 \in Leaves(root)
                          /\ R[q2] = root[sib \o r2]
      BY <2>1, <3>2
    <3>4. sib \o r1 = sib \o r2
      BY <3>1, <3>3, <2>2, <1>9
    <3>5. r1 = r2
      BY <3>4, <1>1, <1>2, ConcatOnce
    <3>6. QED
      BY <3>1, <3>3, <3>5
  <2>5. QED
    BY <2>3, <2>4
<1>10. QED
  BY <1>7, <1>8, <1>9 DEF Distinct, R

(* A close takes away the focused pane and no other, and focuses one of those *)
(* that are left.                                                             *)
LEMMA CloseFacts ==
  ASSUME NEW T, NEW layout, Sound(layout, T), CanClose(layout)
  PROVE  LET close == CloseFocused(layout) IN
         /\ Sound(close, T)
         /\ \A t : t \in Panes(close.root) <=> t \in Panes(layout.root) /\ t # layout.focused
<1> DEFINE root == layout.root
           p == PathOf(root, layout.focused)
           R == RemoveNode(root, p)
           close == CloseFocused(layout)
<1>1. IsTree(root, T) /\ Distinct(root) /\ layout.focused \in Panes(root)
  BY DEF Sound
<1>2. p \in Leaves(root) /\ root[p] = Leaf(layout.focused)
  BY <1>1, PaneFacts
<1>3. p # <<>>
  BY <1>2 DEF CanClose, Leaves
<1>4. close = [root |-> R, focused |-> FirstLeaf(Subtree(root, Sibling(p)))]
  BY DEF CloseFocused, Sibling
<1>5. close.root = R /\ close.focused = FirstLeaf(Subtree(root, Sibling(p)))
  BY <1>4
<1> HIDE DEF p, close
<1>6. IsTree(R, T)
  BY <1>1, <1>2, <1>3, RemoveNodeFacts
<1>7. /\ \A q \in Leaves(R) : \E o \in Leaves(root) \ {p} : R[q] = root[o]
      /\ \A o \in Leaves(root) \ {p} : \E q \in Leaves(R) : R[q] = root[o]
      /\ Distinct(R)
  BY <1>1, <1>2, <1>3, RemainingLeaves
<1>8. FirstLeaf(Subtree(root, Sibling(p))) \in Panes(R)
  <2> DEFINE sub == Subtree(root, Sibling(p))
             U == Under(root, Sibling(p))
             t == FirstLeaf(sub)
  <2>1. Sibling(p) \in DOMAIN root
    BY <1>1, <1>2, <1>3, SiblingFacts
  <2>2. /\ IsTree(sub, T)
        /\ \A r \in U : sub[r] = root[Sibling(p) \o r]
        /\ Leaves(sub) = {r \in U : Sibling(p) \o r \in Leaves(root)}
    BY <1>1, <2>1, SubtreeFacts
  <2> HIDE DEF sub
  <2>3. t \in Panes(sub)
    BY <2>2, FirstLeafFacts
  <2> HIDE DEF t
  <2>4. PICK r \in Leaves(sub) : sub[r] = Leaf(t)
    BY <2>2, <2>3, PaneFacts
  <2>5. r \in U /\ Sibling(p) \o r \in Leaves(root) /\ root[Sibling(p) \o r] = Leaf(t)
    BY <2>2, <2>4
  <2>6. Front(p) \o r \in Leaves(R) /\ R[Front(p) \o r] = Leaf(t)
    <3>1. Front(p) \o r \in Leaves(R)
      <4>1. Leaves(R) = {q \in Others(root, Front(p)) : q \in Leaves(root)}
                          \cup {Front(p) \o x : x \in {y \in U : Sibling(p) \o y \in Leaves(root)}}
        BY <1>1, <1>2, <1>3, RemoveNodeFacts
      <4>2. QED
        BY <4>1, <2>5
    <3>2. R[Front(p) \o r] = root[Sibling(p) \o r]
      BY <1>1, <1>2, <1>3, <2>5, RemoveNodeShape
    <3>3. QED
      BY <3>1, <3>2, <2>5
  <2>7. t \in Panes(R)
    BY <1>6, <2>6, PaneFacts
  <2>8. QED
    BY <2>7 DEF t, sub
<1>9. \A t : t \in Panes(R) <=> t \in Panes(root) /\ t # layout.focused
  <2>1. \A t : t \in Panes(R) <=> \E q \in Leaves(R) : R[q] = Leaf(t)
    BY <1>6, PaneFacts
  <2>2. \A t : t \in Panes(root) <=> \E q \in Leaves(root) : root[q] = Leaf(t)
    BY <1>1, PaneFacts
  <2>3. \A o \in Leaves(root) \ {p} : root[o] # Leaf(layout.focused)
    BY <1>1, <1>2 DEF Distinct
  <2> HIDE DEF R
  <2>4. ASSUME NEW t, t \in Panes(R) PROVE t \in Panes(root) /\ t # layout.focused
    <3>1. PICK q \in Leaves(R) : R[q] = Leaf(t)
      BY <2>1, <2>4
    <3>2. PICK o \in Leaves(root) \ {p} : root[o] = Leaf(t)
      BY <1>7, <3>1
    <3>3. QED
      BY <2>2, <2>3, <3>2
  <2>5. ASSUME NEW t, t \in Panes(root), t # layout.focused PROVE t \in Panes(R)
    <3>1. PICK o \in Leaves(root) : root[o] = Leaf(t)
      BY <2>2, <2>5
    <3>2. o # p
      BY <1>2, <2>5, <3>1, LeafOnce
    <3>3. QED
      BY <1>7, <2>1, <3>1, <3>2
  <2>6. QED
    BY <2>4, <2>5
<1>10. QED
  BY <1>4, <1>5, <1>6, <1>7, <1>8, <1>9 DEF Sound, close

-----------------------------------------------------------------------------
(* Resizing *)

(* Trees with the same leaves have the same panes. *)
LEMMA SameLeaves ==
  ASSUME NEW root, NEW T, IsTree(root, T), NEW R, IsTree(R, T), Leaves(R) = Leaves(root),
         \A q \in Leaves(root) : R[q] = root[q]
  PROVE  Panes(R) = Panes(root) /\ (Distinct(root) => Distinct(R))
<1>1. Distinct(root) => Distinct(R)
  BY DEF Distinct
<1>2. Panes(R) = Panes(root)
  BY DEF Panes
<1>3. QED
  BY <1>1, <1>2

(* A clamped ratio is within its bounds. *)
LEMMA ClampFacts == \A r \in Int : Clamp(r) \in MinRatio .. MaxRatio
BY DEF Clamp, MinRatio, MaxRatio

(* Of the strict prefixes of a leaf, all are splits. *)
LEMMA AboveFacts ==
  ASSUME NEW root, NEW T, IsTree(root, T), NEW p \in Leaves(root),
         NEW q \in DOMAIN root, IsStrictPrefix(q, p)
  PROVE  q \in DOMAIN root \ Leaves(root)
<1>1. SUFFICES ASSUME q \in Leaves(root) PROVE FALSE
  OBVIOUS
<1>2. p \in DOMAIN root /\ p \in Positions /\ q \in Positions
  BY TreeFacts
<1>3. PICK s \in Positions : p = q \o s
  <2>1. IsPrefix(q, p)
    BY DEF IsStrictPrefix
  <2>2. QED
    BY <1>2, <2>1, PrefixFacts
<1>4. s = <<>>
  BY <1>1, <1>2, <1>3, LeafIsLast
<1>5. q \o <<>> = q
  BY <1>2, EmptyPosition, ConcatFacts
<1>6. QED
  BY <1>3, <1>4, <1>5 DEF IsStrictPrefix

(* A resize changes ratios and nothing else. *)
LEMMA ResizeFacts ==
  ASSUME NEW T, NEW layout, Sound(layout, T), NEW key \in Keys, NEW delta \in Int
  PROVE  LET resized == ResizeFocused(layout, key, delta) IN
         /\ Sound(resized, T)
         /\ Panes(resized.root) = Panes(layout.root)
         /\ resized.focused = layout.focused
<1> DEFINE root == layout.root
           p == PathOf(root, layout.focused)
           moves(q) == IsStrictPrefix(q, p) /\ root[q].direction = Axis(key)
           moved(q) == Clamp(root[q].ratio + Adjust(key, p[Len(q) + 1] = 1, delta))
           R == [q \in DOMAIN root |->
                   IF moves(q) THEN Split(Axis(key), moved(q)) ELSE root[q]]
           resized == ResizeFocused(layout, key, delta)
<1>1. /\ IsTree(root, T) /\ Distinct(root) /\ layout.focused \in Panes(root)
      /\ layout = [root |-> root, focused |-> layout.focused]
  BY DEF Sound
<1>2. p \in Leaves(root)
  BY <1>1, PaneFacts
<1>3. resized = [layout EXCEPT !.root = R]
  BY <1>1 DEF ResizeFocused
<1> HIDE DEF p, resized
<1>4. resized.root = R /\ resized.focused = layout.focused
      /\ resized = [root |-> R, focused |-> layout.focused]
  <2> HIDE DEF R
  <2>1. QED
    BY <1>1, <1>3
<1>5. DOMAIN R = DOMAIN root
  OBVIOUS
<1>6. ASSUME NEW q \in Leaves(root) PROVE q \in DOMAIN root /\ R[q] = root[q]
  <2>1. q \in DOMAIN root
    BY DEF Leaves
  <2>2. ~ moves(q)
    BY <1>1, <1>2, <2>1, AboveFacts
  <2>3. QED
    BY <2>1, <2>2
<1>7. ASSUME NEW q \in DOMAIN root \ Leaves(root)
      PROVE  R[q] \in [direction : Directions, ratio : MinRatio .. MaxRatio]
  <2>1. root[q] \in [direction : Directions, ratio : MinRatio .. MaxRatio]
    BY <1>1, TreeFacts
  <2>2. moved(q) \in MinRatio .. MaxRatio
    <3>1. root[q].ratio \in Int
      BY <2>1 DEF MinRatio, MaxRatio
    <3>2. Adjust(key, p[Len(q) + 1] = 1, delta) \in Int
      BY DEF Adjust
    <3>3. root[q].ratio + Adjust(key, p[Len(q) + 1] = 1, delta) \in Int
      BY <3>1, <3>2
    <3>4. QED
      BY <3>3, ClampFacts
  <2>3. R[q] = IF moves(q) THEN Split(Axis(key), moved(q)) ELSE root[q]
    OBVIOUS
  <2> HIDE DEF moves, moved, R, root
  <2>4. QED
    BY <2>1, <2>2, <2>3 DEF Split, Axis, Directions
<1> HIDE DEF R
<1>8. TreeWith(R, T, Leaves(root))
  <2>1. \A q \in Leaves(root) : root[q] \in {Leaf(t) : t \in T}
    BY <1>1, TreeFacts
  <2>2. QED
    BY <1>1, <1>5, <1>6, <1>7, <2>1, TreeFacts DEF TreeWith
<1>9. IsTree(R, T) /\ Leaves(R) = Leaves(root)
  BY <1>8, TreeRule
<1>10. Panes(R) = Panes(root) /\ Distinct(R)
  BY <1>1, <1>6, <1>9, SameLeaves
<1>11. QED
  BY <1>1, <1>4, <1>9, <1>10 DEF Sound, resized

-----------------------------------------------------------------------------
(* Finite sets, and rectangles *)

(* Induction over finite sets, for a set P of them. *)
LEMMA FiniteSetSetInduction ==
  ASSUME NEW U, IsFiniteSet(U), NEW P, {} \in P,
         \A X \in P, x \in U : X \subseteq U => X \cup {x} \in P
  PROVE  U \in P
<1> SUFFICES ASSUME U \notin P PROVE FALSE
  OBVIOUS
<1> DEFINE B == {X \in SUBSET U : X \notin P}
           R == StrictSubsetOrdering(U)
<1>1. B \subseteq FiniteSubsetsOf(U) /\ B # {}
  <2>1. \A X \in SUBSET U : IsFiniteSet(X)
    BY FS_Subset
  <2>2. QED
    BY <2>1 DEF FiniteSubsetsOf
<1>2. PICK X \in B : \A Y \in B : <<Y, X>> \notin R
  <2> HIDE DEF B, R
  <2>1. IsWellFoundedOn(R, FiniteSubsetsOf(U))
    BY FS_StrictSubsetOrderingWellFounded DEF R
  <2>2. QED
    BY <1>1, <2>1, WFMin
<1>3. PICK x \in X : TRUE
  BY <1>2
<1>4. X \ {x} \in P
  <2>1. <<X \ {x}, X>> \in R
    BY <1>2, <1>3 DEF StrictSubsetOrdering
  <2>2. QED
    BY <1>2, <2>1
<1>5. (X \ {x}) \cup {x} \in P
  BY <1>2, <1>3, <1>4
<1>6. (X \ {x}) \cup {x} = X
  BY <1>3
<1>7. QED
  BY <1>2, <1>5, <1>6

(* Finitely many positions have a bounded length. *)
LEMMA LengthsAreBounded ==
  ASSUME NEW D \in SUBSET Positions, IsFiniteSet(D)
  PROVE  \E n \in Nat : \A p \in D : Len(p) <= n
<1> DEFINE P == {X \in SUBSET D : \E n \in Nat : \A p \in X : Len(p) <= n}
<1>1. {} \in P
  OBVIOUS
<1>2. ASSUME NEW X \in P, NEW x \in D, X \subseteq D PROVE X \cup {x} \in P
  <2>1. PICK n \in Nat : \A p \in X : Len(p) <= n
    OBVIOUS
  <2>2. \A p \in D : Len(p) \in Nat
    BY LenProperties DEF Positions
  <2>3. \A p \in X \cup {x} : Len(p) <= n + Len(x)
    BY <1>2, <2>1, <2>2
  <2>4. n + Len(x) \in Nat
    BY <2>2
  <2>5. QED
    BY <2>3, <2>4
<1>3. D \in P
  <2> HIDE DEF P
  <2>1. \A X \in P, x \in D : X \subseteq D => X \cup {x} \in P
    BY <1>2
  <2>2. QED
    BY <1>1, <2>1, FiniteSetSetInduction
<1>4. QED
  BY <1>3

(* A finite set has an element where a function is least. *)
LEMMA LeastExists ==
  ASSUME NEW C, IsFiniteSet(C), C # {}, NEW d, \A p \in C : d[p] \in Int
  PROVE  \E p \in C : \A q \in C : d[p] <= d[q]
<1> DEFINE P == {X \in SUBSET C : X # {} => \E p \in X : \A q \in X : d[p] <= d[q]}
<1>1. {} \in P
  OBVIOUS
<1>2. ASSUME NEW X \in P, NEW x \in C, X \subseteq C PROVE X \cup {x} \in P
  <2>1. CASE X = {}
    <3>1. d[x] <= d[x]
      OBVIOUS
    <3>2. QED
      BY <2>1, <3>1
  <2>2. CASE X # {}
    <3>1. PICK p \in X : \A q \in X : d[p] <= d[q]
      BY <2>2
    <3>2. CASE d[p] <= d[x]
      BY <3>1, <3>2
    <3>3. CASE d[x] <= d[p]
      <4>1. \A q \in X \cup {x} : d[x] <= d[q]
        BY <1>2, <3>1, <3>3
      <4>2. QED
        BY <4>1
    <3>4. QED
      BY <1>2, <3>2, <3>3
  <2>3. QED
    BY <2>1, <2>2
<1>3. C \in P
  <2> HIDE DEF P
  <2>1. \A X \in P, x \in C : X \subseteq C => X \cup {x} \in P
    BY <1>2
  <2>2. QED
    BY <1>1, <2>1, FiniteSetSetInduction
<1>4. QED
  BY <1>3

(* The halves of a rectangle and the separator make up its extent, as far as *)
(* it goes.                                                                  *)
LEMMA ExtentFacts ==
  ASSUME NEW extent \in Nat, NEW ratio \in MinRatio .. MaxRatio
  PROVE  /\ AtLeastZero(extent - Sep) \in Nat /\ FirstExtent(extent, ratio) \in Nat
         /\ FirstExtent(extent, ratio) <= AtLeastZero(extent - Sep)
<1> DEFINE a == AtLeastZero(extent - Sep)
           k == a * ratio
<1>1. a \in Nat
  BY DEF AtLeastZero, Sep
<1>2. ratio \in Nat /\ ratio <= 20
  BY DEF MinRatio, MaxRatio
<1> HIDE DEF a
<1>3. k \in Nat /\ k <= a * 20
  BY <1>1, <1>2
<1> HIDE DEF k
<1>4. k \div 20 \in Nat /\ k \div 20 <= a
  BY <1>1, <1>3
<1>5. QED
  BY <1>1, <1>4 DEF FirstExtent, Whole, a, k

(* The halves of a vertical split. *)
LEMMA ColumnsFacts ==
  ASSUME NEW area \in Rectangles, NEW node, node.direction = "Vertical"
  PROVE  LET w == FirstExtent(area.width, node.ratio) IN
         /\ SplitRect(area, node)[1] = [x |-> area.x, y |-> area.y, width |-> w,
                                        height |-> area.height]
         /\ SplitRect(area, node)[2] = [x |-> area.x + w + Sep, y |-> area.y,
                                        width |-> AtLeastZero(area.width - Sep) - w,
                                        height |-> area.height]
<1> DEFINE halves == SplitRect(area, node)
           w == FirstExtent(area.width, node.ratio)
<1>1. area = [x |-> area.x, y |-> area.y, width |-> area.width, height |-> area.height]
  BY DEF Rectangles
<1>2. halves = << [area EXCEPT !.width = w],
                  [area EXCEPT !.x = @ + w + Sep, !.width = AtLeastZero(@ - Sep) - w] >>
  BY DEF SplitRect
<1> HIDE DEF halves, w
<1>3. /\ halves[1] = [area EXCEPT !.width = w]
      /\ halves[2] = [area EXCEPT !.x = area.x + w + Sep,
                                  !.width = AtLeastZero(area.width - Sep) - w]
  BY <1>2
<1>4. QED
  BY <1>1, <1>3 DEF halves, w

(* The halves of a horizontal split. *)
LEMMA RowsFacts ==
  ASSUME NEW area \in Rectangles, NEW node, node.direction # "Vertical"
  PROVE  LET h == FirstExtent(area.height, node.ratio) IN
         /\ SplitRect(area, node)[1] = [x |-> area.x, y |-> area.y, width |-> area.width,
                                        height |-> h]
         /\ SplitRect(area, node)[2] = [x |-> area.x, y |-> area.y + h + Sep,
                                        width |-> area.width,
                                        height |-> AtLeastZero(area.height - Sep) - h]
<1> DEFINE halves == SplitRect(area, node)
           h == FirstExtent(area.height, node.ratio)
<1>1. area = [x |-> area.x, y |-> area.y, width |-> area.width, height |-> area.height]
  BY DEF Rectangles
<1>2. halves = << [area EXCEPT !.height = h],
                  [area EXCEPT !.y = @ + h + Sep, !.height = AtLeastZero(@ - Sep) - h] >>
  BY DEF SplitRect
<1> HIDE DEF halves, h
<1>3. /\ halves[1] = [area EXCEPT !.height = h]
      /\ halves[2] = [area EXCEPT !.y = area.y + h + Sep,
                                  !.height = AtLeastZero(area.height - Sep) - h]
  BY <1>2
<1>4. QED
  BY <1>1, <1>3 DEF halves, h

(* The halves of a rectangle are rectangles. *)
LEMMA SplitRectFacts ==
  ASSUME NEW area \in Rectangles,
         NEW node \in [direction : Directions, ratio : MinRatio .. MaxRatio]
  PROVE  \A i \in {1, 2} : SplitRect(area, node)[i] \in Rectangles
<1> DEFINE first == SplitRect(area, node)[1]
           second == SplitRect(area, node)[2]
           w == FirstExtent(area.width, node.ratio)
           h == FirstExtent(area.height, node.ratio)
           restw == AtLeastZero(area.width - Sep) - w
           resth == AtLeastZero(area.height - Sep) - h
<1>1. area.x \in Nat /\ area.y \in Nat /\ area.width \in Nat /\ area.height \in Nat
  BY DEF Rectangles
<1>2. w \in Nat /\ h \in Nat
  BY <1>1, ExtentFacts
<1>3. restw \in Nat
  BY <1>1, ExtentFacts
<1>4. resth \in Nat
  BY <1>1, ExtentFacts
<1>5. area.x + w + Sep \in Nat /\ area.y + h + Sep \in Nat
  BY <1>1, <1>2 DEF Sep
<1>6. first \in Rectangles /\ second \in Rectangles
  <2>1. CASE node.direction = "Vertical"
    <3>1. /\ first = [x |-> area.x, y |-> area.y, width |-> w, height |-> area.height]
          /\ second = [x |-> area.x + w + Sep, y |-> area.y, width |-> restw,
                       height |-> area.height]
      BY <2>1, ColumnsFacts
    <3> HIDE DEF first, second, w, h, restw, resth
    <3>2. QED
      BY <3>1, <1>1, <1>2, <1>3, <1>5 DEF Rectangles
  <2>2. CASE node.direction # "Vertical"
    <3>1. /\ first = [x |-> area.x, y |-> area.y, width |-> area.width, height |-> h]
          /\ second = [x |-> area.x, y |-> area.y + h + Sep, width |-> area.width,
                       height |-> resth]
      BY <2>2, RowsFacts
    <3> HIDE DEF first, second, w, h, restw, resth
    <3>2. QED
      BY <3>1, <1>1, <1>2, <1>4, <1>5 DEF Rectangles
  <2>3. QED
    BY <2>1, <2>2
<1>7. QED
  BY <1>6

-----------------------------------------------------------------------------
(* The recursion of Rects *)

(* What the recursion of Rects says at p, when g has been computed so far. *)
AreaOf(root, area, g, p) ==
  IF p = <<>> THEN area ELSE SplitRect(g[Front(p)], root[Front(p)])[Last(p)]

(* What is above a node is a split. *)
LEMMA AboveIsSplit ==
  ASSUME NEW root, NEW T, IsTree(root, T), NEW p \in DOMAIN root, p # <<>>
  PROVE  /\ Front(p) \in DOMAIN root \ Leaves(root) /\ Last(p) \in {1, 2}
         /\ root[Front(p)] \in [direction : Directions, ratio : MinRatio .. MaxRatio]
         /\ Len(Front(p)) \in Nat /\ Len(p) = Len(Front(p)) + 1
         /\ Front(p) \in Positions /\ p = Append(Front(p), Last(p))
<1>1. p \in Positions /\ Front(p) \in DOMAIN root
  BY TreeFacts
<1>2. /\ Front(p) \in Positions /\ Last(p) \in {1, 2}
      /\ p = Append(Front(p), Last(p)) /\ Len(p) = Len(Front(p)) + 1
  BY <1>1, FrontFacts
<1>3. Len(Front(p)) \in Nat
  BY <1>2, LenProperties DEF Positions
<1>4. Front(p) \notin Leaves(root)
  <2>1. SUFFICES ASSUME Front(p) \in Leaves(root) PROVE FALSE
    OBVIOUS
  <2>2. \A i \in {1, 2} : Append(Front(p), i) \notin DOMAIN root
    BY <2>1, TreeFacts
  <2>3. QED
    BY <1>2, <2>2
<1>5. root[Front(p)] \in [direction : Directions, ratio : MinRatio .. MaxRatio]
  BY <1>1, <1>4, TreeFacts
<1>6. QED
  BY <1>1, <1>2, <1>3, <1>4, <1>5

(* The recursion of Rects has a solution, built from the root down. *)
LEMMA RectsExist ==
  ASSUME NEW root, NEW T, IsTree(root, T), NEW area \in Rectangles
  PROVE  \E g : g = [p \in DOMAIN root |-> AreaOf(root, area, g, p)]
<1> DEFINE D == DOMAIN root
           E(n) == {p \in D : Len(p) <= n}
           S == {n \in Nat : \E g \in [E(n) -> Rectangles] :
                               \A p \in E(n) : g[p] = AreaOf(root, area, g, p)}
<1>1. D \subseteq Positions /\ IsFiniteSet(D)
  BY TreeFacts
<1>2. \A p \in D : Len(p) \in Nat /\ (Len(p) = 0 => p = <<>>)
  BY <1>1, LenProperties, EmptySeq DEF Positions
<1>3. \A p \in D : p # <<>> =>
        /\ Front(p) \in D /\ Last(p) \in {1, 2}
        /\ Len(Front(p)) \in Nat /\ Len(p) = Len(Front(p)) + 1
        /\ root[Front(p)] \in [direction : Directions, ratio : MinRatio .. MaxRatio]
  BY AboveIsSplit
<1> HIDE DEF D
<1>4. 0 \in S
  <2> DEFINE g == [p \in E(0) |-> area]
  <2>1. \A p \in E(0) : g[p] = AreaOf(root, area, g, p)
    BY <1>2 DEF AreaOf
  <2>2. g \in [E(0) -> Rectangles]
    OBVIOUS
  <2>3. QED
    BY <2>1, <2>2
<1>5. ASSUME NEW n \in Nat, n \in S PROVE n + 1 \in S
  <2>1. PICK g \in [E(n) -> Rectangles] : \A p \in E(n) : g[p] = AreaOf(root, area, g, p)
    BY <1>5
  <2> DEFINE h == [p \in E(n + 1) |-> AreaOf(root, area, g, p)]
  <2>2. ASSUME NEW p \in E(n + 1)
        PROVE  h[p] \in Rectangles /\ h[p] = AreaOf(root, area, h, p)
    <3>1. CASE p = <<>>
      BY <3>1 DEF AreaOf
    <3>2. CASE p # <<>>
      <4>1. Front(p) \in E(n) /\ Front(p) \in E(n + 1) /\ Last(p) \in {1, 2}
        BY <1>3, <3>2
      <4>2. h[Front(p)] = g[Front(p)] /\ g[Front(p)] \in Rectangles
        BY <2>1, <4>1
      <4>3. h[p] = SplitRect(g[Front(p)], root[Front(p)])[Last(p)]
        BY <3>2 DEF AreaOf
      <4>4. h[p] = AreaOf(root, area, h, p)
        <5> HIDE DEF h
        <5>1. QED
          BY <3>2, <4>2, <4>3 DEF AreaOf
      <4>5. h[p] \in Rectangles
        BY <1>3, <3>2, <4>1, <4>2, <4>3, SplitRectFacts
      <4>6. QED
        BY <4>4, <4>5
    <3>3. QED
      BY <3>1, <3>2
  <2>3. h \in [E(n + 1) -> Rectangles]
    BY <2>2
  <2> HIDE DEF h
  <2>4. n + 1 \in Nat
    OBVIOUS
  <2>5. QED
    BY <2>2, <2>3, <2>4
<1>6. \A n \in Nat : n \in S
  <2> HIDE DEF S
  <2>1. QED
    BY <1>4, <1>5, NatSetInduction
<1>7. PICK n \in Nat : \A p \in D : Len(p) <= n
  BY <1>1, LengthsAreBounded
<1>8. E(n) = D
  BY <1>7
<1>9. PICK g \in [D -> Rectangles] : \A p \in D : g[p] = AreaOf(root, area, g, p)
  BY <1>6, <1>8
<1>10. g = [p \in D |-> AreaOf(root, area, g, p)]
  BY <1>9
<1>11. QED
  BY <1>10 DEF D

(* The area of every node, from the root down. *)
LEMMA RectsFacts ==
  ASSUME NEW root, NEW T, IsTree(root, T), NEW area \in Rectangles
  PROVE  LET rects == Rects(root, area) IN
         /\ rects \in [DOMAIN root -> Rectangles]
         /\ rects[<<>>] = area
         /\ \A p \in DOMAIN root \ {<<>>} :
              rects[p] = SplitRect(rects[Front(p)], root[Front(p)])[Last(p)]
<1> DEFINE D == DOMAIN root
           rects == Rects(root, area)
           S == {n \in Nat : \A p \in D : Len(p) <= n => rects[p] \in Rectangles}
<1>1. rects = [p \in D |-> AreaOf(root, area, rects, p)]
  <2> DEFINE P(g) == g = [p \in D |-> AreaOf(root, area, g, p)]
  <2>1. \E g : P(g)
    BY RectsExist
  <2>2. rects = CHOOSE g : P(g)
    BY DEF Rects, AreaOf
  <2> HIDE DEF P, rects
  <2>3. P(rects)
    BY <2>1, <2>2, Zenon
  <2>4. QED
    BY <2>3 DEF P
<1> HIDE DEF rects
<1>2. DOMAIN rects = D /\ \A p \in D : rects[p] = AreaOf(root, area, rects, p)
  BY <1>1
<1>3. rects[<<>>] = area
  BY <1>2, TreeFacts DEF AreaOf
<1>4. \A p \in D \ {<<>>} : rects[p] = SplitRect(rects[Front(p)], root[Front(p)])[Last(p)]
  BY <1>2 DEF AreaOf
<1>5. \A p \in D : Len(p) \in Nat /\ (Len(p) = 0 => p = <<>>)
  <2>1. D \subseteq Positions
    BY TreeFacts
  <2>2. QED
    BY <2>1, LenProperties, EmptySeq DEF Positions
<1>6. \A p \in D : p # <<>> =>
        /\ Front(p) \in D /\ Last(p) \in {1, 2}
        /\ Len(Front(p)) \in Nat /\ Len(p) = Len(Front(p)) + 1
        /\ root[Front(p)] \in [direction : Directions, ratio : MinRatio .. MaxRatio]
  BY AboveIsSplit
<1> HIDE DEF D
<1>7. 0 \in S
  BY <1>3, <1>5
<1>8. ASSUME NEW n \in Nat, n \in S PROVE n + 1 \in S
  <2>1. ASSUME NEW p \in D, Len(p) <= n + 1 PROVE rects[p] \in Rectangles
    <3>1. CASE p = <<>>
      BY <1>3, <3>1
    <3>2. CASE p # <<>>
      <4>1. Front(p) \in D /\ Len(Front(p)) <= n
        BY <1>6, <2>1, <3>2
      <4>2. rects[Front(p)] \in Rectangles
        BY <1>8, <4>1
      <4>3. rects[p] = SplitRect(rects[Front(p)], root[Front(p)])[Last(p)]
        BY <1>4, <3>2
      <4>4. QED
        BY <1>6, <3>2, <4>2, <4>3, SplitRectFacts
    <3>3. QED
      BY <3>1, <3>2
  <2>2. QED
    BY <2>1
<1>9. \A n \in Nat : n \in S
  <2> HIDE DEF S
  <2>1. QED
    BY <1>7, <1>8, NatSetInduction
<1>10. \A p \in D : rects[p] \in Rectangles
  BY <1>5, <1>9
<1>11. rects \in [D -> Rectangles]
  BY <1>1, <1>2, <1>10
<1>12. QED
  BY <1>3, <1>4, <1>11 DEF D, rects

-----------------------------------------------------------------------------
(* Navigation *)

(* Positions p and q part at i, where p goes to the first child. *)
Parts(p, q, i) ==
  /\ i \in 1..Len(p) /\ i \in 1..Len(q)
  /\ p[i] < q[i] /\ \A k \in 1..i - 1 : p[k] = q[k]

(* Before, said of the place where two positions part. *)
LEMMA BeforeFacts ==
  ASSUME NEW p \in Positions, NEW q \in Positions
  PROVE  Before(p, q) <=> \E i \in Nat : Parts(p, q, i)
<1>1. /\ DOMAIN p = 1..Len(p) /\ DOMAIN q = 1..Len(q)
      /\ Len(p) \in Nat /\ Len(q) \in Nat
  BY LenProperties DEF Positions
<1>2. ASSUME NEW i \in 1..Len(p), i \in 1..Len(q)
      PROVE  SubSeq(p, 1, i - 1) = SubSeq(q, 1, i - 1) <=> \A k \in 1..i - 1 : p[k] = q[k]
  <2> DEFINE s == SubSeq(p, 1, i - 1)
             t == SubSeq(q, 1, i - 1)
  <2>1. \A k \in 1..i - 1 : p[k] \in {1, 2} /\ q[k] \in {1, 2}
    BY <1>1, <1>2, ElementOfSeq DEF Positions
  <2>2. /\ s \in Seq({1, 2}) /\ Len(s) = i - 1 /\ \A k \in 1..i - 1 : s[k] = p[k]
    BY <1>1, <1>2, <2>1, SubSeqProperties
  <2>3. /\ t \in Seq({1, 2}) /\ Len(t) = i - 1 /\ \A k \in 1..i - 1 : t[k] = q[k]
    BY <1>1, <1>2, <2>1, SubSeqProperties
  <2> HIDE DEF s, t
  <2>4. ASSUME \A k \in 1..i - 1 : p[k] = q[k] PROVE s = t
    <3>1. \A k \in 1..Len(s) : s[k] = t[k]
      BY <2>2, <2>3, <2>4
    <3>2. QED
      BY <2>2, <2>3, <3>1, SeqEqual
  <2>5. ASSUME s = t PROVE \A k \in 1..i - 1 : p[k] = q[k]
    BY <2>2, <2>3, <2>5
  <2>6. QED
    BY <2>4, <2>5 DEF s, t
<1>3. ASSUME NEW i \in Nat, Parts(p, q, i) PROVE Before(p, q)
  <2>1. i \in DOMAIN p \cap DOMAIN q /\ p[i] < q[i]
    BY <1>1, <1>3 DEF Parts
  <2>2. SubSeq(p, 1, i - 1) = SubSeq(q, 1, i - 1)
    BY <1>2, <1>3 DEF Parts
  <2>3. QED
    BY <2>1, <2>2 DEF Before
<1>4. ASSUME Before(p, q) PROVE \E i \in Nat : Parts(p, q, i)
  <2>1. PICK i \in DOMAIN p \cap DOMAIN q :
               p[i] < q[i] /\ SubSeq(p, 1, i - 1) = SubSeq(q, 1, i - 1)
    BY <1>4 DEF Before
  <2>2. i \in Nat /\ i \in 1..Len(p) /\ i \in 1..Len(q)
    BY <1>1
  <2>3. \A k \in 1..i - 1 : p[k] = q[k]
    BY <1>2, <2>1, <2>2
  <2>4. Parts(p, q, i)
    BY <2>1, <2>2, <2>3 DEF Parts
  <2>5. QED
    BY <2>2, <2>4
<1>5. QED
  BY <1>3, <1>4

(* The order of visiting is transitive. *)
LEMMA BeforeIsTransitive ==
  ASSUME NEW p \in Positions, NEW q \in Positions, NEW r \in Positions,
         Before(p, q), Before(q, r)
  PROVE  Before(p, r)
<1>1. PICK i \in Nat : Parts(p, q, i)
  BY BeforeFacts
<1>2. PICK j \in Nat : Parts(q, r, j)
  BY BeforeFacts
<1>3. /\ Len(p) \in Nat /\ Len(q) \in Nat /\ Len(r) \in Nat
      /\ \A k \in 1..Len(p) : p[k] \in {1, 2}
      /\ \A k \in 1..Len(q) : q[k] \in {1, 2}
      /\ \A k \in 1..Len(r) : r[k] \in {1, 2}
  BY LenProperties, ElementOfSeq DEF Positions
<1>4. CASE i <= j
  <2>1. Parts(p, r, i)
    BY <1>1, <1>2, <1>3, <1>4 DEF Parts
  <2>2. QED
    BY <2>1, BeforeFacts
<1>5. CASE j < i
  <2>1. Parts(p, r, j)
    BY <1>1, <1>2, <1>3, <1>5 DEF Parts
  <2>2. QED
    BY <2>1, BeforeFacts
<1>6. QED
  BY <1>1, <1>2, <1>4, <1>5

(* Two positions of which none is a prefix of the other part somewhere. *)
LEMMA BeforeIsTotal ==
  ASSUME NEW p \in Positions, NEW q \in Positions, ~ IsPrefix(p, q), ~ IsPrefix(q, p)
  PROVE  Before(p, q) \/ Before(q, p)
<1> DEFINE C == {i \in 1..Len(p) : i <= Len(q) /\ p[i] # q[i]}
           d == [i \in C |-> i]
<1>1. /\ Len(p) \in Nat /\ Len(q) \in Nat
      /\ \A k \in 1..Len(p) : p[k] \in {1, 2}
      /\ \A k \in 1..Len(q) : q[k] \in {1, 2}
  BY LenProperties, ElementOfSeq DEF Positions
<1>2. ASSUME NEW u \in Positions, NEW v \in Positions, Len(u) <= Len(v),
             \A i \in 1..Len(u) : u[i] = v[i]
      PROVE  IsPrefix(u, v)
  <2>1. Len(u) \in Nat /\ Len(v) \in Nat /\ u \in Seq({1, 2})
        /\ \A k \in 1..Len(v) : v[k] \in {1, 2}
    BY LenProperties, ElementOfSeq DEF Positions
  <2> DEFINE s == SubSeq(v, 1, Len(u))
  <2>2. \A k \in 1..Len(u) : v[k] \in {1, 2}
    BY <1>2, <2>1
  <2>3. /\ s \in Seq({1, 2}) /\ Len(s) = Len(u) /\ \A k \in 1..Len(u) : s[k] = v[k]
    BY <1>2, <2>1, <2>2, SubSeqProperties
  <2>4. SubSeq(u, 1, Len(u)) = u
    BY <2>1, SubSeqFull
  <2>5. s = u
    <3> HIDE DEF s
    <3>1. QED
      BY <1>2, <2>1, <2>3, SeqEqual
  <2>6. QED
    BY <1>2, <2>4, <2>5 DEF IsPrefix
<1>3. C # {}
  <2>1. SUFFICES ASSUME C = {} PROVE FALSE
    OBVIOUS
  <2>2. CASE Len(p) <= Len(q)
    BY <1>1, <1>2, <2>1, <2>2
  <2>3. CASE Len(q) <= Len(p)
    <3>1. \A i \in 1..Len(q) : q[i] = p[i]
      BY <1>1, <2>1, <2>3
    <3>2. QED
      BY <1>2, <2>3, <3>1
  <2>4. QED
    BY <1>1, <2>2, <2>3
<1>4. IsFiniteSet(C)
  <2>1. IsFiniteSet(1..Len(p)) /\ C \in SUBSET (1..Len(p))
    BY <1>1, FS_Interval
  <2> HIDE DEF C
  <2>2. QED
    BY <2>1, FS_Subset
<1>5. PICK i \in C : \A j \in C : d[i] <= d[j]
  <2>1. \A j \in C : d[j] \in Int
    OBVIOUS
  <2> HIDE DEF C, d
  <2>2. QED
    BY <1>3, <1>4, <2>1, LeastExists
<1>6. \A k \in 1..i - 1 : p[k] = q[k]
  BY <1>1, <1>5
<1>7. i \in 1..Len(p) /\ i \in 1..Len(q) /\ i \in Nat /\ p[i] # q[i]
  BY <1>1, <1>5
<1>8. Parts(p, q, i) \/ Parts(q, p, i)
  BY <1>1, <1>6, <1>7 DEF Parts
<1>9. QED
  BY <1>7, <1>8, BeforeFacts

(* Of two leaves, one is visited first. *)
LEMMA LeavesAreOrdered ==
  ASSUME NEW root, NEW T, IsTree(root, T), NEW p \in Leaves(root), NEW q \in Leaves(root), p # q
  PROVE  Before(p, q) \/ Before(q, p)
<1>1. /\ p \in DOMAIN root /\ q \in DOMAIN root /\ p \in Positions /\ q \in Positions
  BY TreeFacts
<1>2. ASSUME NEW u \in Leaves(root), NEW v \in Leaves(root), u # v, IsPrefix(u, v) PROVE FALSE
  <2>1. v \in DOMAIN root /\ u \in DOMAIN root /\ IsStrictPrefix(u, v)
    BY <1>2, TreeFacts DEF IsStrictPrefix
  <2>2. u \in DOMAIN root \ Leaves(root)
    BY <2>1, AboveFacts
  <2>3. QED
    BY <2>2
<1>3. QED
  BY <1>1, <1>2, BeforeIsTotal

(* Of finitely many leaves, one is visited first. *)
LEMMA FirstVisited ==
  ASSUME NEW root, NEW T, IsTree(root, T), NEW C \in SUBSET Leaves(root), C # {}
  PROVE  \E p \in C : \A q \in C \ {p} : Before(p, q)
<1> DEFINE P == {X \in SUBSET C : X # {} => \E p \in X : \A q \in X \ {p} : Before(p, q)}
<1>1. Leaves(root) \subseteq DOMAIN root /\ DOMAIN root \subseteq Positions /\ IsFiniteSet(C)
  <2>1. Leaves(root) \subseteq DOMAIN root /\ IsFiniteSet(DOMAIN root)
        /\ DOMAIN root \subseteq Positions
    BY TreeFacts
  <2>2. C \in SUBSET DOMAIN root
    BY <2>1
  <2>3. IsFiniteSet(C)
    BY <2>1, <2>2, FS_Subset
  <2>4. QED
    BY <2>1, <2>3
<1>2. {} \in P
  OBVIOUS
<1>3. ASSUME NEW X \in P, NEW x \in C, X \subseteq C PROVE X \cup {x} \in P
  <2>1. CASE X = {}
    BY <2>1
  <2>2. CASE X # {}
    <3>1. PICK p \in X : \A q \in X \ {p} : Before(p, q)
      BY <2>2
    <3>2. CASE x = p
      BY <1>3, <3>1, <3>2
    <3>3. CASE Before(p, x)
      BY <1>3, <3>1, <3>3
    <3>4. CASE x # p /\ Before(x, p)
      <4>1. \A q \in X \ {p} : q \in Positions /\ p \in Positions /\ x \in Positions
        BY <1>1, <1>3
      <4>2. \A q \in X : Before(x, q)
        BY <3>1, <3>4, <4>1, BeforeIsTransitive
      <4>3. QED
        BY <1>3, <4>2
    <3>5. QED
      BY <1>3, <3>2, <3>3, <3>4, LeavesAreOrdered
  <2>3. QED
    BY <2>1, <2>2
<1>4. C \in P
  <2> HIDE DEF P
  <2>1. \A X \in P, x \in C : X \subseteq C => X \cup {x} \in P
    BY <1>3
  <2>2. QED
    BY <1>1, <1>2, <2>1, FiniteSetSetInduction
<1>5. QED
  BY <1>4

(* A distance is a number. *)
LEMMA DistanceFacts ==
  ASSUME NEW key \in Keys, NEW f \in Rectangles, NEW r \in Rectangles
  PROVE  Distance(key, f, r) \in Int
<1>1. /\ f.x \in Int /\ f.y \in Int /\ f.width \in Int /\ f.height \in Int
      /\ r.x \in Int /\ r.y \in Int /\ r.width \in Int /\ r.height \in Int
  BY DEF Rectangles
<1>2. QED
  BY <1>1 DEF Distance, Keys

(* Of several panes, one is nearest. *)
LEMMA OneIsNearest ==
  ASSUME NEW root, NEW T, IsTree(root, T), NEW rects \in [DOMAIN root -> Rectangles],
         NEW key \in Keys, NEW f \in Rectangles, NEW C \in SUBSET Leaves(root), C # {}
  PROVE  \E p \in C : \A q \in C : Distance(key, f, rects[p]) <= Distance(key, f, rects[q])
<1> DEFINE d == [p \in C |-> Distance(key, f, rects[p])]
<1>1. C \in SUBSET DOMAIN root /\ IsFiniteSet(DOMAIN root)
  BY TreeFacts
<1>2. IsFiniteSet(C)
  BY <1>1, FS_Subset
<1>3. \A p \in C : d[p] = Distance(key, f, rects[p]) /\ d[p] \in Int
  BY <1>1, DistanceFacts
<1> HIDE DEF d
<1>4. PICK p \in C : \A q \in C : d[p] <= d[q]
  BY <1>2, <1>3, LeastExists
<1>5. QED
  BY <1>3, <1>4

(* Navigation moves the focus, to a pane. *)
LEMMA NavigateFacts ==
  ASSUME NEW T, NEW layout, Sound(layout, T), NEW key \in Keys, NEW area \in Rectangles
  PROVE  LET moved == Navigate(layout, key, area) IN
         Sound(moved, T) /\ moved.root = layout.root
<1> DEFINE root == layout.root
           rects == Rects(root, area)
           f == rects[PathOf(root, layout.focused)]
           candidates == {p \in Leaves(root) : /\ root[p].terminal_id # layout.focused
                                               /\ Beside(key, f, rects[p])}
           nearest == {p \in candidates : \A q \in candidates :
                         Distance(key, f, rects[p]) <= Distance(key, f, rects[q])}
           next == CHOOSE p \in nearest : \A q \in nearest \ {p} : Before(p, q)
           moved == Navigate(layout, key, area)
<1>1. /\ IsTree(root, T) /\ Distinct(root) /\ layout.focused \in Panes(root)
      /\ layout = [root |-> root, focused |-> layout.focused]
  BY DEF Sound
<1>2. moved = IF candidates = {} THEN layout
              ELSE [layout EXCEPT !.focused = root[next].terminal_id]
  BY <1>1 DEF Navigate
<1>3. CASE candidates = {}
  <2>1. moved = layout
    BY <1>2, <1>3
  <2>2. QED
    BY <2>1 DEF moved
<1>4. CASE candidates # {}
  <2>1. /\ rects \in [DOMAIN root -> Rectangles]
        /\ Leaves(root) \subseteq DOMAIN root /\ PathOf(root, layout.focused) \in Leaves(root)
    BY <1>1, RectsFacts, TreeFacts, PaneFacts
  <2>2. f \in Rectangles /\ candidates \in SUBSET Leaves(root)
    <3> HIDE DEF rects
    <3>1. QED
      BY <2>1
  <2>3. nearest \in SUBSET Leaves(root)
    OBVIOUS
  <2>4. nearest # {}
    <3> HIDE DEF candidates, f, rects, root
    <3>1. \E p \in candidates : \A q \in candidates :
            Distance(key, f, rects[p]) <= Distance(key, f, rects[q])
      BY <1>1, <1>4, <2>1, <2>2, OneIsNearest
    <3>2. QED
      BY <3>1
  <2>5. next \in nearest
    <3> HIDE DEF nearest
    <3>1. \E p \in nearest : \A q \in nearest \ {p} : Before(p, q)
      BY <1>1, <2>3, <2>4, FirstVisited
    <3>2. QED
      BY <3>1
  <2> HIDE DEF nearest
  <2> HIDE DEF next
  <2>6. root[next].terminal_id \in Panes(root)
    BY <2>3, <2>5 DEF Panes
  <2>7. moved = [root |-> root, focused |-> root[next].terminal_id]
    <3> HIDE DEF candidates, moved
    <3>1. QED
      BY <1>1, <1>2, <1>4
  <2> HIDE DEF moved
  <2>8. moved.root = root /\ moved.focused = root[next].terminal_id
    BY <2>7
  <2>9. Sound(moved, T)
    BY <1>1, <2>6, <2>7, <2>8 DEF Sound
  <2>10. QED
    BY <2>8, <2>9 DEF moved
<1>5. QED
  BY <1>3, <1>4

(* Navigation from the pane at f goes to one that lies that way, and no other *)
(* that does is nearer.                                                       *)
LEMMA NavigateNearest ==
  ASSUME NEW T, NEW layout, Sound(layout, T), NEW key \in Keys, NEW area \in Rectangles,
         NEW f \in Leaves(layout.root), layout.root[f] = Leaf(layout.focused),
         NEW g \in Leaves(layout.root), g # f,
         Beside(key, Rects(layout.root, area)[f], Rects(layout.root, area)[g])
  PROVE  LET rects == Rects(layout.root, area) IN
         \E q \in Leaves(layout.root) :
            /\ Navigate(layout, key, area).focused = layout.root[q].terminal_id
            /\ Beside(key, rects[f], rects[q])
            /\ Distance(key, rects[f], rects[q]) <= Distance(key, rects[f], rects[g])
<1> DEFINE root == layout.root
           rects == Rects(root, area)
           from == rects[PathOf(root, layout.focused)]
           candidates == {p \in Leaves(root) : /\ root[p].terminal_id # layout.focused
                                               /\ Beside(key, from, rects[p])}
           nearest == {p \in candidates : \A q \in candidates :
                         Distance(key, from, rects[p]) <= Distance(key, from, rects[q])}
           next == CHOOSE p \in nearest : \A q \in nearest \ {p} : Before(p, q)
           moved == Navigate(layout, key, area)
<1>1. /\ IsTree(root, T) /\ Distinct(root) /\ layout.focused \in Panes(root)
      /\ layout = [root |-> root, focused |-> layout.focused]
  BY DEF Sound
<1>2. moved = IF candidates = {} THEN layout
              ELSE [layout EXCEPT !.focused = root[next].terminal_id]
  BY <1>1 DEF Navigate
<1>3. /\ rects \in [DOMAIN root -> Rectangles]
      /\ Leaves(root) \subseteq DOMAIN root /\ PathOf(root, layout.focused) \in Leaves(root)
      /\ root[PathOf(root, layout.focused)] = Leaf(layout.focused)
      /\ \A p \in Leaves(root) : root[p] = Leaf(root[p].terminal_id)
  BY <1>1, RectsFacts, TreeFacts, PaneFacts
<1>4. PathOf(root, layout.focused) = f
  BY <1>1, <1>3 DEF Distinct
<1>5. from = rects[f]
  BY <1>4
<1>6. root[g].terminal_id # layout.focused
  <2>1. SUFFICES ASSUME root[g].terminal_id = layout.focused PROVE FALSE
    OBVIOUS
  <2>2. root[g] = root[f]
    BY <1>3, <2>1
  <2>3. QED
    BY <1>1, <2>2 DEF Distinct
<1>7. g \in candidates
  BY <1>5, <1>6
<1>8. next \in nearest
  <2>1. from \in Rectangles /\ candidates \in SUBSET Leaves(root) /\ candidates # {}
    <3> HIDE DEF rects
    <3>1. QED
      BY <1>3, <1>7
  <2>2. nearest \in SUBSET Leaves(root)
    OBVIOUS
  <2>3. nearest # {}
    <3> HIDE DEF candidates, from, rects, root
    <3>1. \E p \in candidates : \A q \in candidates :
            Distance(key, from, rects[p]) <= Distance(key, from, rects[q])
      BY <1>1, <1>3, <2>1, OneIsNearest
    <3>2. QED
      BY <3>1
  <2> HIDE DEF nearest
  <2>4. \E p \in nearest : \A q \in nearest \ {p} : Before(p, q)
    BY <1>1, <2>2, <2>3, FirstVisited
  <2>5. QED
    BY <2>4
<1> HIDE DEF next
<1>9. /\ next \in Leaves(root) /\ Beside(key, from, rects[next])
       /\ Distance(key, from, rects[next]) <= Distance(key, from, rects[g])
  BY <1>7, <1>8
<1>10. moved.focused = root[next].terminal_id
  <2>1. moved = [layout EXCEPT !.focused = root[next].terminal_id]
    BY <1>2, <1>7
  <2> HIDE DEF moved, root
  <2>2. QED
    BY <1>1, <2>1
<1>11. QED
  BY <1>5, <1>9, <1>10 DEF moved, rects, root
-----------------------------------------------------------------------------
(* The extents of panes *)

(* A wider area has wider halves. *)
LEMMA ExtentGrows ==
  ASSUME NEW a \in Nat, NEW b \in Nat, a <= b, NEW r \in MinRatio .. MaxRatio
  PROVE  /\ FirstExtent(a, r) <= FirstExtent(b, r)
         /\ AtLeastZero(a - Sep) - FirstExtent(a, r) <= AtLeastZero(b - Sep) - FirstExtent(b, r)
<1> DEFINE m == AtLeastZero(a - Sep)
           n == AtLeastZero(b - Sep)
<1>1. m \in Nat /\ n \in Nat /\ m <= n
  BY DEF AtLeastZero, Sep
<1>2. FirstExtent(a, r) = (m * r) \div 20 /\ FirstExtent(b, r) = (n * r) \div 20
  BY DEF FirstExtent, Whole
<1>3. r \in Nat /\ r <= 20
  BY DEF MinRatio, MaxRatio
<1> HIDE DEF m, n
<1> DEFINE d == n - m
           i == m * r
           j == d * r
<1>4. n * r = i + j
  BY <1>1, <1>3
<1>5. d \in Nat /\ i \in Nat /\ j \in Nat /\ j <= 20 * d
  BY <1>1, <1>3
<1>6. n = m + d
  BY <1>1
<1> HIDE DEF d, i, j
<1>7. i \div 20 <= (i + j) \div 20 /\ (i + j) \div 20 <= i \div 20 + d
  BY <1>5
<1>8. i \div 20 \in Int /\ (i + j) \div 20 \in Int
  BY <1>5
<1>9. FirstExtent(a, r) = i \div 20 /\ FirstExtent(b, r) = (i + j) \div 20
  BY <1>2, <1>4 DEF i
<1>10. QED
  BY <1>1, <1>5, <1>6, <1>7, <1>8, <1>9 DEF m, n

(* A larger ratio widens the first half at the expense of the second. *)
LEMMA RatioGrows ==
  ASSUME NEW a \in Nat, NEW r \in MinRatio .. MaxRatio, NEW s \in MinRatio .. MaxRatio, r <= s
  PROVE  FirstExtent(a, r) <= FirstExtent(a, s)
<1> DEFINE m == AtLeastZero(a - Sep)
           i == m * r
           j == m * s
<1>1. m \in Nat
  BY DEF AtLeastZero, Sep
<1>2. FirstExtent(a, r) = i \div 20 /\ FirstExtent(a, s) = j \div 20
  BY DEF FirstExtent, Whole
<1>3. r \in Nat /\ s \in Nat
  BY DEF MinRatio, MaxRatio
<1> HIDE DEF m
<1>4. i \in Nat /\ j \in Nat /\ i <= j
  BY <1>1, <1>3
<1> HIDE DEF i, j
<1>5. QED
  BY <1>2, <1>4

(* The coordinates of the halves. *)
LEMMA HalfFields ==
  ASSUME NEW area \in Rectangles, NEW node
  PROVE  LET first == SplitRect(area, node)[1]
             second == SplitRect(area, node)[2]
             w == FirstExtent(area.width, node.ratio)
             h == FirstExtent(area.height, node.ratio)
         IN  /\ node.direction = "Vertical" =>
                  /\ first.x = area.x /\ first.width = w
                  /\ second.x = area.x + w + Sep
                  /\ second.width = AtLeastZero(area.width - Sep) - w
                  /\ first.y = area.y /\ first.height = area.height
                  /\ second.y = area.y /\ second.height = area.height
             /\ node.direction # "Vertical" =>
                  /\ first.y = area.y /\ first.height = h
                  /\ second.y = area.y + h + Sep
                  /\ second.height = AtLeastZero(area.height - Sep) - h
                  /\ first.x = area.x /\ first.width = area.width
                  /\ second.x = area.x /\ second.width = area.width
<1> DEFINE first == SplitRect(area, node)[1]
           second == SplitRect(area, node)[2]
           w == FirstExtent(area.width, node.ratio)
           h == FirstExtent(area.height, node.ratio)
           restw == AtLeastZero(area.width - Sep) - w
           resth == AtLeastZero(area.height - Sep) - h
<1>1. CASE node.direction = "Vertical"
  <2>1. /\ first = [x |-> area.x, y |-> area.y, width |-> w, height |-> area.height]
        /\ second = [x |-> area.x + w + Sep, y |-> area.y, width |-> restw,
                     height |-> area.height]
    BY <1>1, ColumnsFacts
  <2> HIDE DEF first, second, w, h, restw, resth
  <2>2. /\ first.x = area.x /\ first.width = w /\ first.y = area.y
        /\ first.height = area.height
        /\ second.x = area.x + w + Sep /\ second.y = area.y /\ second.width = restw
        /\ second.height = area.height
    BY <2>1
  <2>3. QED
    BY <1>1, <2>2 DEF first, second, w, h, restw, resth
<1>2. CASE node.direction # "Vertical"
  <2>1. /\ first = [x |-> area.x, y |-> area.y, width |-> area.width, height |-> h]
        /\ second = [x |-> area.x, y |-> area.y + h + Sep, width |-> area.width,
                     height |-> resth]
    BY <1>2, RowsFacts
  <2> HIDE DEF first, second, w, h, restw, resth
  <2>2. /\ first.x = area.x /\ first.width = area.width /\ first.y = area.y
        /\ first.height = h
        /\ second.x = area.x /\ second.y = area.y + h + Sep /\ second.width = area.width
        /\ second.height = resth
    BY <2>1
  <2>3. QED
    BY <1>2, <2>2 DEF first, second, w, h, restw, resth
<1>3. QED
  BY <1>1, <1>2

(* A is no larger than B. *)
Within(A, B) == A.width <= B.width /\ A.height <= B.height

(* Node m gives child i of an area no more than node n does. *)
Lets(m, n, i) ==
  /\ m.direction = n.direction
  /\ IF i = 1 THEN m.ratio <= n.ratio ELSE n.ratio <= m.ratio

(* Where a node gives no less of a wider area, the half is no less. *)
LEMMA HalfGrows ==
  ASSUME NEW A \in Rectangles, NEW B \in Rectangles, Within(A, B), NEW i \in {1, 2},
         NEW m \in [direction : Directions, ratio : MinRatio .. MaxRatio],
         NEW n \in [direction : Directions, ratio : MinRatio .. MaxRatio], Lets(m, n, i)
  PROVE  Within(SplitRect(A, m)[i], SplitRect(B, n)[i])
<1>1. /\ A.width \in Nat /\ A.height \in Nat /\ B.width \in Nat /\ B.height \in Nat
      /\ A.width <= B.width /\ A.height <= B.height
  BY DEF Rectangles, Within
<1>2. /\ m.ratio \in MinRatio .. MaxRatio /\ n.ratio \in MinRatio .. MaxRatio
      /\ m.direction = n.direction
      /\ IF i = 1 THEN m.ratio <= n.ratio ELSE n.ratio <= m.ratio
  BY DEF Lets
<1>3. ASSUME NEW a \in Nat, NEW b \in Nat, a <= b
      PROVE  IF i = 1 THEN FirstExtent(a, m.ratio) <= FirstExtent(b, n.ratio)
             ELSE AtLeastZero(a - Sep) - FirstExtent(a, m.ratio)
                    <= AtLeastZero(b - Sep) - FirstExtent(b, n.ratio)
  <2>1. /\ FirstExtent(a, m.ratio) \in Nat /\ FirstExtent(b, m.ratio) \in Nat
        /\ FirstExtent(b, n.ratio) \in Nat
        /\ AtLeastZero(a - Sep) \in Nat /\ AtLeastZero(b - Sep) \in Nat
    BY <1>2, <1>3, ExtentFacts
  <2>2. /\ FirstExtent(a, m.ratio) <= FirstExtent(b, m.ratio)
        /\ AtLeastZero(a - Sep) - FirstExtent(a, m.ratio)
             <= AtLeastZero(b - Sep) - FirstExtent(b, m.ratio)
    BY <1>2, <1>3, ExtentGrows
  <2>3. CASE i = 1
    <3>1. FirstExtent(b, m.ratio) <= FirstExtent(b, n.ratio)
      BY <1>2, <2>3, RatioGrows
    <3>2. QED
      BY <2>1, <2>2, <2>3, <3>1
  <2>4. CASE i # 1
    <3>1. FirstExtent(b, n.ratio) <= FirstExtent(b, m.ratio)
      BY <1>2, <2>4, RatioGrows
    <3>2. QED
      BY <2>1, <2>2, <2>4, <3>1
  <2>5. QED
    BY <2>3, <2>4
<1>4. CASE m.direction = "Vertical"
  <2> DEFINE v == FirstExtent(A.width, m.ratio)
             w == FirstExtent(B.width, n.ratio)
             a1 == SplitRect(A, m)[1]
             a2 == SplitRect(A, m)[2]
             b1 == SplitRect(B, n)[1]
             b2 == SplitRect(B, n)[2]
  <2>1. /\ a1.width = v /\ a1.height = A.height
        /\ a2.width = AtLeastZero(A.width - Sep) - v /\ a2.height = A.height
    BY <1>4, HalfFields
  <2>2. /\ b1.width = w /\ b1.height = B.height
        /\ b2.width = AtLeastZero(B.width - Sep) - w /\ b2.height = B.height
    <3>1. n.direction = "Vertical"
      BY <1>2, <1>4
    <3>2. QED
      BY <3>1, HalfFields
  <2>3. IF i = 1 THEN v <= w
        ELSE AtLeastZero(A.width - Sep) - v <= AtLeastZero(B.width - Sep) - w
    BY <1>1, <1>3
  <2> HIDE DEF v, w, a1, a2, b1, b2
  <2>4. CASE i = 1
    <3>1. Within(a1, b1)
      BY <1>1, <2>1, <2>2, <2>3, <2>4 DEF Within
    <3>2. QED
      BY <2>4, <3>1 DEF a1, b1
  <2>5. CASE i = 2
    <3>1. Within(a2, b2)
      BY <1>1, <2>1, <2>2, <2>3, <2>5 DEF Within
    <3>2. QED
      BY <2>5, <3>1 DEF a2, b2
  <2>6. QED
    BY <2>4, <2>5
<1>5. CASE m.direction # "Vertical"
  <2> DEFINE v == FirstExtent(A.height, m.ratio)
             w == FirstExtent(B.height, n.ratio)
             a1 == SplitRect(A, m)[1]
             a2 == SplitRect(A, m)[2]
             b1 == SplitRect(B, n)[1]
             b2 == SplitRect(B, n)[2]
  <2>1. /\ a1.height = v /\ a1.width = A.width
        /\ a2.height = AtLeastZero(A.height - Sep) - v /\ a2.width = A.width
    BY <1>5, HalfFields
  <2>2. /\ b1.height = w /\ b1.width = B.width
        /\ b2.height = AtLeastZero(B.height - Sep) - w /\ b2.width = B.width
    <3>1. n.direction # "Vertical"
      BY <1>2, <1>5
    <3>2. QED
      BY <3>1, HalfFields
  <2>3. IF i = 1 THEN v <= w
        ELSE AtLeastZero(A.height - Sep) - v <= AtLeastZero(B.height - Sep) - w
    BY <1>1, <1>3
  <2> HIDE DEF v, w, a1, a2, b1, b2
  <2>4. CASE i = 1
    <3>1. Within(a1, b1)
      BY <1>1, <2>1, <2>2, <2>3, <2>4 DEF Within
    <3>2. QED
      BY <2>4, <3>1 DEF a1, b1
  <2>5. CASE i = 2
    <3>1. Within(a2, b2)
      BY <1>1, <2>1, <2>2, <2>3, <2>5 DEF Within
    <3>2. QED
      BY <2>5, <3>1 DEF a2, b2
  <2>6. QED
    BY <2>4, <2>5
<1>6. QED
  BY <1>4, <1>5

(* The parent of what is at p or above it is above p, on the way to it. *)
LEMMA ParentIsAbove ==
  ASSUME NEW p \in Positions, NEW f \in Positions, NEW i \in {1, 2}, IsPrefix(Append(f, i), p)
  PROVE  IsStrictPrefix(f, p) /\ p[Len(f) + 1] = i
<1> DEFINE q == Append(f, i)
           r == SubSeq(p, Len(q) + 1, Len(p))
           s == <<i>>
<1>1. q \in Positions /\ Len(q) = Len(f) + 1
  BY AppendFacts
<1> HIDE DEF q
<1>2. r \in Positions /\ p = q \o r
  BY <1>1, PrefixFacts DEF q
<1> HIDE DEF r
<1>3. Len(f) \in Nat /\ Len(q) \in Nat /\ Len(r) \in Nat
  BY <1>1, <1>2, LenProperties DEF Positions
<1>4. q[Len(f) + 1] = i
  BY AppendProperties DEF q, Positions
<1>5. p[Len(f) + 1] = i
  <2>1. \A k \in 1 .. Len(q) : (q \o r)[k] = q[k]
    BY <1>1, <1>2, <1>3, ConcatProperties DEF Positions
  <2>2. Len(f) + 1 \in 1 .. Len(q)
    BY <1>1, <1>3
  <2>3. QED
    BY <1>2, <1>4, <2>1, <2>2
<1>6. q = f \o s /\ s \in Positions
  BY AppendIsConcat DEF q, Positions
<1> HIDE DEF s
<1>7. (f \o s) \o r = f \o (s \o r)
  BY <1>2, <1>6, ConcatAssociative DEF Positions
<1>8. p = f \o (s \o r) /\ s \o r \in Positions
  BY <1>2, <1>6, <1>7, ConcatFacts
<1>9. IsPrefix(f, p)
  BY <1>8, PrefixFacts
<1>10. Len(p) = Len(q) + Len(r)
  BY <1>1, <1>2, ConcatFacts
<1>11. f # p
  BY <1>1, <1>3, <1>10
<1>12. QED
  BY <1>5, <1>9, <1>11 DEF IsStrictPrefix

(* Where every node above p gives the half p is in no less, p gets no less. *)
LEMMA PathGrows ==
  ASSUME NEW T, NEW R, IsTree(R, T), NEW U, NEW Q, IsTree(Q, U), NEW area \in Rectangles,
         NEW p \in DOMAIN R, p \in DOMAIN Q,
         \A q \in DOMAIN R : IsStrictPrefix(q, p) => q \in DOMAIN Q /\ Lets(R[q], Q[q], p[Len(q) + 1])
  PROVE  Within(Rects(R, area)[p], Rects(Q, area)[p])
<1> DEFINE rr == Rects(R, area)
           qq == Rects(Q, area)
           S == {n \in Nat : \A q \in DOMAIN R : q \in DOMAIN Q /\ IsPrefix(q, p) /\ Len(q) = n
                                => Within(rr[q], qq[q])}
<1>1. /\ DOMAIN R \subseteq Positions /\ DOMAIN Q \subseteq Positions
  BY TreeFacts
<1>2. /\ \A q \in DOMAIN R : rr[q] \in Rectangles
      /\ rr[<<>>] = area
      /\ \A q \in DOMAIN R \ {<<>>} : rr[q] = SplitRect(rr[Front(q)], R[Front(q)])[Last(q)]
  BY RectsFacts
<1>3. /\ \A q \in DOMAIN Q : qq[q] \in Rectangles
      /\ qq[<<>>] = area
      /\ \A q \in DOMAIN Q \ {<<>>} : qq[q] = SplitRect(qq[Front(q)], Q[Front(q)])[Last(q)]
  BY RectsFacts
<1> HIDE DEF rr, qq
<1>4. Within(area, area)
  BY DEF Within, Rectangles
<1>5. \A q \in Positions : Len(q) \in Nat /\ (Len(q) = 0 <=> q = <<>>)
  BY EmptySeq, LenProperties DEF Positions
<1>6. 0 \in S
  BY <1>1, <1>2, <1>3, <1>4, <1>5
<1>7. ASSUME NEW n \in Nat, n \in S PROVE n + 1 \in S
  <2>1. SUFFICES ASSUME NEW q \in DOMAIN R, q \in DOMAIN Q, IsPrefix(q, p), Len(q) = n + 1
                 PROVE  Within(rr[q], qq[q])
    BY <1>7
  <2>2. q # <<>>
    BY <1>1, <1>5, <2>1
  <2> DEFINE f == Front(q)
             i == Last(q)
  <2>3. /\ f \in DOMAIN R /\ i \in {1, 2} /\ Len(f) = n /\ f \in Positions /\ q = Append(f, i)
        /\ R[f] \in [direction : Directions, ratio : MinRatio .. MaxRatio]
    BY <2>1, <2>2, <1>5, AboveIsSplit
  <2>4. /\ f \in DOMAIN Q
        /\ Q[f] \in [direction : Directions, ratio : MinRatio .. MaxRatio]
    BY <2>1, <2>2, AboveIsSplit
  <2>5. IsStrictPrefix(f, p) /\ p[Len(f) + 1] = i
    BY <1>1, <2>1, <2>3, ParentIsAbove
  <2>6. Lets(R[f], Q[f], i) /\ IsPrefix(f, p)
    BY <2>3, <2>5 DEF IsStrictPrefix
  <2>7. Within(rr[f], qq[f])
    BY <1>7, <2>3, <2>4, <2>6
  <2>8. rr[f] \in Rectangles /\ qq[f] \in Rectangles
    BY <1>2, <1>3, <2>3, <2>4
  <2>9. rr[q] = SplitRect(rr[f], R[f])[i] /\ qq[q] = SplitRect(qq[f], Q[f])[i]
    BY <1>2, <1>3, <2>1, <2>2
  <2> DEFINE A == rr[f]
             B == qq[f]
             m == R[f]
             k == Q[f]
  <2> HIDE DEF f, i, A, B, m, k
  <2>10. Within(SplitRect(A, m)[i], SplitRect(B, k)[i])
    BY <2>3, <2>4, <2>6, <2>7, <2>8, HalfGrows DEF A, B, m, k
  <2>11. QED
    BY <2>9, <2>10 DEF A, B, m, k
<1>8. \A n \in Nat : n \in S
  <2> HIDE DEF S
  <2>1. QED
    BY <1>6, <1>7, NatSetInduction
<1>9. IsPrefix(p, p)
  <2>1. p \in Positions /\ <<>> \in Positions
    BY <1>1, EmptyPosition
  <2>2. p \o <<>> = p
    BY <2>1, ConcatFacts
  <2>3. IsPrefix(p, p \o <<>>)
    BY <2>1, PrefixFacts
  <2>4. QED
    BY <2>2, <2>3
<1>10. Len(p) \in S
  BY <1>1, <1>5, <1>8
<1>11. QED
  BY <1>9, <1>10 DEF rr, qq

-----------------------------------------------------------------------------
(* Resizing, and room for a split *)

(* The path to a pane, where panes are distinct, is that of its leaf. *)
LEMMA PathIs ==
  ASSUME NEW root, NEW T, IsTree(root, T), Distinct(root),
         NEW p \in Leaves(root), NEW t, root[p] = Leaf(t)
  PROVE  t \in Panes(root) /\ PathOf(root, t) = p
<1>1. t \in Panes(root)
  BY PaneFacts
<1>2. PathOf(root, t) \in Leaves(root) /\ root[PathOf(root, t)] = Leaf(t)
  BY <1>1, PaneFacts
<1>3. QED
  BY <1>1, <1>2 DEF Distinct

(* A path goes on to a first or a second child. *)
LEMMA NextStep ==
  ASSUME NEW p \in Positions, NEW q \in Positions, IsStrictPrefix(q, p)
  PROVE  p[Len(q) + 1] \in {1, 2}
<1> DEFINE r == SubSeq(p, Len(q) + 1, Len(p))
<1>1. r \in Positions /\ p = q \o r
  BY PrefixFacts DEF IsStrictPrefix
<1> HIDE DEF r
<1>2. Len(q) \in Nat /\ Len(r) \in Nat /\ Len(p) = Len(q) + Len(r)
  BY <1>1, LenProperties, ConcatFacts DEF Positions
<1>3. Len(r) # 0
  <2>1. SUFFICES ASSUME Len(r) = 0 PROVE FALSE
    OBVIOUS
  <2>2. r = <<>>
    BY <1>1, <2>1, EmptySeq DEF Positions
  <2>3. p = q
    BY <1>1, <2>2, ConcatFacts
  <2>4. QED
    BY <2>3 DEF IsStrictPrefix
<1>4. Len(q) + 1 \in 1 .. Len(p)
  BY <1>2, <1>3
<1>5. QED
  BY <1>4, ElementOfSeq DEF Positions

(* A resize moves ratios in the direction of the half the pane is in. *)
LEMMA ResizedNode ==
  ASSUME NEW n \in [direction : Directions, ratio : MinRatio .. MaxRatio],
         NEW key \in Keys, NEW delta \in Nat, NEW i \in {1, 2}
  PROVE  LET m == Split(n.direction, Clamp(n.ratio + Adjust(key, i = 1, delta)))
         IN  IF key \in {"Right", "Down"} THEN Lets(n, m, i) ELSE Lets(m, n, i)
<1> DEFINE a == Adjust(key, i = 1, delta)
           r == n.ratio
           c == Clamp(r + a)
           m == Split(n.direction, c)
<1>1. r \in Int /\ r >= MinRatio /\ r <= MaxRatio
  BY DEF MinRatio, MaxRatio
<1>2. /\ (key \in {"Right", "Down"} <=> i = 1) => a = delta
      /\ ~ (key \in {"Right", "Down"} <=> i = 1) => a = -delta
  BY DEF Adjust
<1> HIDE DEF a, r
<1>3. /\ a = delta => r <= c
      /\ a = -delta => c <= r
  BY <1>1 DEF Clamp, MinRatio, MaxRatio
<1> HIDE DEF c
<1>4. m.direction = n.direction /\ m.ratio = c
  BY DEF Split
<1> HIDE DEF m
<1>5. IF key \in {"Right", "Down"} THEN Lets(n, m, i) ELSE Lets(m, n, i)
  BY <1>2, <1>3, <1>4 DEF Lets, r
<1>6. QED
  BY <1>5 DEF m, c, r, a

(* What a resize does to each node of the tree. *)
LEMMA ResizedTree ==
  ASSUME NEW T, NEW layout, Sound(layout, T), NEW key \in Keys, NEW delta \in Nat
  PROVE  LET root == layout.root
             p == PathOf(root, layout.focused)
             R == ResizeFocused(layout, key, delta).root
         IN  /\ DOMAIN R = DOMAIN root
             /\ R[p] = root[p]
             /\ \A q \in DOMAIN root : IsStrictPrefix(q, p) =>
                  IF key \in {"Right", "Down"} THEN Lets(root[q], R[q], p[Len(q) + 1])
                                               ELSE Lets(R[q], root[q], p[Len(q) + 1])
<1> DEFINE root == layout.root
           p == PathOf(root, layout.focused)
           moves(q) == IsStrictPrefix(q, p) /\ root[q].direction = Axis(key)
           moved(q) == Clamp(root[q].ratio + Adjust(key, p[Len(q) + 1] = 1, delta))
           F == [q \in DOMAIN root |-> IF moves(q) THEN Split(Axis(key), moved(q)) ELSE root[q]]
           R == ResizeFocused(layout, key, delta).root
<1>1. /\ IsTree(root, T) /\ layout.focused \in Panes(root)
      /\ layout = [root |-> root, focused |-> layout.focused]
  BY DEF Sound
<1>2. p \in Leaves(root) /\ p \in DOMAIN root /\ p \in Positions
  BY <1>1, PaneFacts, TreeFacts
<1>3. R = F
  <2>1. ResizeFocused(layout, key, delta) = [layout EXCEPT !.root = F]
    BY <1>1 DEF ResizeFocused
  <2> HIDE DEF F, root
  <2>2. [layout EXCEPT !.root = F].root = F
    BY <1>1
  <2>3. QED
    BY <2>1, <2>2
<1> HIDE DEF R, p
<1>4. R[p] = root[p]
  <2>1. ~ moves(p)
    BY DEF IsStrictPrefix
  <2>2. QED
    BY <1>2, <1>3, <2>1
<1>5. ASSUME NEW q \in DOMAIN root, IsStrictPrefix(q, p)
      PROVE  IF key \in {"Right", "Down"} THEN Lets(root[q], R[q], p[Len(q) + 1])
                                          ELSE Lets(R[q], root[q], p[Len(q) + 1])
  <2> DEFINE n == root[q]
             i == p[Len(q) + 1]
             m == Split(n.direction, Clamp(n.ratio + Adjust(key, i = 1, delta)))
  <2>1. n \in [direction : Directions, ratio : MinRatio .. MaxRatio] /\ q \in Positions
    BY <1>1, <1>2, <1>5, AboveFacts, TreeFacts
  <2>2. i \in {1, 2}
    BY <1>2, <1>5, <2>1, NextStep
  <2>3. R[q] = n \/ R[q] = m
    BY <1>3
  <2> HIDE DEF n, i
  <2>4. Lets(n, n, i)
    BY <2>1 DEF Lets, MinRatio, MaxRatio
  <2>5. IF key \in {"Right", "Down"} THEN Lets(n, m, i) ELSE Lets(m, n, i)
    BY <2>1, <2>2, ResizedNode
  <2> HIDE DEF m
  <2>6. QED
    BY <2>3, <2>4, <2>5 DEF n, i
<1>6. DOMAIN R = DOMAIN root
  BY <1>3
<1>7. QED
  BY <1>4, <1>5, <1>6 DEF R, p

(* Right and Down take nothing from the focused pane; Left and Up add nothing. *)
LEMMA ResizeGrows ==
  ASSUME NEW T, NEW layout, Sound(layout, T), NEW key \in Keys, NEW delta \in Nat,
         NEW area \in Rectangles
  PROVE  LET resized == ResizeFocused(layout, key, delta)
             before == Rects(layout.root, area)[PathOf(layout.root, layout.focused)]
             after == Rects(resized.root, area)[PathOf(resized.root, resized.focused)]
         IN  IF key \in {"Right", "Down"} THEN Within(before, after) ELSE Within(after, before)
<1> DEFINE resized == ResizeFocused(layout, key, delta)
           root == layout.root
           R == resized.root
           t == layout.focused
           p == PathOf(root, t)
<1>1. IsTree(root, T) /\ Distinct(root) /\ t \in Panes(root)
  BY DEF Sound
<1>2. p \in Leaves(root) /\ root[p] = Leaf(t) /\ p \in DOMAIN root
  BY <1>1, PaneFacts, TreeFacts
<1>3. /\ DOMAIN R = DOMAIN root /\ R[p] = root[p]
      /\ \A q \in DOMAIN root : IsStrictPrefix(q, p) =>
           IF key \in {"Right", "Down"} THEN Lets(root[q], R[q], p[Len(q) + 1])
                                        ELSE Lets(R[q], root[q], p[Len(q) + 1])
  BY ResizedTree
<1>4. Sound(resized, T) /\ resized.focused = t
  <2>1. delta \in Int
    OBVIOUS
  <2>2. QED
    BY <2>1, ResizeFacts
<1> HIDE DEF resized
<1>5. IsTree(R, T) /\ Distinct(R)
  BY <1>4 DEF Sound
<1> HIDE DEF root, R, p
<1>6. p \in Leaves(R) /\ R[p] = Leaf(t)
  BY <1>2, <1>3 DEF Leaves
<1>7. PathOf(R, t) = p
  BY <1>5, <1>6, PathIs
<1> DEFINE before == Rects(root, area)[p]
           after == Rects(R, area)[p]
<1>8. Rects(R, area)[PathOf(R, resized.focused)] = after
  BY <1>4, <1>7
<1>9. IF key \in {"Right", "Down"} THEN Within(before, after) ELSE Within(after, before)
  <2>1. CASE key \in {"Right", "Down"}
    <3>1. Within(before, after)
      BY <1>1, <1>2, <1>3, <1>5, <2>1, PathGrows
    <3>2. QED
      BY <2>1, <3>1
  <2>2. CASE key \notin {"Right", "Down"}
    <3>1. Within(after, before)
      BY <1>1, <1>2, <1>3, <1>5, <2>2, PathGrows
    <3>2. QED
      BY <2>2, <3>1
  <2>3. QED
    BY <2>1, <2>2
<1> HIDE DEF after
<1>10. QED
  BY <1>8, <1>9 DEF before, root, R, p, resized

(* A node gives its halves what it gives them. *)
LEMMA LetsItself ==
  ASSUME NEW n \in [direction : Directions, ratio : MinRatio .. MaxRatio], NEW i
  PROVE  Lets(n, n, i)
BY DEF Lets, MinRatio, MaxRatio

(* The halves of what has room for two panes and a line. *)
LEMMA HalvesHaveRoom ==
  ASSUME NEW area \in Rectangles, NEW dir \in Directions, NEW i \in {1, 2},
         IF dir = "Vertical" THEN area.width >= 4 ELSE area.height >= 4,
         HasCells(area)
  PROVE  HasCells(SplitRect(area, Split(dir, Half))[i])
<1> DEFINE node == Split(dir, Half)
           first == SplitRect(area, node)[1]
           second == SplitRect(area, node)[2]
<1>1. node.direction = dir /\ node.ratio = 10
  BY DEF Split, Half
<1>2. /\ area.width \in Nat /\ area.height \in Nat
      /\ area.width > 0 /\ area.height > 0
  BY DEF Rectangles, HasCells
<1> HIDE DEF node
<1>3. \A e \in Nat : e >= 4 => /\ FirstExtent(e, 10) > 0
                               /\ AtLeastZero(e - Sep) - FirstExtent(e, 10) > 0
  BY DEF FirstExtent, AtLeastZero, Sep, Whole
<1>4. CASE dir = "Vertical"
  <2>1. /\ first.width = FirstExtent(area.width, 10)
        /\ second.width = AtLeastZero(area.width - Sep) - FirstExtent(area.width, 10)
        /\ first.height = area.height /\ second.height = area.height
    BY <1>1, <1>4, HalfFields
  <2> HIDE DEF first, second
  <2>2. HasCells(first) /\ HasCells(second)
    BY <1>2, <1>3, <1>4, <2>1 DEF HasCells
  <2>3. CASE i = 1
    BY <2>2, <2>3 DEF first, node
  <2>4. CASE i = 2
    BY <2>2, <2>4 DEF second, node
  <2>5. QED
    BY <2>3, <2>4
<1>5. CASE dir # "Vertical"
  <2>1. /\ first.height = FirstExtent(area.height, 10)
        /\ second.height = AtLeastZero(area.height - Sep) - FirstExtent(area.height, 10)
        /\ first.width = area.width /\ second.width = area.width
    BY <1>1, <1>5, HalfFields
  <2> HIDE DEF first, second
  <2>2. HasCells(first) /\ HasCells(second)
    BY <1>2, <1>3, <1>5, <2>1 DEF HasCells
  <2>3. CASE i = 1
    BY <2>2, <2>3 DEF first, node
  <2>4. CASE i = 2
    BY <2>2, <2>4 DEF second, node
  <2>5. QED
    BY <2>3, <2>4
<1>6. QED
  BY <1>4, <1>5

(* A pane of four columns or rows that is not empty splits into two that are not. *)
LEMMA SplitHasRoom ==
  ASSUME NEW T, NEW layout, Sound(layout, T), NEW dir \in Directions,
         NEW new \in T, new \notin Panes(layout.root), NEW area \in Rectangles,
         LET r == Rects(layout.root, area)[PathOf(layout.root, layout.focused)]
         IN  HasCells(r) /\ IF dir = "Vertical" THEN r.width >= 4 ELSE r.height >= 4
  PROVE  LET split == SplitFocused(layout, dir, new) IN
         \A t \in {layout.focused, split.focused} :
           HasCells(Rects(split.root, area)[PathOf(split.root, t)])
<1> DEFINE root == layout.root
           old == layout.focused
           p == PathOf(root, old)
           split == SplitFocused(layout, dir, new)
           S == split.root
<1>1. IsTree(root, T) /\ Distinct(root) /\ old \in Panes(root)
  BY DEF Sound
<1>2. p \in Leaves(root) /\ root[p] = Leaf(old) /\ p \in DOMAIN root /\ p \in Positions
  BY <1>1, PaneFacts, TreeFacts
<1>3. S = SplitNode(root, p, dir, new) /\ split.focused = new
  BY <1>1 DEF SplitFocused
<1>4. Sound(split, T)
  BY SplitFacts
<1> HIDE DEF split
<1>5. IsTree(S, T) /\ Distinct(S)
  BY <1>4 DEF Sound
<1>6. Rects(root, area)[p] \in Rectangles
  BY <1>1, <1>2, RectsFacts
<1>7. /\ IF dir = "Vertical" THEN Rects(root, area)[p].width >= 4
                             ELSE Rects(root, area)[p].height >= 4
      /\ HasCells(Rects(root, area)[p])
  OBVIOUS
<1> HIDE DEF S, p, root
<1>8. /\ \A q : q \in DOMAIN S <=> q \in DOMAIN root \/ q = Child(p, 1) \/ q = Child(p, 2)
      /\ Leaves(S) = (Leaves(root) \ {p}) \cup {Child(p, 1), Child(p, 2)}
      /\ S[Child(p, 1)] = root[p] /\ S[Child(p, 2)] = Leaf(new)
      /\ S[p] = Split(dir, Half)
      /\ \A q \in DOMAIN root \ {p} : S[q] = root[q]
  BY <1>1, <1>2, <1>3, SplitNodeFacts
<1>9. PathOf(S, old) = Child(p, 1) /\ PathOf(S, new) = Child(p, 2)
  <2>1. /\ Child(p, 1) \in Leaves(S) /\ S[Child(p, 1)] = Leaf(old)
        /\ Child(p, 2) \in Leaves(S) /\ S[Child(p, 2)] = Leaf(new)
    BY <1>2, <1>8
  <2>2. PathOf(S, old) = Child(p, 1)
    BY <1>5, <2>1, PathIs
  <2>3. PathOf(S, new) = Child(p, 2)
    BY <1>5, <2>1, PathIs
  <2>4. QED
    BY <2>2, <2>3
<1> DEFINE before == Rects(root, area)[p]
           after == Rects(S, area)[p]
<1>10. after \in Rectangles
  <2>1. p \in DOMAIN S
    BY <1>2, <1>8
  <2>2. QED
    BY <1>5, <2>1, RectsFacts
<1>11. Within(before, after)
  <2>1. ASSUME NEW q \in DOMAIN root, IsStrictPrefix(q, p)
        PROVE  q \in DOMAIN S /\ Lets(root[q], S[q], p[Len(q) + 1])
    <3>1. root[q] \in [direction : Directions, ratio : MinRatio .. MaxRatio]
      BY <1>1, <1>2, <2>1, AboveFacts, TreeFacts
    <3>2. q \in DOMAIN S /\ S[q] = root[q]
      BY <1>8, <2>1 DEF IsStrictPrefix
    <3>3. QED
      BY <3>1, <3>2, LetsItself
  <2>2. p \in DOMAIN S
    BY <1>2, <1>8
  <2>3. QED
    BY <1>1, <1>2, <1>5, <2>1, <2>2, PathGrows
<1>12. /\ IF dir = "Vertical" THEN after.width >= 4 ELSE after.height >= 4
       /\ HasCells(after)
  <2>1. /\ before.width \in Nat /\ before.height \in Nat
        /\ after.width \in Nat /\ after.height \in Nat
    BY <1>6, <1>10 DEF Rectangles
  <2> HIDE DEF after
  <2>2. /\ IF dir = "Vertical" THEN before.width >= 4 ELSE before.height >= 4
        /\ before.width > 0 /\ before.height > 0
    BY <1>7 DEF HasCells
  <2> HIDE DEF before
  <2>3. QED
    BY <1>11, <2>1, <2>2 DEF Within, HasCells
<1>13. ASSUME NEW i \in {1, 2}
       PROVE  HasCells(Rects(S, area)[Child(p, i)])
  <2>1. /\ Child(p, i) \in DOMAIN S /\ Child(p, i) # <<>>
        /\ Front(Child(p, i)) = p /\ Last(Child(p, i)) = i
    <3>1. Child(p, i) \in DOMAIN S
      BY <1>8
    <3>2. QED
      BY <1>2, <3>1, AppendFacts DEF Child
  <2>2. Rects(S, area)[Child(p, i)] = SplitRect(after, Split(dir, Half))[i]
    <3> DEFINE q == Child(p, i)
               rects == Rects(S, area)
    <3>1. rects[q] = SplitRect(rects[Front(q)], S[Front(q)])[Last(q)]
      BY <1>5, <2>1, RectsFacts
    <3> HIDE DEF q, rects
    <3>2. rects[q] = SplitRect(rects[p], Split(dir, Half))[i]
      BY <1>8, <2>1, <3>1 DEF q
    <3>3. QED
      BY <3>2 DEF q, rects
  <2> HIDE DEF after
  <2>3. HasCells(SplitRect(after, Split(dir, Half))[i])
    BY <1>10, <1>12, HalvesHaveRoom
  <2>4. QED
    BY <2>2, <2>3
<1>14. QED
  BY <1>3, <1>9, <1>13 DEF S, split, p, root

=============================================================================
