----------------------------- MODULE PaneLayout -----------------------------
(***************************************************************************)
(* The panes of an attached client (tui/layout.rs): a binary tree whose    *)
(* leaves are terminals and whose inner nodes divide an area in two.       *)
(*                                                                         *)
(* A tree is a function from positions to nodes.  A position is the path   *)
(* from the root, a sequence of 1 (the first child) and 2 (the second), so *)
(* that what the code does by descending is said of paths: the ancestors   *)
(* of a position are its prefixes, a subtree is what has a common prefix,  *)
(* and the order in which leaves are visited is the order of the paths.    *)
(*                                                                         *)
(* A ratio, an f32 between 0.1 and 0.9 in the code, is a number of         *)
(* twentieths: it starts at one half and moves by 0.05.  Where a product   *)
(* of width and ratio is a whole number, the code's rounding may lose one  *)
(* cell to the second half; the operators here do not.                     *)
(***************************************************************************)
EXTENDS Integers, Sequences, SequencesExt

Leaf(t)      == [terminal_id |-> t]
Split(d, r)  == [direction |-> d, ratio |-> r]
IsLeaf(node) == "terminal_id" \in DOMAIN node

Directions == {"Horizontal", "Vertical"}
Keys       == {"Left", "Right", "Up", "Down"}     \* input.rs, Direction

Whole    == 20
Half     == 10
MinRatio == 2
MaxRatio == 18
Sep      == 1      \* split_rect, the width of a separator line

Leaves(root) == {p \in DOMAIN root : IsLeaf(root[p])}
Panes(root)  == {root[p].terminal_id : p \in Leaves(root)}

\* The leaf of a terminal; PanesAreDistinct says there is one at most.
PathOf(root, t) == CHOOSE p \in Leaves(root) : root[p].terminal_id = t

\* root is a tree with panes for terminals among T.
IsTree(root, T) ==
  /\ DOMAIN root \subseteq Seq({1, 2}) /\ IsFiniteSet(DOMAIN root)
  /\ <<>> \in DOMAIN root
  /\ \A p \in DOMAIN root \ {<<>>} : Front(p) \in DOMAIN root
  /\ \A p \in DOMAIN root :
       \/ /\ root[p] \in {Leaf(t) : t \in T}
          /\ \A i \in {1, 2} : Append(p, i) \notin DOMAIN root
       \/ /\ root[p] \in [direction : Directions, ratio : MinRatio .. MaxRatio]
          /\ \A i \in {1, 2} : Append(p, i) \in DOMAIN root

-----------------------------------------------------------------------------
(* PaneLayout: a tree and the focused terminal *)

New(t) == [root |-> [p \in {<<>>} |-> Leaf(t)], focused |-> t]

\* split_node: the leaf becomes a split of itself and the new terminal.
SplitNode(root, p, dir, new) ==
  [q \in DOMAIN root \cup {Append(p, 1), Append(p, 2)} |->
     CASE q = p            -> Split(dir, Half)
       [] q = Append(p, 1) -> root[p]
       [] q = Append(p, 2) -> Leaf(new)
       [] OTHER            -> root[q]]

\* split: nothing happens when the focused terminal has no pane.
SplitFocused(layout, dir, new) ==
  IF layout.focused \in Panes(layout.root)
  THEN [root    |-> SplitNode(layout.root, PathOf(layout.root, layout.focused), dir, new),
        focused |-> new]
  ELSE layout

\* What lies below p, seen from p.
Below(root, p) == {r \in {SubSeq(q, Len(p) + 1, Len(q)) : q \in DOMAIN root} :
                     p \o r \in DOMAIN root}

\* The subtree at p.
Subtree(root, p) == [r \in Below(root, p) |-> root[p \o r]]

\* remove_node: the sibling of leaf p takes the place of their parent.
RemoveNode(root, p) ==
  LET parent  == Front(p)
      sibling == Subtree(root, Append(parent, 3 - Last(p)))
      others  == {q \in DOMAIN root : ~ IsPrefix(parent, q)}
  IN  [q \in others \cup {parent \o r : r \in DOMAIN sibling} |->
         IF q \in others THEN root[q] ELSE sibling[SubSeq(q, Len(parent) + 1, Len(q))]]

\* first_leaf_id: follow the first children.
FirstLeaf(root) ==
  root[CHOOSE p \in Leaves(root) : \A i \in DOMAIN p : p[i] = 1].terminal_id

\* close_focused: the last pane, and a focus without a pane, close nothing.
CanClose(layout) ==
  layout.focused \in Panes(layout.root) /\ ~ IsLeaf(layout.root[<<>>])

CloseFocused(layout) ==
  LET p == PathOf(layout.root, layout.focused) IN
  [root    |-> RemoveNode(layout.root, p),
   focused |-> FirstLeaf(Subtree(layout.root, Append(Front(p), 3 - Last(p))))]

\* resize_node: Right and Down make the focused pane larger at the expense of
\* the other half, at every split of that axis above it; Left and Up smaller.
Axis(key) == IF key \in {"Left", "Right"} THEN "Vertical" ELSE "Horizontal"

\* Mutant of Clamp: nothing keeps a ratio from below.
ClampAbove(r) == IF r > MaxRatio THEN MaxRatio ELSE r

Clamp(r) == IF r < MinRatio THEN MinRatio ELSE IF r > MaxRatio THEN MaxRatio ELSE r

\* Mutant of Adjust: the half the focused pane is in is not looked at.
AdjustFirst(key, inFirst, delta) == IF key \in {"Right", "Down"} THEN delta ELSE -delta

Adjust(key, inFirst, delta) ==
  IF inFirst = (key \in {"Right", "Down"}) THEN delta ELSE -delta

ResizeFocused(layout, key, delta) ==
  IF layout.focused \notin Panes(layout.root) THEN layout ELSE
  LET root     == layout.root
      p        == PathOf(root, layout.focused)
      moves(q) == IsStrictPrefix(q, p) /\ root[q].direction = Axis(key)
      ratio(q) == Clamp(root[q].ratio + Adjust(key, p[Len(q) + 1] = 1, delta))
  IN  [layout EXCEPT !.root =
         [q \in DOMAIN root |->
            IF moves(q) THEN Split(Axis(key), ratio(q)) ELSE root[q]]]

-----------------------------------------------------------------------------
(* Rectangles *)

Rectangles == [x : Nat, y : Nat, width : Nat, height : Nat]     \* Rect

HasCells(r) == r.width > 0 /\ r.height > 0       \* not empty

AtLeastZero(n) == IF n < 0 THEN 0 ELSE n         \* saturating_sub

\* The extent of the first half.
FirstExtent(extent, ratio) == (AtLeastZero(extent - Sep) * ratio) \div Whole

\* Mutant of SplitRect: the second half is given the separator's cells as well.
SplitRectNoSep(area, node) ==
  IF node.direction = "Vertical"
  THEN LET w1 == FirstExtent(area.width, node.ratio) IN
       << [area EXCEPT !.width = w1], [area EXCEPT !.x = @ + w1 + Sep, !.width = @ - w1] >>
  ELSE LET h1 == FirstExtent(area.height, node.ratio) IN
       << [area EXCEPT !.height = h1], [area EXCEPT !.y = @ + h1 + Sep, !.height = @ - h1] >>

SplitRect(area, node) ==
  IF node.direction = "Vertical"
  THEN LET w1 == FirstExtent(area.width, node.ratio) IN
       << [area EXCEPT !.width = w1],
          [area EXCEPT !.x = @ + w1 + Sep, !.width = AtLeastZero(@ - Sep) - w1] >>
  ELSE LET h1 == FirstExtent(area.height, node.ratio) IN
       << [area EXCEPT !.height = h1],
          [area EXCEPT !.y = @ + h1 + Sep, !.height = AtLeastZero(@ - Sep) - h1] >>

\* compute_rects: the area of every node.
Rects(root, area) ==
  LET rect[p \in DOMAIN root] ==
        IF p = <<>> THEN area ELSE SplitRect(rect[Front(p)], root[Front(p)])[Last(p)]
  IN  rect

\* compute_separators: the line between the halves of a split.
Separator(area, node) ==
  LET first == SplitRect(area, node)[1] IN
  IF node.direction = "Vertical"
  THEN [x |-> first.x + first.width, y |-> area.y, width |-> Sep, height |-> area.height]
  ELSE [x |-> area.x, y |-> first.y + first.height, width |-> area.width, height |-> Sep]

-----------------------------------------------------------------------------
(* navigate *)

Overlap(s, m, t, n) == s < t + n /\ t < s + m     \* ranges_overlap

\* Mutant of Distance: up is taken for down.
DistanceUpIsDown(key, f, r) ==
  CASE key = "Left"         -> f.x - (r.x + r.width)
    [] key = "Right"        -> r.x - (f.x + f.width)
    [] key \in {"Up", "Down"} -> r.y - (f.y + f.height)

\* How far r is from f that way.
Distance(key, f, r) ==
  CASE key = "Left"  -> f.x - (r.x + r.width)
    [] key = "Right" -> r.x - (f.x + f.width)
    [] key = "Up"    -> f.y - (r.y + r.height)
    [] key = "Down"  -> r.y - (f.y + f.height)

Beside(key, f, r) ==
  /\ Distance(key, f, r) >= 0
  /\ IF key \in {"Left", "Right"} THEN Overlap(r.y, r.height, f.y, f.height)
                                  ELSE Overlap(r.x, r.width, f.x, f.width)

\* The order in which leaves are visited.
Before(p, q) == \E i \in DOMAIN p \cap DOMAIN q :
                   p[i] < q[i] /\ SubSeq(p, 1, i - 1) = SubSeq(q, 1, i - 1)

\* The nearest pane that way, the first visited of several; else the focus stays.
Navigate(layout, key, area) ==
  IF layout.focused \notin Panes(layout.root) THEN layout ELSE
  LET root  == layout.root
      rects == Rects(root, area)
      f     == rects[PathOf(root, layout.focused)]
      dist(p) == Distance(key, f, rects[p])
      candidates == {p \in Leaves(root) : /\ root[p].terminal_id # layout.focused
                                          /\ Beside(key, f, rects[p])}
      nearest == {p \in candidates : \A q \in candidates : dist(p) <= dist(q)}
  IN  IF candidates = {} THEN layout
      ELSE [layout EXCEPT !.focused =
              root[CHOOSE p \in nearest : \A q \in nearest \ {p} : Before(p, q)].terminal_id]

=============================================================================
