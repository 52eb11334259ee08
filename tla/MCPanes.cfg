\* One client, three panes, every key that changes the layout.
CONSTANTS
  Clients = {c1}
  TermIds = {t1, t2, t3}
  Views = {v1}
  Areas <- SmallAreas
  Delta = 8
  None = None
  Ops = {"Resize"}
SPECIFICATION Spec
SYMMETRY ClientSymmetry
INVARIANTS TypeOK PanesTile PanesAreReachable
PROPERTIES ResizeFollowsKey SplitsFit
