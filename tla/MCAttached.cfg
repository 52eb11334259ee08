\* Two clients of one view, with terminals that others kill and list.
CONSTANTS
  Clients = {c1, c2}
  TermIds = {t1, t2}
  Views = {v1}
  Areas <- OneArea
  Delta = 8
  None = None
  Ops = {"Switch", "Kill", "Add"}
CHECK_DEADLOCK FALSE
SPECIFICATION Spec
SYMMETRY ClientSymmetry
INVARIANTS PanesAreDistinct SidesMatch
