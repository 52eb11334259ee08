\* A client that switches to another view and changes the layout.
CONSTANTS
  Clients = {c1}
  TermIds = {t1, t2}
  Views = {v1, v2}
  Areas <- OneArea
  Delta = 8
  None = None
  Ops = {"Switch", "Resize"}
SPECIFICATION Spec
SYMMETRY ClientSymmetry
INVARIANT PanesAreAttached
