\* Four processes one after the other, or at once.
CONSTANTS
  Procs = {p1, p2, p3, p4}
  None = None
CHECK_DEADLOCK FALSE
SPECIFICATION Spec
INVARIANTS OneServer ServingIsReachable
PROPERTY StartSucceeds
