\* Two sessions on a terminal, with a thread too few.
CONSTANTS
  Terms = {t1}
  Sessions = {s1, s2}
  Plain = {s2}
  MaxTasks = 3
  PoolSize = 2
  ChanCap = 2
  BufCap = 1
  MaxOut = 3
CHECK_DEADLOCK FALSE
SPECIFICATION Spec
INVARIANTS EachChunkOnce DrawnInOrder LossIsBounded
PROPERTY ThreadsEnd
