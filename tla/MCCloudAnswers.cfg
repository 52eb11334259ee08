\* Commands of two connections to a cloud that is slow, silent or cut off.
CONSTANTS
  Keys = {k1}
  Ports = {p1}
  Clients = {c1, c2}
  Ops = {"sync", "unsync", "expose", "ConnFails"}
  MaxFlight = 1
  MaxReaders = 1
  None = None
SPECIFICATION Spec
PROPERTIES CommandsAnswered EndedIsUnsynced
