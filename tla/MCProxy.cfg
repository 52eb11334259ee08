\* A request and a WebSocket, whose local server may stop reading and whose data
\* may come before it is open.
CONSTANTS
  Requests = {r1}
  Sockets = {w1}
  Stalling = {w1}
  EventCap = 2
  WriterCap = 1
  Ops = {"Disconnect", "EarlyData"}
CHECK_DEADLOCK FALSE
SPECIFICATION Spec
INVARIANTS TypeOK ToldInOrder EntriesMatchTasks
PROPERTIES EndedIsForgotten OpenSocketCloses
