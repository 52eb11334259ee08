\* Commands of two connections and requests of the web, against a cloud that
\* refuses, is slow, is cut off or never answers, and sends other texts.
CONSTANTS
  Keys = {k1}
  Ports = {p1}
  Clients = {c1, c2}
  Ops = {"sync", "unsync", "expose", "unexpose", "web_create", "web_kill",
         "NoCredential", "Heartbeat", "web_traffic", "ConnFails"}
  MaxFlight = 1
  MaxReaders = 2
  None = None
SPECIFICATION Spec
SYMMETRY CloudSymmetry
INVARIANTS TypeOK ServedIsRead ExposeIsPending SidesAgree TimerIsIdle
PROPERTIES ImplementsSyncs WithoutCrossingConfirmed
