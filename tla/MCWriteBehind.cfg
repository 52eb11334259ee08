\* Mutations of the tables against each other and the persister.
CONSTANTS
  TermIds = {t1}
  TermNames = {}
  ViewIds = {v1}
  ViewNames = {w1}
  Layouts = {l1}
  None = None
  Clients = {c1, c2}
  Ops = {"TerminalCreate", "TerminalKill", "MuxCreate", "MuxKill", "WebKill", "ViewCreate",
         "ViewAddTerminal", "ViewDelete", "ViewRemoveTerminal", "ViewUpdateLayout", "SpawnFails"}
  Debounce = 2
  Grace = 1
SPECIFICATION Spec
INVARIANTS NoLostNotify NoHalfKillInSnapshot DanglingExplained
PROPERTIES AnnouncedIsSnapshot QuietIsSaved RequestsEnd
