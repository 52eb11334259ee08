\* A terminal is synced and the server is stopped.
CONSTANTS
  TermIds = {t1}
  TermNames = {}
  ViewIds = {}
  ViewNames = {}
  Layouts = {}
  None = None
  Clients = {c1}
  Ops = {"TerminalCreate", "TerminalSync", "Stop", "Restart"}
  Debounce = 5
  Grace = 1
SPECIFICATION Spec
INVARIANT FinalStateSaved
