\* Syncs from the command line and the web, shells that exit, stops and
\* crashes: everything that moves the synced set and state.json.
CONSTANTS
  TermIds = {t1}
  TermNames = {}
  ViewIds = {}
  ViewNames = {}
  Layouts = {}
  None = None
  Clients = {c1, c2}
  Ops = {"TerminalCreate", "TerminalKill", "TerminalSync", "TerminalUnsync", "Exited",
         "WebCreate", "WebKill", "Stop", "Crash", "Restart", "WriteFails"}
  Debounce = 1
  Grace = 1
SPECIFICATION Spec
SYMMETRY ServerSymmetry
INVARIANTS TypeOK SyncedExplained
PROPERTY SyncsAsPromised
