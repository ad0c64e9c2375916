SPECIFICATION FairSpec
CONSTANTS
  MaxPid = 3
  Signals = {9, 15}
  Handlers = {"SIG_DFL", "SIG_IGN"}
INVARIANTS InitSurvives
PROPERTIES   NoStarvation
