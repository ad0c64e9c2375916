SPECIFICATION Spec
CONSTANTS
  MaxPid = 5
  Signals = {}
  Handlers = {"SIG_DFL"}
INVARIANTS  ZombieStaysForParent  StacksMatchTasks
