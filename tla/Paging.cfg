SPECIFICATION Spec
CONSTANTS
  TotalBlocks = 20
  KernelBlocks = 1
  MaxPid = 6
  Entries = 3
  CodePages = 1
  StackPages = 2
  PageUnits = 2
  Increments = {1, 4}
  SbrkMaxPages = 1
  KPages = 1
  KSlots = 4
INVARIANTS ImageMapped ImagePrivate 
CHECK_DEADLOCK FALSE
