SPECIFICATION FairSpec
CONSTANTS
  TotalBlocks = 8
  WordSize = 4
INVARIANTS FindsFirstFit
PROPERTIES Terminates
CHECK_DEADLOCK FALSE
