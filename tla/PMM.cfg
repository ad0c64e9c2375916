SPECIFICATION Spec
CONSTANTS
  TotalBlocks = 5
  KernelBlocks = 2
  Callers = {c1, c2}
  c1 = c1
  c2 = c2
INVARIANT Exclusive
