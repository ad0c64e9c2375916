SPECIFICATION Spec
CONSTANTS
  TotalBlocks = 4
  KernelBlocks = 1
  PageSize = 8
  SlabHeader = 2
  LargeHeader = 1
  SlabSizes = {2, 4}
  Sizes = {0, 2, 3, 8}
INVARIANTS FreeListExact NoOverlap PagesOwned
