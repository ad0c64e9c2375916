\* Two names, the second longer and the first also as an absolute path; files of
\* one direct block and two indirect ones; inode 5 crosses a block of the inode
\* table; four calls and one fault.
CONSTANTS
  Names = {1, 2}
  SlashNames = {1}
  TotalBlocks = 7
  TotalInodes = 6
  InodeLen = 3
  InodeBlockLen = 17
  BC = 16
  HdrLen = 2
  BU = 1
  Direct = 1
  EPB = 2
  MaxLB = 2
  MaxOpen = 1
  Vals = {1}
  Sizes = {2}
  Offsets = {2}
  MaxCalls = 4
  MaxFaults = 1
  ImageNames = {1}
  ImageUnits = 1
SPECIFICATION Spec
CHECK_DEADLOCK FALSE
INVARIANTS BlocksOwnedOnce EntriesSound
 
