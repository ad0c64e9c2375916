------------------------------ MODULE PMMBitmap ------------------------------
(***************************************************************************)
(* Frames, blocks of frames and free runs in a bitmap, as the physical      *)
(* memory manager (src/mm/pmm.c) uses them.  A bitmap is the set of frames  *)
(* whose bit is 1.                                                          *)
(***************************************************************************)
EXTENDS Integers

CONSTANT TotalBlocks    \* TOTAL_BLOCKS = max_blocks, 32768 in the code

ASSUME TotalBlocksAssumption == TotalBlocks \in Nat \ {0}

Frames == 0..(TotalBlocks - 1)
Counts == 1..TotalBlocks

(* The n frames that start at f.                                            *)
Block(f, n) == f..(f + n - 1)

(* Where a block of n free frames starts.                                   *)
FreeRuns(bitmap, n) ==
    {f \in Frames : /\ f + n <= TotalBlocks
                    /\ Block(f, n) \cap bitmap = {}}

(* What the searches of the allocator are to find, if there is any.         *)
FirstFit(bitmap, n) ==
    CHOOSE f \in FreeRuns(bitmap, n) : \A g \in FreeRuns(bitmap, n) : f <= g
=============================================================================
