------------------------------ MODULE PMMSearch ------------------------------
(***************************************************************************)
(* The searches of the physical memory manager, loop by loop:               *)
(* bitmap_first_free, which skips whole words whose bits are all 1, and     *)
(* bitmap_first_free_contiguous, whose inner loop moves the outer loop's    *)
(* index past the used frame it met (src/mm/pmm.c).                         *)
(***************************************************************************)
EXTENDS PMMBitmap

CONSTANT WordSize   \* bits the first search tests at a time, 32 in the code

ASSUME WordSizeAssumption ==
    /\ WordSize \in Nat \ {0}
    /\ \E w \in 1..TotalBlocks : TotalBlocks = w * WordSize

VARIABLES
    pmm_bitmap, count,      \* the inputs
    i, j, free_count,       \* the loops' variables
    at,                     \* the loop that is running
    ret                     \* the result, -1 if there is none

vars == <<pmm_bitmap, count, i, j, free_count, at, ret>>

Init ==
    /\ pmm_bitmap \in SUBSET Frames
    /\ count \in 0..TotalBlocks
    /\ i = 0
    /\ j = 0
    /\ free_count = 0
    /\ at = "start"
    /\ ret = -1

Return(r) ==
    /\ at' = "done"
    /\ ret' = r
    /\ UNCHANGED <<i, j, free_count>>

Start ==
    /\ at = "start"
    /\ \/ count = 0 /\ Return(-1)
       \/ count = 1 /\ at' = "words" /\ UNCHANGED <<i, j, free_count, ret>>
       \/ count > 1 /\ at' = "outer" /\ UNCHANGED <<i, j, free_count, ret>>
    /\ UNCHANGED <<pmm_bitmap, count>>

(* "*ptr == 0xFFFFFFFF": no frame of the word is free.                      *)
Full(word) == \A b \in 0..(WordSize - 1) : word * WordSize + b \in pmm_bitmap

Words ==
    /\ at = "words"
    /\ \/ i * WordSize >= TotalBlocks /\ Return(-1)
       \/ /\ i * WordSize < TotalBlocks
          /\ Full(i)
          /\ i' = i + 1
          /\ UNCHANGED <<j, free_count, at, ret>>
       \/ /\ i * WordSize < TotalBlocks
          /\ ~Full(i)
          /\ j' = 0
          /\ at' = "bits"
          /\ UNCHANGED <<i, free_count, ret>>
    /\ UNCHANGED <<pmm_bitmap, count>>

(* The bits of a word that is not full: one of them is 0, so the loop does  *)
(* not run past the word.                                                   *)
Bits ==
    /\ at = "bits"
    /\ \/ /\ i * WordSize + j \notin pmm_bitmap
          /\ Return(i * WordSize + j)
       \/ /\ i * WordSize + j \in pmm_bitmap
          /\ j' = j + 1
          /\ UNCHANGED <<i, free_count, at, ret>>
    /\ UNCHANGED <<pmm_bitmap, count>>

Outer ==
    /\ at = "outer"
    /\ \/ i >= TotalBlocks /\ Return(-1)
       \/ /\ i < TotalBlocks
          /\ i \in pmm_bitmap
          /\ i' = i + 1
          /\ UNCHANGED <<j, free_count, at, ret>>
       \/ /\ i < TotalBlocks
          /\ i \notin pmm_bitmap
          /\ j' = i
          /\ free_count' = 0
          /\ at' = "inner"
          /\ UNCHANGED <<i, ret>>
    /\ UNCHANGED <<pmm_bitmap, count>>

(* Mutant: one frame too many is skipped behind a used one.                 *)
InnerSkipsTooFar ==
    /\ at = "inner"
    /\ \/ /\ j < TotalBlocks /\ j \notin pmm_bitmap
          /\ free_count + 1 = count
          /\ Return(i)
       \/ /\ j < TotalBlocks /\ j \notin pmm_bitmap
          /\ free_count + 1 # count
          /\ free_count' = free_count + 1
          /\ j' = j + 1
          /\ UNCHANGED <<i, at, ret>>
       \/ /\ j >= TotalBlocks \/ j \in pmm_bitmap
          /\ i' = j + 2
          /\ at' = "outer"
          /\ UNCHANGED <<j, free_count, ret>>
    /\ UNCHANGED <<pmm_bitmap, count>>

(* Mutant: the outer loop starts over at the same frame.                    *)
InnerNoAdvance ==
    /\ at = "inner"
    /\ \/ /\ j < TotalBlocks /\ j \notin pmm_bitmap
          /\ free_count + 1 = count
          /\ Return(i)
       \/ /\ j < TotalBlocks /\ j \notin pmm_bitmap
          /\ free_count + 1 # count
          /\ free_count' = free_count + 1
          /\ j' = j + 1
          /\ UNCHANGED <<i, at, ret>>
       \/ /\ j >= TotalBlocks \/ j \in pmm_bitmap
          /\ at' = "outer"
          /\ UNCHANGED <<i, j, free_count, ret>>
    /\ UNCHANGED <<pmm_bitmap, count>>

(* Count free frames from i on.  At a used frame j, "i = j; break" and the  *)
(* outer loop's i++ go on behind it; at the end of memory the outer loop    *)
(* goes on at i + 1.                                                        *)
Inner ==
    /\ at = "inner"
    /\ \/ /\ j < TotalBlocks /\ j \notin pmm_bitmap
          /\ free_count + 1 = count
          /\ Return(i)
       \/ /\ j < TotalBlocks /\ j \notin pmm_bitmap
          /\ free_count + 1 # count
          /\ free_count' = free_count + 1
          /\ j' = j + 1
          /\ UNCHANGED <<i, at, ret>>
       \/ /\ j < TotalBlocks /\ j \in pmm_bitmap
          /\ i' = j + 1
          /\ at' = "outer"
          /\ UNCHANGED <<j, free_count, ret>>
       \/ /\ j >= TotalBlocks
          /\ i' = i + 1
          /\ at' = "outer"
          /\ UNCHANGED <<j, free_count, ret>>
    /\ UNCHANGED <<pmm_bitmap, count>>

Next == Start \/ Words \/ Bits \/ Outer \/ Inner

Spec == Init /\ [][Next]_vars

(* A function that is running goes on.                                      *)
FairSpec == Spec /\ WF_vars(Next)

-----------------------------------------------------------------------------
(* Properties *)

(* The loop variables and the result have their types.                      *)
TypeOK ==
    /\ pmm_bitmap \subseteq Frames
    /\ count \in 0..TotalBlocks
    /\ i \in Nat
    /\ j \in Nat
    /\ free_count \in Nat
    /\ at \in {"start", "words", "bits", "outer", "inner", "done"}
    /\ ret \in Frames \cup {-1}

(* Both searches return the first fit, and -1 exactly when there is no run  *)
(* of that many free frames (or none is asked for).                         *)
FindsFirstFit ==
    at = "done" =>
        IF count = 0 \/ FreeRuns(pmm_bitmap, count) = {}
          THEN ret = -1
          ELSE ret = FirstFit(pmm_bitmap, count)

(* No search reads a bit behind the end of the bitmap.                      *)
ReadsInBitmap ==
    /\ at = "bits" => i * WordSize + j < TotalBlocks
    /\ at = "inner" => j <= TotalBlocks

(* The search ends, in spite of the outer index being set by both loops.    *)
Terminates == <>(at = "done")
=============================================================================
