--------------------------- MODULE PMMSearchProofs ---------------------------
(***************************************************************************)
(* The searches of the physical memory manager find the first fit, for      *)
(* every size of memory, every bitmap and every count.                      *)
(***************************************************************************)
EXTENDS PMMSearch, TLAPS

(* What each loop knows: all frames before the word (or bit) under test are *)
(* used; no run of count free frames starts before i; the frames from i to  *)
(* j are free and fewer than count.                                         *)
WordsInv ==
    at = "words" =>
        /\ count = 1
        /\ \A g \in Frames : g < i * WordSize => g \in pmm_bitmap

BitsInv ==
    at = "bits" =>
        /\ count = 1
        /\ i * WordSize < TotalBlocks
        /\ j < WordSize
        /\ \E b \in 0..(WordSize - 1) : j <= b /\ i * WordSize + b \notin pmm_bitmap
        /\ \A g \in Frames : g < i * WordSize + j => g \in pmm_bitmap

OuterInv ==
    at \in {"outer", "inner"} =>
        /\ count > 1
        /\ \A g \in FreeRuns(pmm_bitmap, count) : i <= g

InnerInv ==
    at = "inner" =>
        /\ i < TotalBlocks
        /\ i <= j /\ j <= TotalBlocks
        /\ free_count = j - i /\ free_count < count
        /\ \A g \in i..(j - 1) : g \notin pmm_bitmap

DoneInv ==
    at = "done" =>
        \/ count = 0 /\ ret = -1
        \/ count # 0 /\ ret = -1 /\ FreeRuns(pmm_bitmap, count) = {}
        \/ /\ count # 0
           /\ ret \in FreeRuns(pmm_bitmap, count)
           /\ \A g \in FreeRuns(pmm_bitmap, count) : ret <= g

SearchInv ==
    /\ TypeOK
    /\ at = "start" => i = 0
    /\ WordsInv
    /\ BitsInv
    /\ OuterInv
    /\ InnerInv
    /\ DoneInv

(* A word that starts inside the bitmap lies inside it.                     *)
LEMMA WordInBitmap ==
    ASSUME NEW k \in Nat, k * WordSize < TotalBlocks
    PROVE  /\ k * WordSize \in Nat
           /\ (k + 1) * WordSize = k * WordSize + WordSize
           /\ k * WordSize + WordSize <= TotalBlocks
  <1>1. PICK w \in 1..TotalBlocks : TotalBlocks = w * WordSize
    BY WordSizeAssumption
  <1>2. WordSize \in Nat /\ WordSize > 0 /\ w \in Nat
    BY <1>1, WordSizeAssumption, TotalBlocksAssumption
  <1>3. k < w
    BY <1>1, <1>2
  <1>4. (k + 1) * WordSize <= w * WordSize
    BY <1>2, <1>3
  <1>5. k * WordSize \in Nat /\ (k + 1) * WordSize = k * WordSize + WordSize
    BY <1>2
  <1> QED
    BY <1>1, <1>4, <1>5

(* The runs of one frame are the free frames.                               *)
LEMMA RunsOfOne ==
    ASSUME TotalBlocks \in Nat, NEW B \in SUBSET Frames
    PROVE  FreeRuns(B, 1) = Frames \ B
  BY DEF FreeRuns, Block, Frames

LEMMA InitSearchInv == Init => SearchInv
  BY TotalBlocksAssumption
  DEF Init, SearchInv, TypeOK, WordsInv, BitsInv, OuterInv, InnerInv, DoneInv

LEMMA WordsStep == ASSUME SearchInv, Words PROVE SearchInv'
  <1> USE TotalBlocksAssumption, WordSizeAssumption DEF SearchInv, TypeOK
  <1>0. /\ at = "words" /\ count = 1 /\ UNCHANGED <<pmm_bitmap, count>>
        /\ TotalBlocks \in Nat /\ WordSize \in Nat /\ WordSize > 0
        /\ \A g \in Frames : g < i * WordSize => g \in pmm_bitmap
    BY DEF Words, WordsInv
  <1>1. CASE i * WordSize >= TotalBlocks /\ Return(-1)
    <2>1. Frames \subseteq pmm_bitmap
      BY <1>0, <1>1 DEF Frames
    <2>2. FreeRuns(pmm_bitmap, 1) = {}
      BY <1>0, <2>1, RunsOfOne
    <2> QED
      BY <1>0, <1>1, <2>2 DEF Return, WordsInv, BitsInv, OuterInv, InnerInv, DoneInv
  <1>2. CASE i * WordSize < TotalBlocks /\ Full(i) /\ i' = i + 1
             /\ UNCHANGED <<j, free_count, at, ret>>
    <2>1. /\ i * WordSize \in Nat
          /\ (i + 1) * WordSize = i * WordSize + WordSize
      BY <1>2, WordInBitmap
    <2>2. ASSUME NEW g \in Frames, g < (i + 1) * WordSize
          PROVE  g \in pmm_bitmap
      <3>1. CASE g < i * WordSize
        BY <1>0, <3>1
      <3>2. CASE g >= i * WordSize
        <4>1. PICK b \in 0..(WordSize - 1) : g = i * WordSize + b
          <5> DEFINE b == g - i * WordSize
          <5>1. b \in 0..(WordSize - 1) /\ g = i * WordSize + b
            BY <1>0, <2>1, <2>2, <3>2 DEF Frames
          <5> QED
            BY <5>1
        <4> QED
          BY <1>2, <4>1 DEF Full
      <3> QED
        BY <2>1, <3>1, <3>2 DEF Frames
    <2> QED
      BY <1>0, <1>2, <2>2 DEF WordsInv, BitsInv, OuterInv, InnerInv, DoneInv
  <1>3. CASE i * WordSize < TotalBlocks /\ ~Full(i) /\ j' = 0 /\ at' = "bits"
             /\ UNCHANGED <<i, free_count, ret>>
    <2>1. i * WordSize \in Nat
      BY <1>3, WordInBitmap
    <2>2. \E b \in 0..(WordSize - 1) : 0 <= b /\ i * WordSize + b \notin pmm_bitmap
      BY <1>3 DEF Full
    <2>3. \A g \in Frames : g < i * WordSize + 0 => g \in pmm_bitmap
      BY <1>0, <2>1 DEF Frames
    <2> QED
      BY <1>0, <1>3, <2>2, <2>3 DEF WordsInv, BitsInv, OuterInv, InnerInv, DoneInv
  <1> QED
    BY <1>1, <1>2, <1>3 DEF Words

LEMMA BitsStep == ASSUME SearchInv, Bits PROVE SearchInv'
  <1> USE TotalBlocksAssumption, WordSizeAssumption DEF SearchInv, TypeOK
  <1>0. /\ at = "bits" /\ count = 1 /\ UNCHANGED <<pmm_bitmap, count>>
        /\ TotalBlocks \in Nat /\ WordSize \in Nat /\ WordSize > 0
        /\ i * WordSize < TotalBlocks /\ j < WordSize
        /\ \A g \in Frames : g < i * WordSize + j => g \in pmm_bitmap
    BY DEF Bits, BitsInv
  <1>1. PICK b \in 0..(WordSize - 1) : j <= b /\ i * WordSize + b \notin pmm_bitmap
    BY <1>0 DEF BitsInv
  <1>2. i * WordSize \in Nat /\ i * WordSize + WordSize <= TotalBlocks
    BY <1>0, WordInBitmap
  <1> DEFINE f == i * WordSize + j
  <1>3. f \in Frames
    BY <1>0, <1>2 DEF Frames
  <1>4. CASE f \notin pmm_bitmap /\ Return(f)
    <2>1. f \in FreeRuns(pmm_bitmap, 1)
      BY <1>3, <1>4, RunsOfOne
    <2>2. \A g \in FreeRuns(pmm_bitmap, 1) : f <= g
      BY <1>0, <1>2, <1>3, RunsOfOne DEF Frames
    <2> HIDE DEF f
    <2> QED
      BY <1>0, <1>3, <1>4, <2>1, <2>2
      DEF Return, WordsInv, BitsInv, OuterInv, InnerInv, DoneInv
  <1>5. CASE f \in pmm_bitmap /\ j' = j + 1 /\ UNCHANGED <<i, free_count, at, ret>>
    <2>1. j # b
      BY <1>1, <1>5
    <2>2. j + 1 <= b /\ j + 1 < WordSize
      BY <1>0, <1>1, <2>1
    <2>3. \A g \in Frames : g < i * WordSize + (j + 1) => g \in pmm_bitmap
      BY <1>0, <1>2, <1>5 DEF Frames
    <2> QED
      BY <1>0, <1>1, <1>5, <2>2, <2>3 DEF WordsInv, BitsInv, OuterInv, InnerInv, DoneInv
  <1> QED
    BY <1>4, <1>5 DEF Bits

LEMMA StartStep == ASSUME SearchInv, Start PROVE SearchInv'
  <1> USE TotalBlocksAssumption, WordSizeAssumption DEF SearchInv, TypeOK
  <1>0. at = "start" /\ i = 0 /\ UNCHANGED <<pmm_bitmap, count>>
    BY DEF Start
  <1>1. CASE count = 0 /\ Return(-1)
    BY <1>0, <1>1 DEF Return, WordsInv, BitsInv, OuterInv, InnerInv, DoneInv
  <1>2. CASE count = 1 /\ at' = "words" /\ UNCHANGED <<i, j, free_count, ret>>
    <2>1. \A g \in Frames : g < 0 * WordSize => g \in pmm_bitmap
      BY DEF Frames
    <2> QED
      BY <1>0, <1>2, <2>1 DEF WordsInv, BitsInv, OuterInv, InnerInv, DoneInv
  <1>3. CASE count > 1 /\ at' = "outer" /\ UNCHANGED <<i, j, free_count, ret>>
    <2>1. \A g \in FreeRuns(pmm_bitmap, count) : 0 <= g
      BY DEF FreeRuns, Frames
    <2> QED
      BY <1>0, <1>3, <2>1 DEF WordsInv, BitsInv, OuterInv, InnerInv, DoneInv
  <1> QED
    BY <1>1, <1>2, <1>3 DEF Start

LEMMA OuterStep == ASSUME SearchInv, Outer PROVE SearchInv'
  <1> USE TotalBlocksAssumption DEF SearchInv, TypeOK
  <1>0. /\ at = "outer" /\ count > 1 /\ count \in Nat /\ TotalBlocks \in Nat
        /\ UNCHANGED <<pmm_bitmap, count>>
        /\ \A g \in FreeRuns(pmm_bitmap, count) : i <= g
    BY DEF Outer, OuterInv
  <1>1. CASE i >= TotalBlocks /\ Return(-1)
    <2>1. FreeRuns(pmm_bitmap, count) = {}
      BY <1>0, <1>1 DEF FreeRuns, Frames
    <2> QED
      BY <1>0, <1>1, <2>1 DEF Return, WordsInv, BitsInv, OuterInv, InnerInv, DoneInv
  <1>2. CASE i < TotalBlocks /\ i \in pmm_bitmap /\ i' = i + 1
             /\ UNCHANGED <<j, free_count, at, ret>>
    <2>1. i \notin FreeRuns(pmm_bitmap, count)
      BY <1>0, <1>2 DEF FreeRuns, Block
    <2>2. \A g \in FreeRuns(pmm_bitmap, count) : i + 1 <= g
      BY <1>0, <2>1 DEF FreeRuns, Frames
    <2> QED
      BY <1>0, <1>2, <2>2 DEF WordsInv, BitsInv, OuterInv, InnerInv, DoneInv
  <1>3. CASE i < TotalBlocks /\ i \notin pmm_bitmap /\ j' = i /\ free_count' = 0
             /\ at' = "inner" /\ UNCHANGED <<i, ret>>
    BY <1>0, <1>3 DEF WordsInv, BitsInv, OuterInv, InnerInv, DoneInv
  <1> QED
    BY <1>1, <1>2, <1>3 DEF Outer

LEMMA InnerStep == ASSUME SearchInv, Inner PROVE SearchInv'
  <1> USE TotalBlocksAssumption DEF SearchInv, TypeOK
  <1>0. /\ at = "inner" /\ count > 1 /\ count \in Nat /\ TotalBlocks \in Nat
        /\ UNCHANGED <<pmm_bitmap, count>>
        /\ i < TotalBlocks /\ i <= j /\ j <= TotalBlocks
        /\ free_count = j - i /\ free_count < count
        /\ \A g \in i..(j - 1) : g \notin pmm_bitmap
        /\ \A g \in FreeRuns(pmm_bitmap, count) : i <= g
    BY DEF Inner, OuterInv, InnerInv
  <1>1. CASE j < TotalBlocks /\ j \notin pmm_bitmap /\ free_count + 1 = count /\ Return(i)
    <2>1. i \in Frames /\ i + count <= TotalBlocks
      BY <1>0, <1>1 DEF Frames
    <2>2. Block(i, count) \cap pmm_bitmap = {}
      BY <1>0, <1>1 DEF Block
    <2>3. i \in FreeRuns(pmm_bitmap, count)
      BY <2>1, <2>2 DEF FreeRuns
    <2> QED
      BY <1>0, <1>1, <2>1, <2>3 DEF Return, WordsInv, BitsInv, OuterInv, InnerInv, DoneInv
  <1>2. CASE j < TotalBlocks /\ j \notin pmm_bitmap /\ free_count + 1 # count
             /\ free_count' = free_count + 1 /\ j' = j + 1 /\ UNCHANGED <<i, at, ret>>
    <2>1. \A g \in i..((j + 1) - 1) : g \notin pmm_bitmap
      BY <1>0, <1>2
    <2> QED
      BY <1>0, <1>2, <2>1 DEF WordsInv, BitsInv, OuterInv, InnerInv, DoneInv
  <1>3. CASE j < TotalBlocks /\ j \in pmm_bitmap /\ i' = j + 1 /\ at' = "outer"
             /\ UNCHANGED <<j, free_count, ret>>
    <2>1. ASSUME NEW g \in FreeRuns(pmm_bitmap, count) PROVE j + 1 <= g
      <3>1. g \in Nat /\ i <= g
        BY <1>0 DEF FreeRuns, Frames
      <3>2. g <= j => j \in Block(g, count)
        BY <1>0, <3>1 DEF Block
      <3>3. j \notin Block(g, count)
        BY <1>3 DEF FreeRuns
      <3> QED
        BY <3>1, <3>2, <3>3
    <2> QED
      BY <1>0, <1>3, <2>1 DEF WordsInv, BitsInv, OuterInv, InnerInv, DoneInv
  <1>4. CASE j >= TotalBlocks /\ i' = i + 1 /\ at' = "outer"
             /\ UNCHANGED <<j, free_count, ret>>
    <2>1. i \notin FreeRuns(pmm_bitmap, count)
      BY <1>0, <1>4 DEF FreeRuns
    <2>2. \A g \in FreeRuns(pmm_bitmap, count) : i + 1 <= g
      BY <1>0, <2>1 DEF FreeRuns, Frames
    <2> QED
      BY <1>0, <1>4, <2>2 DEF WordsInv, BitsInv, OuterInv, InnerInv, DoneInv
  <1> QED
    BY <1>1, <1>2, <1>3, <1>4 DEF Inner

LEMMA NextSearchInv == SearchInv /\ [Next]_vars => SearchInv'
  <1> SUFFICES ASSUME SearchInv, [Next]_vars PROVE SearchInv'
    OBVIOUS
  <1>1. CASE UNCHANGED vars
    BY <1>1 DEF vars, SearchInv, TypeOK, WordsInv, BitsInv, OuterInv, InnerInv, DoneInv
  <1> QED
    BY <1>1, StartStep, WordsStep, BitsStep, OuterStep, InnerStep DEF Next

(* A frame that no run starts before is the one CHOOSE picks.               *)
LEMMA FirstFitUnique ==
    ASSUME TotalBlocks \in Nat, NEW B, NEW n,
           NEW f \in FreeRuns(B, n), \A g \in FreeRuns(B, n) : f <= g
    PROVE  f = FirstFit(B, n)
  <1>1. /\ FirstFit(B, n) \in FreeRuns(B, n)
        /\ \A g \in FreeRuns(B, n) : FirstFit(B, n) <= g
    BY DEF FirstFit
  <1>2. FreeRuns(B, n) \subseteq Int
    BY DEF FreeRuns, Frames
  <1> QED
    BY <1>1, <1>2

LEMMA SearchInvFinds == SearchInv => FindsFirstFit /\ ReadsInBitmap
  <1> SUFFICES ASSUME SearchInv PROVE FindsFirstFit /\ ReadsInBitmap
    OBVIOUS
  <1>1. FindsFirstFit
    BY TotalBlocksAssumption, FirstFitUnique DEF SearchInv, TypeOK, DoneInv, FindsFirstFit
  <1>2. ReadsInBitmap
    <2>1. CASE at = "bits"
      <3>1. /\ i \in Nat /\ j \in Nat /\ WordSize \in Nat
            /\ i * WordSize < TotalBlocks /\ j < WordSize
        BY <2>1, WordSizeAssumption DEF SearchInv, TypeOK, BitsInv
      <3>2. i * WordSize \in Nat /\ i * WordSize + WordSize <= TotalBlocks
        BY <3>1, WordInBitmap
      <3>3. i * WordSize + j < TotalBlocks
        BY <3>1, <3>2, TotalBlocksAssumption
      <3> QED
        BY <2>1, <3>3 DEF ReadsInBitmap
    <2>2. CASE at # "bits"
      BY <2>2 DEF SearchInv, InnerInv, ReadsInBitmap
    <2> QED
      BY <2>1, <2>2
  <1> QED
    BY <1>1, <1>2

(* What the loops know at each point holds throughout both searches.        *)
THEOREM SearchInvariant == Spec => []SearchInv
  BY InitSearchInv, NextSearchInv, PTL DEF Spec

(* For every bitmap and count, whatever the two searches return is the      *)
(* first run of that many free frames, and -1 if there is none.             *)
THEOREM SearchCorrect == Spec => []FindsFirstFit
  <1>1. SearchInv => FindsFirstFit
    BY SearchInvFinds
  <1> QED
    BY <1>1, SearchInvariant, PTL

(* Neither search reads a bit behind the end of the bitmap.                 *)
THEOREM SearchStaysInside == Spec => []ReadsInBitmap
  <1>1. SearchInv => ReadsInBitmap
    BY SearchInvFinds
  <1> QED
    BY <1>1, SearchInvariant, PTL
=============================================================================
