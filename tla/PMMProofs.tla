------------------------------ MODULE PMMProofs ------------------------------
(***************************************************************************)
(* The physical memory manager, for every size of memory and any callers.   *)
(* The first 2 MB stay reserved whoever is preempted where.  The counter    *)
(* and the ownership of frames are right if every caller has interrupts     *)
(* off.                                                                     *)
(***************************************************************************)
EXTENDS PMM, FiniteSetTheorems, TLAPS

Kernel == 0..(KernelBlocks - 1)

(* A block a caller holds, or has found, lies in memory and above 2 MB.     *)
GoodBlock(b) ==
    /\ b \in Frames \X Counts
    /\ b[1] + b[2] <= TotalBlocks
    /\ Block(b[1], b[2]) \cap Kernel = {}

Reserved ==
    /\ TypeOK
    /\ Kernel \subseteq pmm_bitmap
    /\ \A c \in Callers : \A b \in held[c] : GoodBlock(b)
    /\ \A c \in Callers : found[c] # None => GoodBlock(found[c])

LEMMA FramesFinite == IsFiniteSet(Frames) /\ Cardinality(Frames) = TotalBlocks
  BY FS_Interval, TotalBlocksAssumption DEF Frames

(* Every non-empty set of frames has a least element.                       *)
LEMMA LeastFrame ==
    ASSUME NEW F \in SUBSET Frames, F # {}
    PROVE  \E f \in F : \A g \in F : f <= g
  <1> DEFINE Below(f) == {g \in F : g <= f}
             T == {Below(f) : f \in F}
             R == StrictSubsetOrdering(Frames)
  <1>1. IsFiniteSet(Frames)
    BY FramesFinite
  <1>2. IsWellFoundedOn(R, SUBSET Frames)
    BY <1>1, FS_StrictSubsetOrderingWellFounded, FS_FiniteSubsetsOfFinite
  <1>3. T \subseteq SUBSET Frames /\ T # {}
    OBVIOUS
  <1>4. \E x \in T : \A y \in T : ~(<<y, x>> \in R)
    <2> HIDE DEF T, R
    <2> QED
      BY <1>2, <1>3, WFMin
  <1>5. PICK f \in F : \A y \in T : ~(<<y, Below(f)>> \in R)
    BY <1>4
  <1>6. ASSUME NEW g \in F PROVE f <= g
    <2>0. f \in Int /\ g \in Int /\ F \subseteq Int
      BY TotalBlocksAssumption DEF Frames
    <2>1. SUFFICES ASSUME g < f PROVE FALSE
      BY <2>0
    <2>2. Below(g) \subseteq Below(f) /\ f \in Below(f) /\ f \notin Below(g)
      <3>1. \A h \in F : h <= g => h <= f
        BY <2>0, <2>1
      <3>2. f <= f /\ ~(f <= g)
        BY <2>0, <2>1
      <3> QED
        BY <3>1, <3>2
    <2>3. Below(g) \in SUBSET Frames /\ Below(f) \in SUBSET Frames
      OBVIOUS
    <2>4. <<Below(g), Below(f)>> \in R
      BY <2>2, <2>3 DEF StrictSubsetOrdering
    <2> QED
      BY <1>5, <2>4
  <1> QED
    BY <1>6

LEMMA FirstFitIsRun ==
    ASSUME NEW B, NEW n, FreeRuns(B, n) # {}
    PROVE  FirstFit(B, n) \in FreeRuns(B, n)
  <1>1. FreeRuns(B, n) \in SUBSET Frames
    BY DEF FreeRuns
  <1>2. \E f \in FreeRuns(B, n) : \A g \in FreeRuns(B, n) : f <= g
    BY <1>1, LeastFrame
  <1> QED
    BY <1>2 DEF FirstFit

(* What the search returns lies in memory and, as the first 2 MB are marked *)
(* used, above them.                                                        *)
LEMMA FirstFitGood ==
    ASSUME Kernel \subseteq pmm_bitmap, NEW n \in Counts, ~Fails(n)
    PROVE  /\ GoodBlock(<<FirstFit(pmm_bitmap, n), n>>)
           /\ Block(FirstFit(pmm_bitmap, n), n) \cap pmm_bitmap = {}
  <1>1. FirstFit(pmm_bitmap, n) \in FreeRuns(pmm_bitmap, n)
    BY FirstFitIsRun DEF Fails
  <1> QED
    BY <1>1 DEF FreeRuns, GoodBlock

LEMMA BlockInFrames ==
    ASSUME NEW b, GoodBlock(b)
    PROVE  Block(b[1], b[2]) \subseteq Frames
  BY TotalBlocksAssumption DEF GoodBlock, Block, Frames, Counts

LEMMA NoneIsNoBlock == None \notin Frames \X Counts
  BY DEF None, Frames, Counts

LEMMA InitReserved == Init => Reserved
  <1> SUFFICES ASSUME Init PROVE Reserved
    OBVIOUS
  <1>1. PICK available \in SUBSET Frames : pmm_bitmap = InitBitmap(available)
    BY DEF Init
  <1>2. pmm_bitmap \subseteq Frames /\ Kernel \subseteq pmm_bitmap
    BY <1>1, KernelBlocksAssumption, TotalBlocksAssumption
    DEF InitBitmap, Frames, Kernel
  <1>3. IsFiniteSet(pmm_bitmap)
    BY <1>2, FramesFinite, FS_Subset
  <1>4. used_blocks \in Int
    BY <1>3, FS_CardinalityType DEF Init
  <1> QED
    BY <1>2, <1>4 DEF Init, Reserved, TypeOK

LEMMA TakeReserved ==
    ASSUME Reserved, NEW c \in Callers, NEW f, NEW n, GoodBlock(<<f, n>>),
           Take(c, f, n)
    PROVE  /\ pmm_bitmap' \subseteq Frames
           /\ used_blocks' \in Int
           /\ held' \in [Callers -> SUBSET (Frames \X Counts)]
           /\ Kernel \subseteq pmm_bitmap'
           /\ \A d \in Callers : \A b \in held'[d] : GoodBlock(b)
  <1>1. Block(f, n) \subseteq Frames /\ n \in Int /\ <<f, n>> \in Frames \X Counts
    <2>1. <<f, n>> \in Frames \X Counts
      BY DEF GoodBlock
    <2>2. n \in Int
      BY <2>1, TotalBlocksAssumption DEF Counts
    <2> QED
      BY <2>1, <2>2, BlockInFrames
  <1>2. held' = [held EXCEPT ![c] = held[c] \cup {<<f, n>>}]
    BY DEF Take
  <1>3. /\ held' \in [Callers -> SUBSET (Frames \X Counts)]
        /\ \A d \in Callers : \A b \in held'[d] : GoodBlock(b)
    BY <1>1, <1>2 DEF Reserved, TypeOK
  <1> QED
    BY <1>1, <1>3 DEF Take, Reserved, TypeOK

LEMMA FreeReserved ==
    ASSUME Reserved, NEW c \in Callers, Free(c)
    PROVE  Reserved'
  <1>1. PICK b \in held[c] :
          /\ pmm_bitmap' = pmm_bitmap \ (Block(b[1], b[2]) \cap pmm_bitmap)
          /\ used_blocks' = used_blocks - Cardinality(Block(b[1], b[2]) \cap pmm_bitmap)
          /\ held' = [held EXCEPT ![c] = held[c] \ {b}]
    BY DEF Free
  <1>2. GoodBlock(b) /\ UNCHANGED <<found, masked>>
    BY DEF Reserved, Free
  <1>3. pmm_bitmap' \subseteq Frames /\ Kernel \subseteq pmm_bitmap'
    BY <1>1, <1>2 DEF Reserved, TypeOK, GoodBlock
  <1>4. used_blocks' \in Int
    <2>1. Block(b[1], b[2]) \cap pmm_bitmap \in SUBSET Frames
      BY DEF Reserved, TypeOK
    <2>2. Cardinality(Block(b[1], b[2]) \cap pmm_bitmap) \in Nat
      BY <2>1, FramesFinite, FS_Subset, FS_CardinalityType
    <2> QED
      BY <1>1, <2>2 DEF Reserved, TypeOK
  <1>5. /\ held' \in [Callers -> SUBSET (Frames \X Counts)]
        /\ \A d \in Callers : \A a \in held'[d] : GoodBlock(a)
    BY <1>1 DEF Reserved, TypeOK
  <1> QED
    BY <1>2, <1>3, <1>4, <1>5 DEF Reserved, TypeOK, GoodBlock

LEMMA NextReserved == Reserved /\ [Next]_vars => Reserved'
  <1> SUFFICES ASSUME Reserved, [Next]_vars PROVE Reserved'
    OBVIOUS
  <1>1. ASSUME NEW c \in Callers, NEW n \in Counts, Alloc(c, n) PROVE Reserved'
    <2>1. UNCHANGED <<found, masked>>
      BY <1>1 DEF Alloc
    <2>2. CASE ~Fails(n) /\ Take(c, FirstFit(pmm_bitmap, n), n)
      <3>1. GoodBlock(<<FirstFit(pmm_bitmap, n), n>>)
        BY <2>2, FirstFitGood DEF Reserved
      <3> HIDE DEF Take
      <3> QED
        BY <2>1, <2>2, <3>1, TakeReserved DEF Reserved, TypeOK, GoodBlock
    <2>3. CASE Fails(n) /\ UNCHANGED <<pmm_bitmap, used_blocks, held>>
      BY <2>1, <2>3 DEF Reserved, TypeOK, GoodBlock
    <2> QED
      BY <1>1, <2>2, <2>3 DEF Alloc
  <1>2. ASSUME NEW c \in Callers, NEW n \in Counts, Search(c, n) PROVE Reserved'
    <2>1. UNCHANGED <<pmm_bitmap, used_blocks, held, masked>>
      BY <1>2 DEF Search
    <2>2. CASE ~Fails(n) /\ found' = [found EXCEPT ![c] = <<FirstFit(pmm_bitmap, n), n>>]
      <3>1. GoodBlock(<<FirstFit(pmm_bitmap, n), n>>)
        BY <2>2, FirstFitGood DEF Reserved
      <3> QED
        BY <2>1, <2>2, <3>1 DEF Reserved, TypeOK, GoodBlock
    <2>3. CASE UNCHANGED found
      BY <2>1, <2>3 DEF Reserved, TypeOK, GoodBlock
    <2> QED
      BY <1>2, <2>2, <2>3 DEF Search
  <1>3. ASSUME NEW c \in Callers, Update(c) PROVE Reserved'
    <2>1. GoodBlock(found[c]) /\ found[c] \in Frames \X Counts
      BY <1>3 DEF Reserved, Update, GoodBlock
    <2>2. found[c] = <<found[c][1], found[c][2]>>
      BY <2>1
    <2>3. found' = [found EXCEPT ![c] = None] /\ masked' = masked
      BY <1>3 DEF Update
    <2>4. Take(c, found[c][1], found[c][2])
      BY <1>3 DEF Update
    <2>5. GoodBlock(<<found[c][1], found[c][2]>>)
      BY <2>1, <2>2
    <2>6. /\ pmm_bitmap' \subseteq Frames
          /\ used_blocks' \in Int
          /\ held' \in [Callers -> SUBSET (Frames \X Counts)]
          /\ Kernel \subseteq pmm_bitmap'
          /\ \A d \in Callers : \A b \in held'[d] : GoodBlock(b)
      BY <2>4, <2>5, TakeReserved
    <2> QED
      BY <2>3, <2>6 DEF Reserved, TypeOK, GoodBlock
  <1>4. CASE UNCHANGED vars
    BY <1>4 DEF vars, Reserved, TypeOK, GoodBlock
  <1> QED
    BY <1>1, <1>2, <1>3, <1>4, FreeReserved DEF Next

(* Types and the reservation of the first 2 MB hold in every state, in      *)
(* spite of callers that are preempted between the search and the update.   *)
THEOREM ReservedInvariant == Spec => []Reserved
  BY InitReserved, NextReserved, PTL DEF Spec

(* The state keeps its types: in particular no bit behind the end of memory *)
(* is ever set.                                                             *)
THEOREM PMMTypeCorrect == Spec => []TypeOK
  <1>1. Reserved => TypeOK
    BY DEF Reserved
  <1> QED
    BY <1>1, ReservedInvariant, PTL

(* No caller is ever given a frame below 2 MB.                              *)
THEOREM KernelNeverAllocated == Spec => []KernelReserved
  <1>1. Reserved => KernelReserved
    BY DEF Reserved, KernelReserved, GoodBlock, Kernel
  <1> QED
    BY <1>1, ReservedInvariant, PTL

-----------------------------------------------------------------------------
(* The callers that have interrupts off *)

(* A caller with interrupts off is never caught between the search and the  *)
(* update.                                                                  *)
MaskedInv ==
    /\ Reserved
    /\ \A c \in masked : found[c] = None
    /\ Accounting
    /\ Exclusive

LEMMA BlockSize ==
    ASSUME NEW b, GoodBlock(b)
    PROVE  /\ IsFiniteSet(Block(b[1], b[2]))
           /\ Cardinality(Block(b[1], b[2])) = b[2]
           /\ b[1] \in Block(b[1], b[2])
           /\ b[2] \in Nat
  <1>1. b[1] \in Int /\ b[2] \in Nat /\ b[2] >= 1
    BY TotalBlocksAssumption DEF GoodBlock, Frames, Counts
  <1>2. b[1] + b[2] - 1 \in Int /\ ~(b[1] > b[1] + b[2] - 1)
        /\ (b[1] + b[2] - 1) - b[1] + 1 = b[2]
    BY <1>1
  <1>3. b[1] \in b[1]..(b[1] + b[2] - 1)
    BY <1>1
  <1> QED
    BY <1>1, <1>2, <1>3, FS_Interval DEF Block

LEMMA BitmapFinite ==
    ASSUME TypeOK
    PROVE  IsFiniteSet(pmm_bitmap) /\ Cardinality(pmm_bitmap) \in Nat
  BY FramesFinite, FS_Subset, FS_CardinalityType DEF TypeOK

LEMMA TakeMasked ==
    ASSUME MaskedInv, masked = Callers, masked' = masked,
           NEW c \in Callers, NEW n \in Counts, ~Fails(n),
           Take(c, FirstFit(pmm_bitmap, n), n)
    PROVE  Accounting' /\ Exclusive'
  <1> DEFINE f == FirstFit(pmm_bitmap, n)
             new == <<f, n>>
  <1>1. GoodBlock(new) /\ Block(f, n) \cap pmm_bitmap = {}
    BY FirstFitGood DEF MaskedInv, Reserved
  <1>2. /\ pmm_bitmap' = pmm_bitmap \cup Block(f, n)
        /\ used_blocks' = used_blocks + n
        /\ held' = [held EXCEPT ![c] = held[c] \cup {new}]
    BY DEF Take
  <1> HIDE DEF f
  <1>3. IsFiniteSet(Block(f, n)) /\ Cardinality(Block(f, n)) = n /\ n \in Nat
    BY <1>1, BlockSize
  <1>4. Accounting'
    <2>1. /\ IsFiniteSet(pmm_bitmap) /\ Cardinality(pmm_bitmap) \in Nat
          /\ used_blocks = Cardinality(pmm_bitmap)
      BY BitmapFinite DEF MaskedInv, Reserved, Accounting
    <2>2. Cardinality(pmm_bitmap \cap Block(f, n)) = 0
      BY <1>1, FS_EmptySet
    <2>3. Cardinality(pmm_bitmap \cup Block(f, n))
            = Cardinality(pmm_bitmap) + Cardinality(Block(f, n))
                - Cardinality(pmm_bitmap \cap Block(f, n))
      BY <1>3, <2>1, FS_Union
    <2>4. Cardinality(pmm_bitmap \cup Block(f, n)) = used_blocks + n
      BY <1>3, <2>1, <2>2, <2>3
    <2> QED
      BY <1>2, <2>4 DEF Accounting
  <1>5. \A d \in Callers : held'[d] \subseteq held[d] \cup (IF d = c THEN {new} ELSE {})
    BY <1>2 DEF MaskedInv, Reserved, TypeOK
  <1>6. \A d \in Callers : \A a \in held[d] :
           /\ Block(a[1], a[2]) \subseteq pmm_bitmap
           /\ Block(a[1], a[2]) \cap Block(f, n) = {}
    BY <1>1 DEF MaskedInv, Exclusive
  <1>7. \A d \in Callers : \A a \in held'[d] : Block(a[1], a[2]) \subseteq pmm_bitmap'
    BY <1>2, <1>5, <1>6
  <1>8. ASSUME NEW d \in Callers, NEW e \in Callers, NEW a \in held'[d],
               NEW b \in held'[e], Block(a[1], a[2]) \cap Block(b[1], b[2]) # {}
        PROVE  d = e /\ a = b
    <2>1. (a \in held[d] \/ (d = c /\ a = new)) /\ (b \in held[e] \/ (e = c /\ b = new))
      BY <1>5
    <2>2. CASE a \in held[d] /\ b \in held[e]
      BY <1>8, <2>2 DEF MaskedInv, Exclusive
    <2>3. CASE a \in held[d] /\ e = c /\ b = new
      BY <1>6, <1>8, <2>3
    <2>4. CASE d = c /\ a = new /\ b \in held[e]
      BY <1>6, <1>8, <2>4
    <2>5. CASE d = c /\ a = new /\ e = c /\ b = new
      BY <2>5
    <2> QED
      BY <2>1, <2>2, <2>3, <2>4, <2>5
  <1> QED
    BY <1>4, <1>7, <1>8 DEF Exclusive

LEMMA FreeMasked ==
    ASSUME MaskedInv, masked = Callers, NEW c \in Callers, Free(c)
    PROVE  Accounting' /\ Exclusive'
  <1>1. PICK b \in held[c] :
          /\ pmm_bitmap' = pmm_bitmap \ (Block(b[1], b[2]) \cap pmm_bitmap)
          /\ used_blocks' = used_blocks - Cardinality(Block(b[1], b[2]) \cap pmm_bitmap)
          /\ held' = [held EXCEPT ![c] = held[c] \ {b}]
    BY DEF Free
  <1> DEFINE freed == Block(b[1], b[2]) \cap pmm_bitmap
  <1>2. Accounting'
    <2>1. /\ IsFiniteSet(pmm_bitmap)
          /\ used_blocks = Cardinality(pmm_bitmap)
      BY BitmapFinite DEF MaskedInv, Reserved, Accounting
    <2>2. pmm_bitmap \cap freed = freed
      OBVIOUS
    <2>3. Cardinality(pmm_bitmap \ freed) = Cardinality(pmm_bitmap) - Cardinality(freed)
      BY <2>1, <2>2, FS_Difference
    <2> QED
      BY <1>1, <2>1, <2>3 DEF Accounting
  <1>3. \A d \in Callers : held'[d] = IF d = c THEN held[d] \ {b} ELSE held[d]
    BY <1>1 DEF MaskedInv, Reserved, TypeOK
  <1>4. ASSUME NEW d \in Callers, NEW a \in held'[d]
        PROVE  Block(a[1], a[2]) \subseteq pmm_bitmap'
    <2>1. a \in held[d] /\ ~(d = c /\ a = b)
      BY <1>3
    <2>2. Block(a[1], a[2]) \cap Block(b[1], b[2]) = {}
      BY <2>1 DEF MaskedInv, Exclusive
    <2>3. Block(a[1], a[2]) \subseteq pmm_bitmap
      BY <2>1 DEF MaskedInv, Exclusive
    <2> QED
      BY <1>1, <2>2, <2>3
  <1>5. ASSUME NEW d \in Callers, NEW e \in Callers, NEW x \in held'[d],
               NEW y \in held'[e], Block(x[1], x[2]) \cap Block(y[1], y[2]) # {}
        PROVE  d = e /\ x = y
    <2>1. x \in held[d] /\ y \in held[e]
      BY <1>3
    <2> QED
      BY <1>5, <2>1 DEF MaskedInv, Exclusive
  <1> QED
    BY <1>2, <1>4, <1>5 DEF Exclusive

LEMMA NextMaskedInv == MaskedInv /\ [Next]_vars => MaskedInv'
  <1> SUFFICES ASSUME MaskedInv, [Next]_vars PROVE MaskedInv'
    OBVIOUS
  <1>0. Reserved' /\ masked \subseteq Callers
    BY NextReserved DEF MaskedInv, Reserved, TypeOK
  <1>1. masked' = masked
    BY DEF Next, Alloc, Search, Update, Free, vars
  <1>2. \A c \in masked' : found'[c] = None
    <2>1. ASSUME NEW c \in Callers, NEW n \in Counts, Search(c, n)
          PROVE  \A d \in masked : found'[d] = None
      BY <1>0, <2>1 DEF Search, MaskedInv, Reserved, TypeOK
    <2>2. ASSUME NEW c \in Callers, Update(c)
          PROVE  \A d \in masked : found'[d] = None
      BY <1>0, <2>2 DEF Update, MaskedInv, Reserved, TypeOK
    <2>3. ASSUME UNCHANGED found
          PROVE  \A d \in masked : found'[d] = None
      BY <2>3 DEF MaskedInv
    <2> QED
      BY <1>1, <2>1, <2>2, <2>3 DEF Next, Alloc, Free, vars
  <1>3. CASE masked # Callers
    BY <1>0, <1>1, <1>2, <1>3 DEF MaskedInv, Accounting, Exclusive
  <1>4. CASE masked = Callers
    <2>1. ASSUME NEW c \in Callers, NEW n \in Counts, Alloc(c, n)
          PROVE  Accounting' /\ Exclusive'
      <3>1. CASE ~Fails(n) /\ Take(c, FirstFit(pmm_bitmap, n), n)
        BY <1>1, <1>4, <3>1, TakeMasked
      <3>2. CASE Fails(n) /\ UNCHANGED <<pmm_bitmap, used_blocks, held>>
        BY <1>1, <3>2 DEF MaskedInv, Accounting, Exclusive
      <3> QED
        BY <2>1, <3>1, <3>2 DEF Alloc
    <2>2. ASSUME NEW c \in Callers, NEW n \in Counts, Search(c, n) PROVE FALSE
      BY <1>4, <2>2 DEF Search
    <2>3. ASSUME NEW c \in Callers, Update(c) PROVE FALSE
      BY <1>4, <2>3 DEF Update, MaskedInv
    <2>4. ASSUME NEW c \in Callers, Free(c) PROVE Accounting' /\ Exclusive'
      BY <1>4, <2>4, FreeMasked
    <2>5. ASSUME UNCHANGED vars PROVE Accounting' /\ Exclusive'
      BY <2>5 DEF vars, MaskedInv, Accounting, Exclusive
    <2>6. Accounting' /\ Exclusive'
      BY <2>1, <2>2, <2>3, <2>4, <2>5 DEF Next
    <2> QED
      BY <1>0, <1>2, <2>6 DEF MaskedInv
  <1> QED
    BY <1>3, <1>4

LEMMA InitMaskedInv == Init => MaskedInv
  BY InitReserved DEF Init, MaskedInv, Accounting, Exclusive, Reserved, TypeOK

(* The counter test refuses only what the bitmap could not satisfy: a free  *)
(* run and the used frames together fit in memory.                          *)
LEMMA MaskedNoFalseOOM == MaskedInv => NoFalseOOM
  <1> SUFFICES ASSUME MaskedInv, masked = Callers, NEW n \in Counts, used_blocks + n > TotalBlocks,
                      NEW f \in FreeRuns(pmm_bitmap, n)
               PROVE  FALSE
    BY DEF NoFalseOOM
  <1>1. f \in Int /\ n \in Nat /\ f + n - 1 \in Int /\ ~(f > f + n - 1)
        /\ (f + n - 1) - f + 1 = n
    BY TotalBlocksAssumption DEF FreeRuns, Frames, Counts
  <1>2. IsFiniteSet(Block(f, n)) /\ Cardinality(Block(f, n)) = n
    BY <1>1, FS_Interval DEF Block
  <1>3. Block(f, n) \subseteq Frames /\ Block(f, n) \cap pmm_bitmap = {}
    BY <1>1, TotalBlocksAssumption DEF FreeRuns, Frames, Block
  <1>4. /\ pmm_bitmap \subseteq Frames /\ IsFiniteSet(pmm_bitmap)
        /\ used_blocks = Cardinality(pmm_bitmap)
    BY BitmapFinite DEF MaskedInv, Reserved, TypeOK, Accounting
  <1>5. Cardinality(pmm_bitmap) + Cardinality(Block(f, n)) > Cardinality(Frames)
    BY <1>2, <1>4, FramesFinite
  <1> QED
    BY <1>3, <1>4, <1>5, FramesFinite, FS_MajoritiesIntersect

(* With interrupts off, used_blocks is the number of allocated frames.      *)
THEOREM CounterCorrect == Spec => []Accounting
  <1>1. MaskedInv => Accounting
    BY DEF MaskedInv
  <1> QED
    BY <1>1, InitMaskedInv, NextMaskedInv, PTL DEF Spec

(* With interrupts off, no frame is ever given to two callers.              *)
THEOREM FramesExclusive == Spec => []Exclusive
  <1>1. MaskedInv => Exclusive
    BY DEF MaskedInv
  <1> QED
    BY <1>1, InitMaskedInv, NextMaskedInv, PTL DEF Spec

(* With interrupts off, the counter never refuses a request that the bitmap *)
(* could satisfy.                                                           *)
THEOREM CounterNeverRefuses == Spec => []NoFalseOOM
  BY MaskedNoFalseOOM, InitMaskedInv, NextMaskedInv, PTL DEF Spec
=============================================================================
