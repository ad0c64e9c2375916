--------------------------------- MODULE PMM ---------------------------------
(***************************************************************************)
(* The physical memory manager (src/mm/pmm.c): a bitmap of 4 KB frames and  *)
(* a counter of the used ones.                                              *)
(*                                                                          *)
(* The allocator takes no lock.  A caller that calls it with interrupts off *)
(* (a system call, fork) does so in one step.  Any other caller (the shell, *)
(* a program being loaded by execve in kernel mode) can be preempted        *)
(* between the search and the update.                                       *)
(*                                                                          *)
(* The search is given here by what it finds, the first fit; PMMSearch      *)
(* shows that the two loops of the code find that.                          *)
(***************************************************************************)
EXTENDS PMMBitmap, FiniteSets

CONSTANTS
    KernelBlocks,   \* frames below 2 MB, 512 in the code
    Callers         \* the tasks that allocate

ASSUME KernelBlocksAssumption == KernelBlocks \in 1..TotalBlocks

None == <<-1, 0>>

VARIABLES
    pmm_bitmap,     \* the set of frames whose bit is 1
    used_blocks,
    found,          \* a preempted caller's local frame and count, or None
    held,           \* the blocks <<frame, count>> each caller was given
    masked          \* the callers that have interrupts off

vars == <<pmm_bitmap, used_blocks, found, held, masked>>

(* The bitmap pmm_init leaves when the memory map reports the frames in     *)
(* available: everything above 2 MB if it reports none, and the frames      *)
(* below 2 MB are reserved in any case.                                     *)
InitBitmap(available) ==
    LET free == IF available = {} THEN Frames ELSE available
    IN  Frames \ {f \in free : f >= KernelBlocks}

Init ==
    /\ \E available \in SUBSET Frames : pmm_bitmap = InitBitmap(available)
    /\ used_blocks = Cardinality(pmm_bitmap)
    /\ found = [c \in Callers |-> None]
    /\ held = [c \in Callers |-> {}]
    /\ masked \in SUBSET Callers

(* Mutant: only the first bit of a block is set.                            *)
TakeFirstOnly(c, f, n) ==
    /\ pmm_bitmap' = pmm_bitmap \cup {f}
    /\ used_blocks' = used_blocks + 1
    /\ held' = [held EXCEPT ![c] = @ \cup {<<f, n>>}]

(* Set the bits, count them, hand out the address.                          *)
Take(c, f, n) ==
    /\ pmm_bitmap' = pmm_bitmap \cup Block(f, n)
    /\ used_blocks' = used_blocks + n
    /\ held' = [held EXCEPT ![c] = @ \cup {<<f, n>>}]

(* Out of memory, by the counter or by the search: return NULL.             *)
Fails(n) == used_blocks + n > TotalBlocks \/ FreeRuns(pmm_bitmap, n) = {}

(* pmm_alloc_block (n = 1) and pmm_alloc_blocks.                            *)
Alloc(c, n) ==
    /\ c \in masked
    /\ \/ ~Fails(n) /\ Take(c, FirstFit(pmm_bitmap, n), n)
       \/ Fails(n) /\ UNCHANGED <<pmm_bitmap, used_blocks, held>>
    /\ UNCHANGED <<found, masked>>

(* The same by a caller that can be preempted: the search ...               *)
Search(c, n) ==
    /\ c \notin masked
    /\ found[c] = None
    /\ \/ /\ ~Fails(n)
          /\ found' = [found EXCEPT ![c] = <<FirstFit(pmm_bitmap, n), n>>]
       \/ Fails(n) /\ UNCHANGED found
    /\ UNCHANGED <<pmm_bitmap, used_blocks, held, masked>>

(* ... and the update.                                                      *)
Update(c) ==
    /\ found[c] # None
    /\ Take(c, found[c][1], found[c][2])
    /\ found' = [found EXCEPT ![c] = None]
    /\ UNCHANGED masked

(* pmm_free_block and pmm_free_blocks: a bit that is clear already is not   *)
(* counted again.  Callers free what they hold.                             *)
Free(c) ==
    /\ found[c] = None
    /\ \E b \in held[c] :
         LET freed == Block(b[1], b[2]) \cap pmm_bitmap
         IN  /\ pmm_bitmap' = pmm_bitmap \ freed
             /\ used_blocks' = used_blocks - Cardinality(freed)
             /\ held' = [held EXCEPT ![c] = @ \ {b}]
    /\ UNCHANGED <<found, masked>>

Next ==
    \E c \in Callers :
        \/ \E n \in Counts : Alloc(c, n) \/ Search(c, n)
        \/ Update(c)
        \/ Free(c)

Spec == Init /\ [][Next]_vars

-----------------------------------------------------------------------------
(* Properties *)

(* No bit behind the end of memory is set, the counter counts frames, and   *)
(* blocks held or found are blocks of frames.                               *)
TypeOK ==
    /\ pmm_bitmap \subseteq Frames
    /\ used_blocks \in Int
    /\ found \in [Callers -> (Frames \X Counts) \cup {None}]
    /\ held \in [Callers -> SUBSET (Frames \X Counts)]
    /\ masked \subseteq Callers

(* "used_blocks tracks the count of allocated frames": as long as every     *)
(* caller has interrupts off, the counter is the number of 1 bits through   *)
(* allocations, frees and failures.                                         *)
Accounting == masked = Callers => used_blocks = Cardinality(pmm_bitmap)

(* As long as every caller has interrupts off, a frame is given to one      *)
(* caller at a time: two blocks that are held share no frame, and every     *)
(* frame that is held is marked used.                                       *)
Exclusive ==
    masked = Callers =>
        /\ \A c, d \in Callers : \A a \in held[c], b \in held[d] :
              Block(a[1], a[2]) \cap Block(b[1], b[2]) # {} => c = d /\ a = b
        /\ \A c \in Callers : \A a \in held[c] :
              Block(a[1], a[2]) \subseteq pmm_bitmap

(* Nobody is ever given the first 2 MB (and so never address 0, which       *)
(* callers read as failure), whatever the memory map says and whoever is    *)
(* preempted where.                                                         *)
KernelReserved ==
    \A c \in Callers : \A a \in held[c] :
        Block(a[1], a[2]) \cap 0..(KernelBlocks - 1) = {}

(* As long as every caller has interrupts off, the counter test that        *)
(* pmm_alloc_blocks makes before it searches never turns down a request     *)
(* that the bitmap could satisfy.                                           *)
NoFalseOOM ==
    masked = Callers =>
        \A n \in Counts :
            used_blocks + n > TotalBlocks => FreeRuns(pmm_bitmap, n) = {}
=============================================================================
