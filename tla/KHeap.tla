-------------------------------- MODULE KHeap --------------------------------
(***************************************************************************)
(* The kernel heap (src/mm/kheap.c): slabs of one page for small sizes,     *)
(* whole pages for large ones.  Free objects of a slab are linked by        *)
(* indices that are kept in the objects themselves; kfree finds the kind of *)
(* an allocation from the magic word at the start of its page.              *)
(*                                                                          *)
(* Pages come from the physical memory manager, by its promise (the first   *)
(* fit, or NULL).  The heap takes no lock: a call is one step here, as for  *)
(* callers with interrupts off.                                             *)
(***************************************************************************)
EXTENDS PMMBitmap, FiniteSets

CONSTANTS
    PageSize,       \* SLAB_PAGE_SIZE, 4096 in the code
    SlabHeader,     \* sizeof(slab_t), 28
    LargeHeader,    \* sizeof(large_hdr_t), 8
    SlabSizes,      \* slab_sizes, the powers of 2 from 16 to 2048
    KernelBlocks,   \* frames the PMM keeps to itself
    Sizes           \* bound: the sizes callers ask for

SlabMax == CHOOSE s \in SlabSizes : \A t \in SlabSizes : t <= s

ASSUME SizesAssumption ==
    /\ PageSize \in Nat \ {0} /\ SlabHeader \in Nat \ {0} /\ LargeHeader \in Nat \ {0}
    /\ SlabSizes \subseteq Nat \ {0} /\ SlabSizes # {} /\ IsFiniteSet(SlabSizes)
    /\ \A s \in SlabSizes : SlabHeader + s <= PageSize
    /\ LargeHeader < PageSize
    /\ KernelBlocks \in 1..TotalBlocks
    /\ Sizes \subseteq Nat

END == -1       \* 0xFFFFFFFF, the end of a free list
Junk == -2      \* what a caller wrote into its object

(* Mutant: objs_per_slab without the slab header.                           *)
ObjCountNoHeader(s) == PageSize \div s

(* objs_per_slab, the smallest class that fits, and the pages of a large    *)
(* allocation.                                                              *)
ObjCount(s) == (PageSize - SlabHeader) \div s
Class(size) == CHOOSE s \in SlabSizes :
                  s >= size /\ \A t \in SlabSizes : t >= size => s <= t
Pages(size) == (size + LargeHeader + PageSize - 1) \div PageSize

MaxObjs == PageSize     \* objects are at least a byte
Objs == 0..(MaxObjs - 1)

VARIABLES
    pmm_bitmap,         \* the frames the PMM has given out, or never will
    other,              \* those of them that other code holds
    slab_list,          \* the slabs of each class
    magic,              \* first word of each page
    pages,              \* large_hdr_t.pages
    obj_size, free_count, free_head,    \* slab_t
    word,               \* first word of each object of a slab
    total_committed,
    live                \* what callers hold: <<address, size>>

slab == <<slab_list, obj_size, free_count, free_head, word>>
vars == <<pmm_bitmap, other, slab, magic, pages, total_committed, live>>

Address(page, idx, s) == page * PageSize + SlabHeader + idx * s

Init ==
    /\ pmm_bitmap = 0..(KernelBlocks - 1)
    /\ other = {}
    /\ slab_list = [s \in SlabSizes |-> {}]
    /\ magic = [p \in Frames |-> "none"]
    /\ pages = [p \in Frames |-> 0]
    /\ obj_size = [p \in Frames |-> 0]
    /\ free_count = [p \in Frames |-> 0]
    /\ free_head = [p \in Frames |-> END]
    /\ word = [p \in Frames |-> [o \in Objs |-> Junk]]
    /\ total_committed = 0
    /\ live = {}

(* The caller gets object free_head[p] of slab p, whose first word, as      *)
(* links gives it, is the next head; the caller then writes to the object.  *)
Pop(p, size, head, count, links) ==
    LET s == Class(size)
    IN  /\ free_head' = [free_head EXCEPT ![p] = links[head]]
        /\ free_count' = [free_count EXCEPT ![p] = count - 1]
        /\ word' = [word EXCEPT ![p] = [links EXCEPT ![head] = Junk]]
        /\ live' = live \cup {<<Address(p, head, s), size>>}

(* kmalloc of a small size that a slab of its class has room for.  Which    *)
(* slab, if there are several, is a matter of the order of the list.        *)
AllocFromSlab(size) ==
    /\ size \in 1..SlabMax
    /\ \E p \in slab_list[Class(size)] :
         /\ free_count[p] # 0
         /\ Pop(p, size, free_head[p], free_count[p], word[p])
    /\ UNCHANGED <<pmm_bitmap, other, slab_list, magic, pages, obj_size,
                   total_committed>>

(* The free list of a new slab: each object names the next one.             *)
FreshLinks(n) ==
    [o \in Objs |-> IF o < n - 1 THEN o + 1 ELSE IF o = n - 1 THEN END ELSE Junk]

(* kmalloc of a small size with no room in its class: slab_create, then the *)
(* first object of the new slab.                                            *)
AllocNewSlab(size) ==
    LET s == Class(size)
        p == FirstFit(pmm_bitmap, 1)
    IN  /\ size \in 1..SlabMax
        /\ \A q \in slab_list[s] : free_count[q] = 0
        /\ FreeRuns(pmm_bitmap, 1) # {}
        /\ pmm_bitmap' = pmm_bitmap \cup {p}
        /\ magic' = [magic EXCEPT ![p] = "SLAB"]
        /\ obj_size' = [obj_size EXCEPT ![p] = s]
        /\ slab_list' = [slab_list EXCEPT ![s] = @ \cup {p}]
        /\ total_committed' = total_committed + PageSize
        /\ Pop(p, size, 0, ObjCount(s), FreshLinks(ObjCount(s)))
        /\ UNCHANGED <<other, pages>>

(* kmalloc of a large size: whole pages, with a header in front.            *)
AllocLarge(size) ==
    LET n == Pages(size)
        p == FirstFit(pmm_bitmap, n)
    IN  /\ size > SlabMax
        /\ FreeRuns(pmm_bitmap, n) # {}
        /\ pmm_bitmap' = pmm_bitmap \cup Block(p, n)
        /\ magic' = [magic EXCEPT ![p] = "LARGE"]
        /\ pages' = [pages EXCEPT ![p] = n]
        /\ total_committed' = total_committed + n * PageSize
        /\ live' = live \cup {<<p * PageSize + LargeHeader, size>>}
        /\ UNCHANGED <<other, slab>>

(* kmalloc returns NULL: size 0, or the PMM has no pages.                   *)
AllocFails(size) ==
    /\ \/ size = 0
       \/ /\ size \in 1..SlabMax
          /\ \A q \in slab_list[Class(size)] : free_count[q] = 0
          /\ FreeRuns(pmm_bitmap, 1) = {}
       \/ size > SlabMax /\ FreeRuns(pmm_bitmap, Pages(size)) = {}
    /\ UNCHANGED vars

(* Mutant: the head is moved before it is stored in the object.             *)
FreeObjectSwapped(a) ==
    LET p   == a[1] \div PageSize
        idx == (a[1] - (p * PageSize + SlabHeader)) \div obj_size[p]
    IN  /\ magic[p] = "SLAB"
        /\ free_head' = [free_head EXCEPT ![p] = idx]
        /\ word' = [word EXCEPT ![p][idx] = free_head'[p]]
        /\ free_count' = [free_count EXCEPT ![p] = @ + 1]
        /\ live' = live \ {a}
        /\ UNCHANGED <<pmm_bitmap, other, slab_list, magic, pages, obj_size,
                       total_committed>>

(* kfree of a live pointer: by the magic word of the page it points into.   *)
FreeObject(a) ==
    LET p   == a[1] \div PageSize
        idx == (a[1] - (p * PageSize + SlabHeader)) \div obj_size[p]
    IN  /\ magic[p] = "SLAB"
        /\ word' = [word EXCEPT ![p][idx] = free_head[p]]
        /\ free_head' = [free_head EXCEPT ![p] = idx]
        /\ free_count' = [free_count EXCEPT ![p] = @ + 1]
        /\ live' = live \ {a}
        /\ UNCHANGED <<pmm_bitmap, other, slab_list, magic, pages, obj_size,
                       total_committed>>

(* Mutant: one page is returned, as for a slab.                             *)
FreeLargeOnePage(a) ==
    LET p == a[1] \div PageSize
    IN  /\ magic[p] = "LARGE"
        /\ pmm_bitmap' = pmm_bitmap \ {p}
        /\ total_committed' = total_committed - pages[p] * PageSize
        /\ live' = live \ {a}
        /\ UNCHANGED <<other, slab, magic, pages>>

FreeLarge(a) ==
    LET p == a[1] \div PageSize
    IN  /\ magic[p] = "LARGE"
        /\ pmm_bitmap' = pmm_bitmap \ Block(p, pages[p])
        /\ total_committed' = total_committed - pages[p] * PageSize
        /\ live' = live \ {a}
        /\ UNCHANGED <<other, slab, magic, pages>>

(* kheap_reclaim: every slab without a live object goes back to the PMM.    *)
Reclaim ==
    LET empty(s) == {p \in slab_list[s] : free_count[p] = ObjCount(obj_size[p])}
        freed    == UNION {empty(s) : s \in SlabSizes}
    IN  /\ slab_list' = [s \in SlabSizes |-> slab_list[s] \ empty(s)]
        /\ pmm_bitmap' = pmm_bitmap \ freed
        /\ total_committed' = total_committed - PageSize * Cardinality(freed)
        /\ UNCHANGED <<other, magic, pages, obj_size, free_count, free_head,
                       word, live>>

(* Other users of the PMM take a page, write to it, and give it back.       *)
OtherTake ==
    LET p == FirstFit(pmm_bitmap, 1)
    IN  /\ FreeRuns(pmm_bitmap, 1) # {}
        /\ pmm_bitmap' = pmm_bitmap \cup {p}
        /\ other' = other \cup {p}
        /\ magic' = [magic EXCEPT ![p] = "none"]
        /\ UNCHANGED <<slab, pages, total_committed, live>>

OtherGive ==
    /\ \E p \in other : /\ other' = other \ {p}
                        /\ pmm_bitmap' = pmm_bitmap \ {p}
    /\ UNCHANGED <<slab, magic, pages, total_committed, live>>

Next ==
    \/ \E size \in Sizes : \/ AllocFromSlab(size) \/ AllocNewSlab(size)
                                \/ AllocLarge(size) \/ AllocFails(size)
    \/ \E a \in live : FreeObject(a) \/ FreeLarge(a)
    \/ Reclaim
    \/ OtherTake
    \/ OtherGive

Spec == Init /\ [][Next]_vars

-----------------------------------------------------------------------------
(* Properties *)

Slabs == UNION {slab_list[s] : s \in SlabSizes}

(* The pages of a large block in use, and all of them.                      *)
LargeOf(a) == Block(a[1] \div PageSize, Pages(a[2]))
Large == {a \in live : a[2] > SlabMax}
LargePages == UNION {LargeOf(a) : a \in Large}

(* Headers and free-list links have the types kheap.c gives them.           *)
TypeOK ==
    /\ pmm_bitmap \subseteq Frames
    /\ other \subseteq pmm_bitmap
    /\ slab_list \in [SlabSizes -> SUBSET Frames]
    /\ magic \in [Frames -> {"none", "SLAB", "LARGE"}]
    /\ pages \in [Frames -> Nat]
    /\ obj_size \in [Frames -> SlabSizes \cup {0}]
    /\ free_count \in [Frames -> Nat]
    /\ free_head \in [Frames -> Objs \cup {END}]
    /\ word \in [Frames -> [Objs -> Objs \cup {END, Junk}]]
    /\ total_committed \in Nat
    /\ live \subseteq Nat \X (Sizes \ {0})

(* The objects on the free list of slab p: the least set that holds the     *)
(* head and is closed under the links.                                      *)
FreeObjs(p) ==
    LET n      == ObjCount(obj_size[p])
        Closed == {S \in SUBSET (0..(n - 1)) :
                     /\ free_head[p] \in S \cup {END}
                     /\ \A o \in S : word[p][o] \in S \cup {END}}
    IN  {o \in 0..(n - 1) : \A S \in Closed : o \in S}

LiveObjs(p) ==
    {o \in 0..(ObjCount(obj_size[p]) - 1) :
        \E a \in live : a[1] = Address(p, o, obj_size[p])}

(* The free list of a slab holds exactly the objects that nobody holds and  *)
(* free_count counts them: kmalloc never hands out an object twice and      *)
(* never follows the end mark, and no object is lost.                       *)
FreeListExact ==
    \A p \in Slabs :
        /\ FreeObjs(p) = (0..(ObjCount(obj_size[p]) - 1)) \ LiveObjs(p)
        /\ free_count[p] = Cardinality(FreeObjs(p))
        /\ free_count[p] = 0 <=> free_head[p] = END

(* The bytes of two allocations are apart, and an allocation lies between   *)
(* the header of its page and the end of the pages that kfree gives back:   *)
(* no caller can reach a header, a free list or another caller's bytes.     *)
NoOverlap ==
    /\ \A a, b \in live : a # b => a[1] + a[2] <= b[1] \/ b[1] + b[2] <= a[1]
    /\ \A a \in live :
          LET off   == a[1] % PageSize
              large == a[2] > SlabMax
              size  == IF large THEN pages[a[1] \div PageSize] * PageSize ELSE PageSize
          IN  /\ off >= IF large THEN LargeHeader ELSE SlabHeader
              /\ off + a[2] <= size

(* The heap and the PMM agree on who has which page: what is marked used is *)
(* reserved, a slab of one class, part of one large block, or another       *)
(* user's, and never two of these; nothing leaks, reclaiming included.      *)
PagesOwned ==
    /\ pmm_bitmap = (0..(KernelBlocks - 1)) \cup other \cup Slabs \cup LargePages
    /\ other \cap Slabs = {} /\ other \cap LargePages = {} /\ Slabs \cap LargePages = {}
    /\ \A s, t \in SlabSizes : s # t => slab_list[s] \cap slab_list[t] = {}
    /\ \A a, b \in Large : a # b => LargeOf(a) \cap LargeOf(b) = {}

=============================================================================
