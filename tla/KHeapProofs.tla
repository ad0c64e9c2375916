---------------------------- MODULE KHeapProofs ----------------------------
(***************************************************************************)
(* The kernel heap, for every size of memory, page, header and class and    *)
(* every sequence of kmalloc, kfree and kheap_reclaim: free lists are exact *)
(* (FreeListExact), allocations are apart (NoOverlap), pages have one owner *)
(* (PagesOwned), and total_committed counts the pages of the heap.          *)
(***************************************************************************)
EXTENDS KHeap, FiniteSetTheorems, WellFoundedInduction, TLAPS

-----------------------------------------------------------------------------
(* Arithmetic of addresses *)

LEMMA DivBounds ==
    ASSUME NEW a \in Nat, NEW s \in Nat \ {0}
    PROVE  /\ a \div s \in Nat
           /\ (a \div s) * s <= a
           /\ a < (a \div s) * s + s
  OBVIOUS

LEMMA DivUnique ==
    ASSUME NEW q \in Nat, NEW r \in Nat, NEW s \in Nat \ {0}, r < s
    PROVE  (q * s + r) \div s = q /\ (q * s + r) % s = r
  OBVIOUS

LEMMA MulStep ==
    ASSUME NEW i \in Int, NEW j \in Int, i < j, NEW s \in Nat
    PROVE  i * s + s <= j * s
  OBVIOUS

LEMMA MulNat ==
    ASSUME NEW i \in Nat, NEW s \in Nat
    PROVE  i * s \in Nat
  OBVIOUS

(* Every non-empty set of naturals has a least element.                     *)
LEMMA LeastNat ==
    ASSUME NEW S \in SUBSET Nat, S # {}
    PROVE  \E n \in S : \A m \in S : n <= m
  <1> DEFINE R == OpToRel(<, Nat)
  <1>1. IsWellFoundedOn(R, Nat)
    BY NatLessThanWellFounded, Zenon
  <1>2. PICK n \in S : \A m \in S : ~(<<m, n>> \in R)
    <2> HIDE DEF R
    <2> QED
      BY <1>1, WFMin, Zenon
  <1>3. \A m \in S : ~(m < n)
    BY <1>2, Zenon DEF OpToRel
  <1> QED
    BY <1>3

LEMMA FirstFitIsRun ==
    ASSUME NEW B, NEW n, FreeRuns(B, n) # {}
    PROVE  FirstFit(B, n) \in FreeRuns(B, n)
  <1>1. FreeRuns(B, n) \in SUBSET Nat
    BY TotalBlocksAssumption DEF FreeRuns, Frames
  <1>2. \E f \in FreeRuns(B, n) : \A g \in FreeRuns(B, n) : f <= g
    BY <1>1, LeastNat
  <1> QED
    BY <1>2 DEF FirstFit

(* The classes have a largest one, and every smaller size has a class.      *)
LEMMA SlabMaxType ==
    SlabMax \in SlabSizes /\ \A s \in SlabSizes : s <= SlabMax
  <1> DEFINE D == {PageSize - s : s \in SlabSizes}
  <1>0. /\ PageSize \in Nat /\ SlabHeader \in Nat /\ SlabSizes # {}
        /\ \A s \in SlabSizes : s \in Nat /\ s <= PageSize
    BY SizesAssumption
  <1>1. D \in SUBSET Nat /\ D # {}
    BY <1>0
  <1>2. PICK d \in D : \A e \in D : d <= e
    BY <1>1, LeastNat, Zenon
  <1>3. PICK t \in SlabSizes : d = PageSize - t
    OBVIOUS
  <1>4. ASSUME NEW s \in SlabSizes
        PROVE  s <= t
    <2>1. PageSize - s \in D
      OBVIOUS
    <2>2. PageSize - t <= PageSize - s
      BY <1>2, <1>3, <2>1
    <2> QED
      BY <1>0, <2>2
  <1> QED
    BY <1>4 DEF SlabMax

LEMMA ClassType ==
    ASSUME NEW size \in 1..SlabMax
    PROVE  Class(size) \in SlabSizes /\ Class(size) >= size
  <1> DEFINE T == {s \in SlabSizes : s >= size}
  <1>0. SlabMax \in SlabSizes /\ SlabMax >= size /\ SlabSizes \subseteq Nat
    BY SlabMaxType, SizesAssumption
  <1>1. T \in SUBSET Nat /\ T # {}
    BY <1>0, Zenon
  <1>2. \E s \in T : \A t \in T : s <= t
    BY <1>1, LeastNat, Zenon
  <1>3. \E s \in SlabSizes : s >= size /\ \A t \in SlabSizes : t >= size => s <= t
    BY <1>2
  <1> QED
    BY <1>3 DEF Class

(* The objects of a slab fit in its page, behind the header.                *)
LEMMA ObjCountType ==
    ASSUME NEW s \in SlabSizes
    PROVE  /\ s \in Nat \ {0}
           /\ ObjCount(s) \in Nat \ {0}
           /\ SlabHeader + ObjCount(s) * s <= PageSize
           /\ ObjCount(s) <= MaxObjs
           /\ 0..(ObjCount(s) - 1) \subseteq Objs
  <1>0. /\ s \in Nat \ {0} /\ PageSize \in Nat /\ SlabHeader \in Nat
        /\ PageSize - SlabHeader \in Nat /\ PageSize - SlabHeader >= s
    BY SizesAssumption
  <1> DEFINE a == PageSize - SlabHeader
             n == a \div s
  <1>1. n \in Nat /\ n * s <= a /\ a < n * s + s
    BY <1>0, DivBounds
  <1>2. n # 0
    BY <1>0, <1>1
  <1>3. n <= n * s
    BY <1>0, <1>1
  <1> HIDE DEF n
  <1>4. SlabHeader + n * s <= PageSize /\ n <= PageSize
    BY <1>0, <1>1, <1>3
  <1>5. ObjCount(s) = n
    BY DEF ObjCount, n
  <1> QED
    BY <1>0, <1>1, <1>2, <1>4, <1>5 DEF Objs, MaxObjs

(* kfree gets back the page and the index of an object from its address.    *)
LEMMA AddressOfObject ==
    ASSUME NEW s \in SlabSizes, NEW p \in Nat, NEW o \in 0..(ObjCount(s) - 1)
    PROVE  /\ Address(p, o, s) \in Nat
           /\ Address(p, o, s) \div PageSize = p
           /\ Address(p, o, s) % PageSize = SlabHeader + o * s
           /\ SlabHeader + o * s + s <= PageSize
           /\ (Address(p, o, s) - (p * PageSize + SlabHeader)) \div s = o
           /\ p * PageSize + SlabHeader <= Address(p, o, s)
           /\ Address(p, o, s) + s <= p * PageSize + PageSize
  <1>0. /\ s \in Nat \ {0} /\ PageSize \in Nat \ {0} /\ SlabHeader \in Nat
        /\ ObjCount(s) \in Nat /\ SlabHeader + ObjCount(s) * s <= PageSize
        /\ o \in Nat /\ o < ObjCount(s)
    BY SizesAssumption, ObjCountType
  <1>1. o * s + s <= ObjCount(s) * s /\ o * s \in Nat
    BY <1>0, MulStep, MulNat
  <1>2. ObjCount(s) * s \in Nat /\ p * PageSize \in Nat
    BY <1>0, MulNat
  <1> DEFINE r == SlabHeader + o * s
  <1>3. r \in Nat /\ r + s <= PageSize /\ r < PageSize
    BY <1>0, <1>1, <1>2
  <1>4. (p * PageSize + r) \div PageSize = p /\ (p * PageSize + r) % PageSize = r
    BY <1>0, <1>3, DivUnique, Zenon
  <1>5. (o * s + 0) \div s = o
    BY <1>0, DivUnique
  <1>6. Address(p, o, s) = p * PageSize + r
    BY <1>0, <1>1, <1>2 DEF Address
  <1>7. Address(p, o, s) - (p * PageSize + SlabHeader) = o * s + 0
    BY <1>0, <1>1, <1>2 DEF Address
  <1> QED
    BY <1>0, <1>1, <1>2, <1>3, <1>4, <1>5, <1>6, <1>7

(* The same for a large block, whose pages hold its header and its bytes.   *)
LEMMA AddressOfLarge ==
    ASSUME NEW p \in Nat, NEW size \in Nat
    PROVE  /\ p * PageSize + LargeHeader \in Nat
           /\ (p * PageSize + LargeHeader) \div PageSize = p
           /\ (p * PageSize + LargeHeader) % PageSize = LargeHeader
           /\ Pages(size) \in Nat \ {0}
           /\ LargeHeader + size <= Pages(size) * PageSize
           /\ (p + Pages(size)) * PageSize = p * PageSize + Pages(size) * PageSize
  <1>0. PageSize \in Nat \ {0} /\ LargeHeader \in Nat \ {0} /\ LargeHeader < PageSize
    BY SizesAssumption
  <1>1. p * PageSize \in Nat
    BY <1>0, MulNat
  <1>2. /\ (p * PageSize + LargeHeader) \div PageSize = p
        /\ (p * PageSize + LargeHeader) % PageSize = LargeHeader
    BY <1>0, DivUnique
  <1> DEFINE a == size + LargeHeader + PageSize - 1
             n == a \div PageSize
  <1>3. a \in Nat
    BY <1>0
  <1>4. n \in Nat /\ a < n * PageSize + PageSize
    BY <1>0, <1>3, DivBounds
  <1>5. n \in Nat /\ n * PageSize \in Nat
    BY <1>0, <1>4, MulNat
  <1> HIDE DEF n
  <1>6. LargeHeader + size <= n * PageSize
    BY <1>0, <1>4, <1>5
  <1>7. n # 0
    BY <1>0, <1>6
  <1>8. (p + n) * PageSize = p * PageSize + n * PageSize
    BY <1>0, <1>5
  <1>9. Pages(size) = n
    BY DEF Pages, n
  <1> QED
    BY <1>0, <1>1, <1>2, <1>5, <1>6, <1>7, <1>8, <1>9

-----------------------------------------------------------------------------
(* Free lists *)

(* What a walk from head along links meets in a slab of n objects.          *)
Reach(head, links, n) ==
    LET Closed == {S \in SUBSET (0..(n - 1)) :
                     /\ head \in S \cup {END}
                     /\ \A o \in S : links[o] \in S \cup {END}}
    IN  {o \in 0..(n - 1) : \A S \in Closed : o \in S}

(* The walk meets F, once each: it stays in F, no two objects of F have the *)
(* same successor, and none leads back to the head.                         *)
FreeList(head, links, n, F) ==
    /\ F = Reach(head, links, n)
    /\ F \subseteq 0..(n - 1)
    /\ head \in F \cup {END}
    /\ \A o \in F : links[o] \in F \cup {END}
    /\ \A o, q \in F : links[o] = links[q] /\ links[o] # END => o = q
    /\ head # END => \A o \in F : links[o] # head

(* The induction principle of the walk.                                     *)
LEMMA ReachLeast ==
    ASSUME NEW head, NEW links, NEW n, NEW S \in SUBSET (0..(n - 1)),
           head \in S \cup {END},
           \A o \in S : links[o] \in S \cup {END}
    PROVE  Reach(head, links, n) \subseteq S
  BY DEF Reach

(* To show that F is what the walk meets.                                   *)
LEMMA ReachExact ==
    ASSUME NEW head, NEW links, NEW n, NEW F \in SUBSET (0..(n - 1)),
           head \in F \cup {END},
           \A o \in F : links[o] \in F \cup {END},
           \A S \in SUBSET (0..(n - 1)) :
              (/\ head \in S \cup {END}
               /\ \A o \in S : links[o] \in S \cup {END}) => F \subseteq S
    PROVE  F = Reach(head, links, n)
  <1>1. Reach(head, links, n) \subseteq F
    BY ReachLeast
  <1>2. F \subseteq Reach(head, links, n)
    BY DEF Reach
  <1> QED
    BY <1>1, <1>2, Zenon

(* kmalloc takes the head off.                                              *)
LEMMA PopList ==
    ASSUME NEW n \in Nat, n <= MaxObjs, NEW links \in [Objs -> Objs \cup {END, Junk}],
           NEW head, head # END, NEW F, FreeList(head, links, n, F)
    PROVE  FreeList(links[head], [links EXCEPT ![head] = Junk], n, F \ {head})
  <1> DEFINE L == [links EXCEPT ![head] = Junk]
             G == F \ {head}
  <1>0. F \subseteq Objs /\ head \in F
    BY SizesAssumption DEF FreeList, Objs, MaxObjs
  <1>1. L[head] = Junk /\ \A o \in F : o # head => L[o] = links[o]
    BY <1>0
  <1>2. G \in SUBSET (0..(n - 1)) /\ head \in 0..(n - 1)
    BY <1>0 DEF FreeList
  <1>3. links[head] \in G \cup {END}
    BY <1>0 DEF FreeList
  <1>4. \A o \in G : L[o] \in G \cup {END}
    BY <1>0, <1>1 DEF FreeList
  <1>5. ASSUME NEW S \in SUBSET (0..(n - 1)),
               links[head] \in S \cup {END},
               \A o \in S : L[o] \in S \cup {END}
        PROVE  G \subseteq S
    <2> DEFINE T == S \cup {head}
    <2>1. T \in SUBSET (0..(n - 1)) /\ head \in T \cup {END}
      BY <1>2
    <2>2. \A o \in T : links[o] \in T \cup {END}
      <3>1. \A o \in S : o # head => L[o] = links[o]
        <4>1. S \subseteq Objs
          BY SizesAssumption DEF Objs, MaxObjs
        <4> QED
          BY <4>1
      <3> QED
        BY <1>5, <3>1
    <2> HIDE DEF T
    <2>3. F \subseteq T
      BY <2>1, <2>2, ReachLeast DEF FreeList
    <2> QED
      BY <2>3, Zenon DEF T
  <1>6. \A o, q \in G : L[o] = L[q] /\ L[o] # END => o = q
    BY <1>0, <1>1 DEF FreeList
  <1>7. links[head] # END => \A o \in G : L[o] # links[head]
    BY <1>0, <1>1 DEF FreeList
  <1> HIDE DEF L, G
  <1>8. G = Reach(links[head], L, n)
    BY <1>2, <1>3, <1>4, <1>5, ReachExact, Zenon
  <1>9. FreeList(links[head], L, n, G)
    BY <1>2, <1>3, <1>4, <1>6, <1>7, <1>8 DEF FreeList
  <1> QED
    BY <1>9 DEF L, G

(* kfree puts an object that is not on the list in front.                   *)
LEMMA PushList ==
    ASSUME NEW n \in Nat, n <= MaxObjs, NEW links \in [Objs -> Objs \cup {END, Junk}],
           NEW head, NEW F, FreeList(head, links, n, F), NEW i \in (0..(n - 1)) \ F
    PROVE  FreeList(i, [links EXCEPT ![i] = head], n, F \cup {i})
  <1> DEFINE L == [links EXCEPT ![i] = head]
             G == F \cup {i}
  <1>0. F \subseteq Objs /\ i \in Objs /\ i # END
    BY SizesAssumption DEF FreeList, Objs, MaxObjs, END
  <1>1. L[i] = head /\ \A o \in F : L[o] = links[o]
    BY <1>0
  <1>2. G \in SUBSET (0..(n - 1)) /\ i \in G \cup {END}
    BY DEF FreeList
  <1>3. \A o \in G : L[o] \in G \cup {END}
    BY <1>1 DEF FreeList
  <1>4. ASSUME NEW S \in SUBSET (0..(n - 1)),
               i \in S \cup {END},
               \A o \in S : L[o] \in S \cup {END}
        PROVE  G \subseteq S
    <2> DEFINE T == S \cap F
    <2>1. i \in S /\ head \in S \cup {END}
      BY <1>0, <1>1, <1>4
    <2>2. T \in SUBSET (0..(n - 1)) /\ head \in T \cup {END}
      BY <2>1 DEF FreeList
    <2>3. \A o \in T : links[o] \in T \cup {END}
      BY <1>1, <1>4 DEF FreeList
    <2> HIDE DEF T
    <2>4. F \subseteq T
      BY <2>2, <2>3, ReachLeast DEF FreeList
    <2> QED
      BY <2>1, <2>4 DEF T
  <1>5. \A o, q \in G : L[o] = L[q] /\ L[o] # END => o = q
    BY <1>1 DEF FreeList
  <1>6. \A o \in G : L[o] # i
    BY <1>0, <1>1 DEF FreeList
  <1> HIDE DEF L, G
  <1>7. G = Reach(i, L, n)
    BY <1>2, <1>3, <1>4, ReachExact
  <1>8. FreeList(i, L, n, G)
    BY <1>2, <1>3, <1>5, <1>6, <1>7 DEF FreeList
  <1> QED
    BY <1>8 DEF L, G

(* slab_create links all objects of a new slab.                             *)
LEMMA FreshList ==
    ASSUME NEW n \in Nat \ {0}, n <= MaxObjs
    PROVE  /\ FreshLinks(n) \in [Objs -> Objs \cup {END, Junk}]
           /\ FreeList(0, FreshLinks(n), n, 0..(n - 1))
  <1> DEFINE L == FreshLinks(n)
             F == 0..(n - 1)
  <1>0. F \subseteq Objs /\ MaxObjs \in Nat
    BY SizesAssumption DEF Objs, MaxObjs
  <1>1. /\ L \in [Objs -> Objs \cup {END, Junk}]
        /\ \A o \in F : L[o] = IF o < n - 1 THEN o + 1 ELSE END
    BY <1>0 DEF FreshLinks, Objs
  <1>2. F \in SUBSET (0..(n - 1)) /\ 0 \in F
    OBVIOUS
  <1>3. \A o \in F : L[o] \in F \cup {END}
    BY <1>1
  <1>4. ASSUME NEW S \in SUBSET (0..(n - 1)),
               0 \in S \cup {END},
               \A o \in S : L[o] \in S \cup {END}
        PROVE  F \subseteq S
    <2> SUFFICES ASSUME F \ S # {}
                 PROVE  FALSE
      OBVIOUS
    <2>1. F \ S \in SUBSET Nat
      OBVIOUS
    <2>2. PICK m \in F \ S : \A k \in F \ S : m <= k
      BY <2>1, LeastNat, Zenon
    <2>3. 0 \in S /\ m # 0
      BY <1>4 DEF END
    <2>4. m - 1 \in S
      BY <2>2, <2>3
    <2>5. L[m - 1] = m
      BY <1>1, <2>3, <2>4
    <2>6. m \in S \cup {END} /\ m # END
      BY <1>4, <2>4, <2>5 DEF END
    <2> QED
      BY <2>2, <2>6
  <1>5. \A o, q \in F : L[o] = L[q] /\ L[o] # END => o = q
    BY <1>1
  <1>6. \A o \in F : L[o] # 0
    BY <1>1 DEF END
  <1> HIDE DEF L, F
  <1>7. F = Reach(0, L, n)
    BY <1>2, <1>3, <1>4, ReachExact
  <1>8. FreeList(0, L, n, F)
    BY <1>2, <1>3, <1>5, <1>6, <1>7 DEF FreeList
  <1> QED
    BY <1>1, <1>8 DEF L, F

-----------------------------------------------------------------------------
(* The inductive invariant *)

Kernel == 0..(KernelBlocks - 1)

(* The objects of slab p of class s that someone of L holds.                *)
LiveIn(p, s, L) ==
    {o \in 0..(ObjCount(s) - 1) : \E a \in L : a[1] = Address(p, o, s)}

FreeIn(p, s, L) == (0..(ObjCount(s) - 1)) \ LiveIn(p, s, L)

HeapType ==
    /\ pmm_bitmap \subseteq Frames
    /\ slab_list \in [SlabSizes -> SUBSET Frames]
    /\ magic \in [Frames -> {"none", "SLAB", "LARGE"}]
    /\ pages \in [Frames -> Nat]
    /\ obj_size \in [Frames -> SlabSizes \cup {0}]
    /\ free_count \in [Frames -> Nat]
    /\ free_head \in [Frames -> Objs \cup {END}]
    /\ word \in [Frames -> [Objs -> Objs \cup {END, Junk}]]
    /\ live \subseteq Nat \X (Sizes \ {0})

(* Nothing the heap or another user holds is the kernel's.                  *)
KernelKept == Kernel \cap (other \cup Slabs \cup LargePages) = {}

(* A slab says so in its header, and its free list is what nobody holds.    *)
SlabsExact ==
    \A s \in SlabSizes : \A p \in slab_list[s] :
        /\ magic[p] = "SLAB"
        /\ obj_size[p] = s
        /\ FreeList(free_head[p], word[p], ObjCount(s), FreeIn(p, s, live))
        /\ free_count[p] = Cardinality(FreeIn(p, s, live))

(* What callers hold are objects of slabs of the right class and large      *)
(* blocks whose header says how many pages they have.                       *)
Small == {a \in live : a[2] <= SlabMax}

SmallExact ==
    \A a \in Small :
        \E p \in slab_list[Class(a[2])], o \in 0..(ObjCount(Class(a[2])) - 1) :
            a[1] = Address(p, o, Class(a[2]))

LargeExact ==
    \A a \in Large :
        \E p \in Frames : /\ a[1] = p * PageSize + LargeHeader
                          /\ magic[p] = "LARGE"
                          /\ pages[p] = Pages(a[2])
                          /\ p + Pages(a[2]) <= TotalBlocks

AddressesDiffer == \A a, b \in live : a[1] = b[1] => a = b

(* total_committed, in bytes, counts the pages of slabs and large blocks.   *)
CommittedExact == total_committed = PageSize * Cardinality(Slabs \cup LargePages)

HeapInv ==
    /\ HeapType
    /\ PagesOwned
    /\ KernelKept
    /\ SlabsExact
    /\ SmallExact
    /\ LargeExact
    /\ AddressesDiffer
    /\ CommittedExact

-----------------------------------------------------------------------------
(* What the invariant says about pages and lists *)

LEMMA ConstantTypes ==
    /\ PageSize \in Nat \ {0} /\ SlabHeader \in Nat \ {0} /\ LargeHeader \in Nat \ {0}
    /\ TotalBlocks \in Nat \ {0} /\ KernelBlocks \in 1..TotalBlocks
    /\ Frames \subseteq Nat /\ Kernel \subseteq Frames /\ SlabSizes \subseteq Nat \ {0}
    /\ SlabMax \in Nat /\ Sizes \subseteq Nat
  BY SizesAssumption, TotalBlocksAssumption, SlabMaxType DEF Frames, Kernel

LEMMA EmptyList ==
    ASSUME NEW links, NEW n, NEW F, FreeList(END, links, n, F)
    PROVE  F = {}
  <1> DEFINE S == {}
  <1>0. S \in SUBSET (0..(n - 1)) /\ END \in S \cup {END} /\ \A o \in S : links[o] \in S
    OBVIOUS
  <1>1. Reach(END, links, n) \subseteq S
    <2> HIDE DEF S
    <2> QED
      BY <1>0, ReachLeast, Zenon
  <1> QED
    BY <1>1 DEF FreeList

LEMMA FreeInFinite ==
    ASSUME NEW s \in SlabSizes, NEW p, NEW L
    PROVE  IsFiniteSet(FreeIn(p, s, L)) /\ Cardinality(FreeIn(p, s, L)) \in Nat
  <1>1. IsFiniteSet(0..(ObjCount(s) - 1))
    BY ObjCountType, FS_Interval
  <1>2. FreeIn(p, s, L) \in SUBSET (0..(ObjCount(s) - 1))
    BY DEF FreeIn
  <1> QED
    BY <1>1, <1>2, FS_Subset, FS_CardinalityType, Zenon

(* Handing out object h of slab p, and taking it back.                      *)
LEMMA FreeInAdd ==
    ASSUME NEW s \in SlabSizes, NEW p \in Nat, NEW h \in 0..(ObjCount(s) - 1),
           NEW L, NEW a, a[1] = Address(p, h, s)
    PROVE  FreeIn(p, s, L \cup {a}) = FreeIn(p, s, L) \ {h}
  <1>1. \A o \in 0..(ObjCount(s) - 1) : Address(p, o, s) = Address(p, h, s) => o = h
    BY AddressOfObject
  <1> QED
    BY <1>1 DEF FreeIn, LiveIn

LEMMA FreeInRemove ==
    ASSUME NEW s \in SlabSizes, NEW p \in Nat, NEW h \in 0..(ObjCount(s) - 1),
           NEW L, NEW a \in L, a[1] = Address(p, h, s),
           \A b \in L : b[1] = a[1] => b = a
    PROVE  /\ FreeIn(p, s, L \ {a}) = FreeIn(p, s, L) \cup {h}
           /\ h \notin FreeIn(p, s, L)
  <1>1. \A o \in 0..(ObjCount(s) - 1) : Address(p, o, s) = Address(p, h, s) => o = h
    BY AddressOfObject
  <1> QED
    BY <1>1 DEF FreeIn, LiveIn

(* An allocation in another page makes no difference.                       *)
LEMMA FreeInOther ==
    ASSUME NEW s \in SlabSizes, NEW p \in Nat, NEW L, NEW a, a[1] \div PageSize # p
    PROVE  /\ FreeIn(p, s, L \cup {a}) = FreeIn(p, s, L)
           /\ FreeIn(p, s, L \ {a}) = FreeIn(p, s, L)
  <1>1. \A o \in 0..(ObjCount(s) - 1) : a[1] # Address(p, o, s)
    BY AddressOfObject
  <1> QED
    BY <1>1 DEF FreeIn, LiveIn

LEMMA FreeInNone ==
    ASSUME NEW s \in SlabSizes, NEW p \in Nat, NEW L, \A a \in L : a[1] \div PageSize # p
    PROVE  FreeIn(p, s, L) = 0..(ObjCount(s) - 1)
  <1>1. \A a \in L : \A o \in 0..(ObjCount(s) - 1) : a[1] # Address(p, o, s)
    BY AddressOfObject
  <1> QED
    BY <1>1 DEF FreeIn, LiveIn

LEMMA InSlabs == \A p : p \in Slabs <=> \E s \in SlabSizes : p \in slab_list[s]
  BY DEF Slabs

LEMMA LiveKinds ==
    ASSUME HeapType
    PROVE  /\ live = Small \cup Large /\ Small \cap Large = {}
           /\ \A a \in live : a[1] \in Nat /\ a[2] \in Nat \ {0}
           /\ \A a \in Small : a[2] \in 1..SlabMax
  <1>1. \A a \in live : a[1] \in Nat /\ a[2] \in Nat \ {0}
    BY ConstantTypes, Zenon DEF HeapType
  <1>2. \A a \in live : a[2] <= SlabMax <=> ~(a[2] > SlabMax)
    BY <1>1, ConstantTypes
  <1>3. live = Small \cup Large /\ Small \cap Large = {}
    BY <1>2 DEF Small, Large
  <1>4. \A a \in Small : a[2] \in 1..SlabMax
    BY <1>1, ConstantTypes DEF Small
  <1> QED
    BY <1>1, <1>3, <1>4

(* A small allocation lies in a slab of its class.                          *)
LEMMA SmallAt ==
    ASSUME HeapType, SmallExact, NEW a \in Small
    PROVE  /\ Class(a[2]) \in SlabSizes /\ a[2] <= Class(a[2])
           /\ a[1] \div PageSize \in slab_list[Class(a[2])]
           /\ a[1] \div PageSize \in Slabs
           /\ \E o \in 0..(ObjCount(Class(a[2])) - 1) :
                 a[1] = Address(a[1] \div PageSize, o, Class(a[2]))
  <1>1. Class(a[2]) \in SlabSizes /\ a[2] <= Class(a[2])
    BY LiveKinds, ClassType, ConstantTypes
  <1>2. PICK p \in slab_list[Class(a[2])], o \in 0..(ObjCount(Class(a[2])) - 1) :
            a[1] = Address(p, o, Class(a[2]))
    BY DEF SmallExact
  <1>3. p \in Nat
    BY <1>1, ConstantTypes, Zenon DEF HeapType
  <1>4. a[1] \div PageSize = p
    BY <1>1, <1>2, <1>3, AddressOfObject
  <1> QED
    BY <1>1, <1>2, <1>4, InSlabs

(* A large one starts in the first of its pages, behind the header.         *)
LEMMA LargeAt ==
    ASSUME HeapType, LargeExact, NEW a \in Large
    PROVE  LET p == a[1] \div PageSize
           IN  /\ p \in Frames /\ a[1] = p * PageSize + LargeHeader
               /\ magic[p] = "LARGE" /\ pages[p] = Pages(a[2])
               /\ Pages(a[2]) \in Nat \ {0} /\ p + Pages(a[2]) <= TotalBlocks
               /\ LargeOf(a) = Block(p, Pages(a[2]))
               /\ p \in LargeOf(a) /\ LargeOf(a) \subseteq LargePages
               /\ LargeOf(a) \subseteq Frames
  <1>1. PICK p \in Frames : /\ a[1] = p * PageSize + LargeHeader
                            /\ magic[p] = "LARGE"
                            /\ pages[p] = Pages(a[2])
                            /\ p + Pages(a[2]) <= TotalBlocks
    BY DEF LargeExact
  <1>2. p \in Nat /\ a[2] \in Nat
    BY ConstantTypes, LiveKinds
  <1>3. a[1] \div PageSize = p /\ Pages(a[2]) \in Nat \ {0}
    BY <1>1, <1>2, AddressOfLarge, Zenon
  <1>4. LargeOf(a) = Block(p, Pages(a[2])) /\ LargeOf(a) \subseteq LargePages
    BY <1>3 DEF LargeOf, LargePages
  <1>5. p \in Block(p, Pages(a[2])) /\ Block(p, Pages(a[2])) \subseteq Frames
    BY <1>1, <1>2, <1>3, ConstantTypes DEF Block, Frames
  <1> QED
    BY <1>1, <1>3, <1>4, <1>5

(* No live allocation is in a page that the PMM counts as free, or that is  *)
(* another user's.                                                          *)
LEMMA LivePages ==
    ASSUME HeapInv
    PROVE  \A a \in live : /\ a[1] \div PageSize \in pmm_bitmap
                           /\ a[1] \div PageSize \in Slabs \cup LargePages
  <1> USE DEF HeapInv
  <1>1. \A a \in Small : a[1] \div PageSize \in Slabs
    BY SmallAt
  <1>2. \A a \in Large : a[1] \div PageSize \in LargePages
    BY LargeAt
  <1> QED
    BY <1>1, <1>2, LiveKinds DEF PagesOwned

(* The page of a live allocation tells its kind.                            *)
LEMMA KindOfPage ==
    ASSUME HeapInv, NEW a \in live
    PROVE  /\ a \in Small => magic[a[1] \div PageSize] = "SLAB"
           /\ a \in Large => magic[a[1] \div PageSize] = "LARGE"
  BY SmallAt, LargeAt DEF HeapInv, SlabsExact

LEMMA HeapInit == Init => HeapInv
  <1> SUFFICES ASSUME Init PROVE HeapInv
    OBVIOUS
  <1>1. HeapType
    BY ConstantTypes DEF Init, HeapType, Objs, Frames, Kernel
  <1>2. Slabs = {} /\ LargePages = {} /\ Large = {}
    BY DEF Init, Slabs, LargePages, Large
  <1>3. PagesOwned
    BY <1>2 DEF Init, PagesOwned
  <1>4. CommittedExact
    BY <1>2, FS_EmptySet, ConstantTypes DEF Init, CommittedExact
  <1> QED
    BY <1>1, <1>2, <1>3, <1>4
    DEF Init, HeapInv, KernelKept, SlabsExact, SmallExact, LargeExact, AddressesDiffer,
        Small

-----------------------------------------------------------------------------
(* Every step preserves it *)

(* kmalloc's last lines: the head of a slab's free list goes to the caller. *)
LEMMA PopStep ==
    ASSUME HeapInv, NEW size \in Sizes, size \in 1..SlabMax,
           NEW p \in Frames, NEW s, s = Class(size),
           NEW links \in [Objs -> Objs \cup {END, Junk}], NEW head, head # END,
           FreeList(head, links, ObjCount(s), FreeIn(p, s, live)),
           Pop(p, size, head, Cardinality(FreeIn(p, s, live)), links)
    PROVE  /\ free_count' \in [Frames -> Nat]
           /\ free_head' \in [Frames -> Objs \cup {END}]
           /\ word' \in [Frames -> [Objs -> Objs \cup {END, Junk}]]
           /\ live' \subseteq Nat \X (Sizes \ {0})
           /\ FreeList(free_head'[p], word'[p], ObjCount(s), FreeIn(p, s, live'))
           /\ free_count'[p] = Cardinality(FreeIn(p, s, live'))
           /\ \A t \in SlabSizes : \A q \in slab_list[t] : q # p =>
                 /\ FreeList(free_head'[q], word'[q], ObjCount(t), FreeIn(q, t, live'))
                 /\ free_count'[q] = Cardinality(FreeIn(q, t, live'))
           /\ head \in 0..(ObjCount(s) - 1)
           /\ Small' = Small \cup {<<Address(p, head, s), size>>}
           /\ Large' = Large
           /\ LargePages' = LargePages
           /\ AddressesDiffer'
  <1> DEFINE F == FreeIn(p, s, live)
             a == <<Address(p, head, s), size>>
  <1> USE DEF HeapInv
  <1>0. /\ s \in SlabSizes /\ p \in Nat
        /\ size \in Nat \ {0} /\ ObjCount(s) \in Nat /\ ObjCount(s) <= MaxObjs
        /\ 0..(ObjCount(s) - 1) \subseteq Objs
    <2>1. s \in SlabSizes
      BY ClassType
    <2> QED
      BY <2>1, ObjCountType, ConstantTypes
  <1>1. head \in F /\ head \in 0..(ObjCount(s) - 1) /\ head \in Objs
        /\ links[head] \in Objs \cup {END}
    BY <1>0 DEF FreeList
  <1>2. /\ free_head' = [free_head EXCEPT ![p] = links[head]]
        /\ free_count' = [free_count EXCEPT ![p] = Cardinality(F) - 1]
        /\ word' = [word EXCEPT ![p] = [links EXCEPT ![head] = Junk]]
        /\ live' = live \cup {a}
    BY DEF Pop
  <1>3. IsFiniteSet(F) /\ Cardinality(F) \in Nat /\ Cardinality(F \ {head}) = Cardinality(F) - 1
        /\ Cardinality(F \ {head}) \in Nat
    BY <1>0, <1>1, FreeInFinite, FS_RemoveElement, FS_CardinalityType
  <1>4. a[1] = Address(p, head, s) /\ a[1] \in Nat /\ a[1] \div PageSize = p
    BY <1>0, <1>1, AddressOfObject
  <1>5. /\ free_head'[p] = links[head] /\ free_count'[p] = Cardinality(F) - 1
        /\ word'[p] = [links EXCEPT ![head] = Junk]
        /\ \A q \in Frames : q # p => /\ free_head'[q] = free_head[q]
                                      /\ free_count'[q] = free_count[q]
                                      /\ word'[q] = word[q]
    BY <1>2 DEF HeapType
  <1>6. free_count' \in [Frames -> Nat]
    BY <1>2, <1>3 DEF HeapType
  <1>7. free_head' \in [Frames -> Objs \cup {END}]
    BY <1>1, <1>2 DEF HeapType
  <1>8. word' \in [Frames -> [Objs -> Objs \cup {END, Junk}]]
    BY <1>1, <1>2 DEF HeapType
  <1>9. live' \subseteq Nat \X (Sizes \ {0})
    BY <1>0, <1>2, <1>4 DEF HeapType
  <1>10. FreeIn(p, s, live') = F \ {head}
    <2> HIDE DEF a
    <2> QED
      BY <1>0, <1>1, <1>2, <1>4, FreeInAdd
  <1>11. FreeList(links[head], [links EXCEPT ![head] = Junk], ObjCount(s), F \ {head})
    BY <1>0, PopList, Zenon
  <1>12. ASSUME NEW t \in SlabSizes, NEW q \in slab_list[t], q # p
         PROVE  /\ FreeList(free_head'[q], word'[q], ObjCount(t), FreeIn(q, t, live'))
                /\ free_count'[q] = Cardinality(FreeIn(q, t, live'))
    <2>1. q \in Frames /\ q \in Nat
      BY ConstantTypes DEF HeapType
    <2>2. FreeIn(q, t, live') = FreeIn(q, t, live)
      <3>1. a[1] \div PageSize # q
        BY <1>4, <1>12, Zenon
      <3>2. \A x : x[1] \div PageSize # q => FreeIn(q, t, live \cup {x}) = FreeIn(q, t, live)
        BY <2>1, FreeInOther
      <3> HIDE DEF a
      <3>3. FreeIn(q, t, live \cup {a}) = FreeIn(q, t, live)
        BY <3>1, <3>2, Zenon
      <3> QED
        BY <1>2, <3>3
    <2>3. /\ FreeList(free_head[q], word[q], ObjCount(t), FreeIn(q, t, live))
          /\ free_count[q] = Cardinality(FreeIn(q, t, live))
      BY Zenon DEF SlabsExact
    <2>4. free_head'[q] = free_head[q] /\ free_count'[q] = free_count[q] /\ word'[q] = word[q]
      BY <1>5, <1>12, <2>1, Zenon
    <2> QED
      BY <2>2, <2>3, <2>4, Zenon
  <1>13. a[2] = size /\ ~(size > SlabMax) /\ size <= SlabMax
    BY ConstantTypes
  <1>14. Small' = Small \cup {a} /\ Large' = Large
    BY <1>2, <1>13 DEF Small, Large
  <1>15. LargePages' = LargePages
    BY <1>14 DEF LargePages
  <1>16. \A b \in live : b[1] # a[1]
    BY <1>1 DEF FreeIn, LiveIn
  <1>17. AddressesDiffer'
    BY <1>2, <1>16 DEF AddressesDiffer
  <1> QED
    BY <1>1, <1>3, <1>5, <1>6, <1>7, <1>8, <1>9, <1>10, <1>11, <1>12, <1>14, <1>15, <1>17, Zenon

(* kmalloc of a small size from a slab with room.                           *)
LEMMA AllocFromSlabInv ==
    ASSUME HeapInv, NEW size \in Sizes, AllocFromSlab(size)
    PROVE  HeapInv'
  <1> DEFINE s == Class(size)
  <1> USE DEF HeapInv
  <1>0. size \in 1..SlabMax /\ s \in SlabSizes
    BY ClassType DEF AllocFromSlab
  <1>1. PICK p \in slab_list[s] :
            /\ free_count[p] # 0
            /\ Pop(p, size, free_head[p], free_count[p], word[p])
    BY DEF AllocFromSlab
  <1>2. UNCHANGED <<pmm_bitmap, other, slab_list, magic, pages, obj_size, total_committed>>
    BY DEF AllocFromSlab
  <1>3. p \in Frames /\ p \in Nat
    BY <1>0, ConstantTypes, Zenon DEF HeapType
  <1>4. /\ FreeList(free_head[p], word[p], ObjCount(s), FreeIn(p, s, live))
        /\ free_count[p] = Cardinality(FreeIn(p, s, live))
        /\ word[p] \in [Objs -> Objs \cup {END, Junk}]
    BY <1>0, <1>3 DEF SlabsExact, HeapType
  <1>5. free_head[p] # END
    BY <1>1, <1>4, EmptyList, FS_EmptySet, Zenon
  <1> DEFINE head == free_head[p]
  <1>6. /\ free_count' \in [Frames -> Nat]
        /\ free_head' \in [Frames -> Objs \cup {END}]
        /\ word' \in [Frames -> [Objs -> Objs \cup {END, Junk}]]
        /\ live' \subseteq Nat \X (Sizes \ {0})
        /\ FreeList(free_head'[p], word'[p], ObjCount(s), FreeIn(p, s, live'))
        /\ free_count'[p] = Cardinality(FreeIn(p, s, live'))
        /\ \A t \in SlabSizes : \A q \in slab_list[t] : q # p =>
              /\ FreeList(free_head'[q], word'[q], ObjCount(t), FreeIn(q, t, live'))
              /\ free_count'[q] = Cardinality(FreeIn(q, t, live'))
        /\ head \in 0..(ObjCount(s) - 1)
        /\ Small' = Small \cup {<<Address(p, head, s), size>>}
        /\ Large' = Large
        /\ LargePages' = LargePages
        /\ AddressesDiffer'
    BY <1>0, <1>1, <1>3, <1>4, <1>5, PopStep, Zenon
  <1> HIDE DEF s
  <1>7. HeapType'
    BY <1>2, <1>6 DEF HeapType
  <1>8. Slabs' = Slabs
    BY <1>2, Zenon DEF Slabs
  <1>9. PagesOwned' /\ KernelKept' /\ CommittedExact'
    BY <1>2, <1>6, <1>8, Zenon DEF PagesOwned, KernelKept, CommittedExact
  <1>10. SlabsExact'
    <2> SUFFICES ASSUME NEW t \in SlabSizes, NEW q \in slab_list[t]
                 PROVE  /\ magic[q] = "SLAB"
                        /\ obj_size[q] = t
                        /\ FreeList(free_head'[q], word'[q], ObjCount(t), FreeIn(q, t, live'))
                        /\ free_count'[q] = Cardinality(FreeIn(q, t, live'))
      BY <1>2, Zenon DEF SlabsExact
    <2>1. q = p => t = s
      BY <1>0 DEF PagesOwned
    <2> QED
      BY <1>6, <2>1, Zenon DEF SlabsExact
  <1>11. SmallExact'
    <2> DEFINE a == <<Address(p, head, s), size>>
    <2>1. a[1] = Address(p, head, s) /\ Class(a[2]) = s
      BY DEF s
    <2>2. p \in slab_list'[Class(a[2])] /\ head \in 0..(ObjCount(Class(a[2])) - 1)
          /\ a[1] = Address(p, head, Class(a[2]))
      BY <1>2, <1>6, <2>1, Zenon
    <2>3. Small' = Small \cup {a} /\ slab_list' = slab_list
      BY <1>2, <1>6, Zenon
    <2> HIDE DEF a
    <2> QED
      BY <2>2, <2>3, Zenon DEF SmallExact
  <1>12. LargeExact'
    BY <1>2, <1>6, Zenon DEF LargeExact
  <1> QED
    BY <1>6, <1>7, <1>9, <1>10, <1>11, <1>12, Zenon

LEMMA HeapPagesFinite ==
    ASSUME HeapInv
    PROVE  /\ Slabs \cup LargePages \in SUBSET Frames
           /\ IsFiniteSet(Slabs \cup LargePages)
           /\ Cardinality(Slabs \cup LargePages) \in Nat
  <1>1. Slabs \cup LargePages \in SUBSET Frames
    BY DEF HeapInv, PagesOwned, HeapType
  <1>2. IsFiniteSet(Frames)
    BY ConstantTypes, FS_Interval DEF Frames
  <1> QED
    BY <1>1, <1>2, FS_Subset, FS_CardinalityType

LEMMA BlockFinite ==
    ASSUME NEW p \in Nat, NEW n \in Nat \ {0}
    PROVE  IsFiniteSet(Block(p, n)) /\ Cardinality(Block(p, n)) = n
  <1>1. p \in Int /\ p + n - 1 \in Int /\ ~(p > p + n - 1) /\ (p + n - 1) - p + 1 = n
    OBVIOUS
  <1> DEFINE q == p + n - 1
  <1> HIDE DEF q
  <1>2. IsFiniteSet(p..q) /\ Cardinality(p..q) = IF p > q THEN 0 ELSE q - p + 1
    BY <1>1, FS_Interval DEF q
  <1> QED
    BY <1>1, <1>2 DEF Block, q

LEMMA DisjointUnion ==
    ASSUME NEW S, NEW T, IsFiniteSet(S), IsFiniteSet(T), S \cap T = {}
    PROVE  /\ IsFiniteSet(S \cup T)
           /\ Cardinality(S \cup T) = Cardinality(S) + Cardinality(T)
  <1>1. Cardinality(S \cap T) = 0 /\ Cardinality(S) \in Nat /\ Cardinality(T) \in Nat
    BY FS_EmptySet, FS_CardinalityType
  <1>2. /\ IsFiniteSet(S \cup T)
        /\ Cardinality(S \cup T) = Cardinality(S) + Cardinality(T) - Cardinality(S \cap T)
    BY FS_Union
  <1> QED
    BY <1>1, <1>2

(* A page the PMM hands out belongs to nobody.                              *)
LEMMA FreshPage ==
    ASSUME HeapInv, FreeRuns(pmm_bitmap, 1) # {}, NEW p, p = FirstFit(pmm_bitmap, 1)
    PROVE  /\ p \in Frames /\ p \notin pmm_bitmap
           /\ p \notin Slabs /\ p \notin LargePages /\ p \notin other /\ p \notin Kernel
           /\ \A a \in live : a[1] \div PageSize # p
  <1>1. p \in FreeRuns(pmm_bitmap, 1)
    BY FirstFitIsRun
  <1>2. p \in Frames /\ p \in Block(p, 1)
    BY <1>1, ConstantTypes DEF FreeRuns, Block
  <1>3. p \notin pmm_bitmap
    BY <1>1, <1>2 DEF FreeRuns
  <1> QED
    BY <1>2, <1>3, LivePages, Zenon DEF HeapInv, PagesOwned, Kernel

(* slab_create and the first object of the new slab.                        *)
LEMMA AllocNewSlabInv ==
    ASSUME HeapInv, NEW size \in Sizes, AllocNewSlab(size)
    PROVE  HeapInv'
  <1> DEFINE s == Class(size)
             p == FirstFit(pmm_bitmap, 1)
             n == ObjCount(s)
  <1> USE DEF HeapInv
  <1>0. size \in 1..SlabMax /\ s \in SlabSizes
    BY ClassType DEF AllocNewSlab
  <1>1. /\ FreeRuns(pmm_bitmap, 1) # {}
        /\ pmm_bitmap' = pmm_bitmap \cup {p}
        /\ magic' = [magic EXCEPT ![p] = "SLAB"]
        /\ obj_size' = [obj_size EXCEPT ![p] = s]
        /\ slab_list' = [slab_list EXCEPT ![s] = @ \cup {p}]
        /\ total_committed' = total_committed + PageSize
        /\ Pop(p, size, 0, n, FreshLinks(n))
        /\ UNCHANGED <<other, pages>>
    BY DEF AllocNewSlab
  <1> HIDE DEF p, s
  <1>2. /\ p \in Frames /\ p \notin pmm_bitmap /\ p \in Nat
        /\ p \notin Slabs /\ p \notin LargePages /\ p \notin other /\ p \notin Kernel
        /\ \A a \in live : a[1] \div PageSize # p
    BY <1>1, FreshPage, ConstantTypes, Zenon DEF p
  <1>3. n \in Nat \ {0} /\ n <= MaxObjs
    BY <1>0, ObjCountType
  <1>4. FreeIn(p, s, live) = 0..(n - 1)
    BY <1>0, <1>2, FreeInNone
  <1>5. Cardinality(FreeIn(p, s, live)) = n
    BY <1>3, <1>4, FS_Interval
  <1>6. /\ FreshLinks(n) \in [Objs -> Objs \cup {END, Junk}]
        /\ FreeList(0, FreshLinks(n), n, FreeIn(p, s, live))
        /\ 0 # END
    BY <1>3, <1>4, FreshList DEF END
  <1>7. /\ free_count' \in [Frames -> Nat]
        /\ free_head' \in [Frames -> Objs \cup {END}]
        /\ word' \in [Frames -> [Objs -> Objs \cup {END, Junk}]]
        /\ live' \subseteq Nat \X (Sizes \ {0})
        /\ FreeList(free_head'[p], word'[p], ObjCount(s), FreeIn(p, s, live'))
        /\ free_count'[p] = Cardinality(FreeIn(p, s, live'))
        /\ \A t \in SlabSizes : \A q \in slab_list[t] : q # p =>
              /\ FreeList(free_head'[q], word'[q], ObjCount(t), FreeIn(q, t, live'))
              /\ free_count'[q] = Cardinality(FreeIn(q, t, live'))
        /\ 0 \in 0..(ObjCount(s) - 1)
        /\ Small' = Small \cup {<<Address(p, 0, s), size>>}
        /\ Large' = Large
        /\ LargePages' = LargePages
        /\ AddressesDiffer'
    BY <1>0, <1>1, <1>2, <1>5, <1>6, PopStep, Zenon DEF s
  <1>8. \A t \in SlabSizes : slab_list'[t] = IF t = s THEN slab_list[t] \cup {p} ELSE slab_list[t]
    BY <1>0, <1>1, Zenon DEF HeapType
  <1>9. HeapType'
    BY <1>0, <1>1, <1>2, <1>7, Zenon DEF HeapType
  <1>10. Slabs' = Slabs \cup {p}
    BY <1>0, <1>8, Zenon DEF Slabs
  <1>11. PagesOwned' /\ KernelKept'
    <2>1. \A t, u \in SlabSizes : t # u => slab_list'[t] \cap slab_list'[u] = {}
      <3>1. \A t \in SlabSizes : p \notin slab_list[t]
        BY <1>2, InSlabs
      <3>2. \A t, u \in SlabSizes : t # u => slab_list[t] \cap slab_list[u] = {}
        BY DEF PagesOwned
      <3> QED
        BY <1>8, <3>1, <3>2, Zenon
    <2> QED
      <3>1. pmm_bitmap' = Kernel \cup other' \cup Slabs' \cup LargePages'
        BY <1>1, <1>7, <1>10, Zenon DEF PagesOwned, Kernel
      <3>2. /\ other' \cap Slabs' = {} /\ other' \cap LargePages' = {}
            /\ Slabs' \cap LargePages' = {}
        BY <1>1, <1>2, <1>7, <1>10, Zenon DEF PagesOwned
      <3>3. KernelKept'
        BY <1>1, <1>2, <1>7, <1>10, Zenon DEF KernelKept
      <3>4. \A b, c \in Large' : b # c => LargeOf(b) \cap LargeOf(c) = {}
        BY <1>7, Zenon DEF PagesOwned
      <3> QED
        BY <2>1, <3>1, <3>2, <3>3, <3>4 DEF PagesOwned, Kernel
  <1>12. CommittedExact'
    <2>1. Slabs' \cup LargePages' = (Slabs \cup LargePages) \cup {p}
      BY <1>7, <1>10, Zenon
    <2>2. Cardinality(Slabs' \cup LargePages') = Cardinality(Slabs \cup LargePages) + 1
      BY <1>2, <2>1, HeapPagesFinite, FS_AddElement, Zenon
    <2> QED
      BY <1>1, <2>2, HeapPagesFinite, ConstantTypes DEF CommittedExact
  <1>13. SlabsExact'
    <2> SUFFICES ASSUME NEW t \in SlabSizes, NEW q \in slab_list'[t]
                 PROVE  /\ magic'[q] = "SLAB"
                        /\ obj_size'[q] = t
                        /\ FreeList(free_head'[q], word'[q], ObjCount(t), FreeIn(q, t, live'))
                        /\ free_count'[q] = Cardinality(FreeIn(q, t, live'))
      BY Zenon DEF SlabsExact
    <2>1. CASE q = p
      <3>1. t = s
        BY <1>2, <1>8, <2>1, InSlabs, Zenon
      <3> QED
        BY <1>0, <1>1, <1>2, <1>7, <2>1, <3>1 DEF HeapType
    <2>2. CASE q # p
      <3>1. q \in slab_list[t] /\ q \in Frames
        BY <1>8, <2>2, Zenon DEF HeapType
      <3>2. magic'[q] = magic[q] /\ obj_size'[q] = obj_size[q]
        BY <1>1, <2>2, <3>1 DEF HeapType
      <3> QED
        BY <1>7, <2>2, <3>1, <3>2, Zenon DEF SlabsExact
    <2> QED
      BY <2>1, <2>2, Zenon
  <1>14. SmallExact'
    <2> SUFFICES ASSUME NEW a \in Small'
                 PROVE  \E q \in slab_list'[Class(a[2])],
                           o \in 0..(ObjCount(Class(a[2])) - 1) :
                             a[1] = Address(q, o, Class(a[2]))
      BY Zenon DEF SmallExact
    <2>1. CASE a \in Small
      <3>1. Class(a[2]) \in SlabSizes
        BY <2>1, LiveKinds, ClassType
      <3> QED
        BY <1>8, <2>1, <3>1, Zenon DEF SmallExact
    <2>2. CASE a = <<Address(p, 0, s), size>>
      <3>1. a[1] = Address(p, 0, s) /\ Class(a[2]) = s
        BY <2>2 DEF s
      <3> QED
        BY <1>0, <1>7, <1>8, <3>1, Zenon
    <2> QED
      BY <1>7, <2>1, <2>2, Zenon
  <1>15. LargeExact'
    <2>1. \A a \in Large : a[1] \div PageSize # p
      BY <1>2 DEF Large
    <2>2. \A q \in Frames : q # p => magic'[q] = magic[q]
      BY <1>1 DEF HeapType
    <2> QED
      BY <1>1, <1>7, <2>1, <2>2, LargeAt, Zenon DEF LargeExact
  <1> QED
    BY <1>7, <1>9, <1>11, <1>12, <1>13, <1>14, <1>15, Zenon

(* kmalloc of a large size.                                                 *)
LEMMA AllocLargeInv ==
    ASSUME HeapInv, NEW size \in Sizes, AllocLarge(size)
    PROVE  HeapInv'
  <1> DEFINE n == Pages(size)
             p == FirstFit(pmm_bitmap, n)
             a == <<p * PageSize + LargeHeader, size>>
  <1> USE DEF HeapInv
  <1>1. /\ size > SlabMax
        /\ FreeRuns(pmm_bitmap, n) # {}
        /\ pmm_bitmap' = pmm_bitmap \cup Block(p, n)
        /\ magic' = [magic EXCEPT ![p] = "LARGE"]
        /\ pages' = [pages EXCEPT ![p] = n]
        /\ total_committed' = total_committed + n * PageSize
        /\ live' = live \cup {a}
        /\ UNCHANGED <<other, slab>>
    BY DEF AllocLarge
  <1>2. p \in FreeRuns(pmm_bitmap, n)
    BY <1>1, FirstFitIsRun
  <1> HIDE DEF p
  <1>3. /\ p \in Frames /\ p \in Nat /\ p + n <= TotalBlocks
        /\ Block(p, n) \cap pmm_bitmap = {}
    BY <1>2, ConstantTypes DEF FreeRuns
  <1>4. size \in Nat \ {0}
    BY <1>1, ConstantTypes
  <1>5. /\ a[1] = p * PageSize + LargeHeader /\ a[2] = size
        /\ a[1] \in Nat /\ a[1] \div PageSize = p /\ n \in Nat \ {0}
        /\ a \in Nat \X (Sizes \ {0})
    BY <1>3, <1>4, AddressOfLarge
  <1> HIDE DEF a, n
  <1>6. p \in Block(p, n) /\ Block(p, n) \subseteq Frames
    BY <1>3, <1>5, ConstantTypes DEF Block, Frames
  <1>7. LargeOf(a) = Block(p, n)
    BY <1>5 DEF LargeOf, n
  <1>8. Small' = Small /\ Large' = Large \cup {a}
    BY <1>1, <1>4, <1>5, ConstantTypes DEF Small, Large
  <1>9. LargePages' = LargePages \cup Block(p, n)
    BY <1>7, <1>8 DEF LargePages
  <1>10. Slabs' = Slabs
    BY <1>1 DEF Slabs, slab
  <1>11. /\ Block(p, n) \cap Slabs = {} /\ Block(p, n) \cap LargePages = {}
         /\ Block(p, n) \cap other = {} /\ Block(p, n) \cap Kernel = {}
    BY <1>3 DEF PagesOwned, Kernel
  <1>12. HeapType'
    BY <1>1, <1>3, <1>4, <1>5, <1>6, Zenon DEF HeapType, slab
  <1>13. PagesOwned'
    <2>1. \A b \in Large : LargeOf(b) \subseteq LargePages
      BY LargeAt
    <2>2. \A b, c \in Large' : b # c => LargeOf(b) \cap LargeOf(c) = {}
      <3>1. \A b, c \in Large : b # c => LargeOf(b) \cap LargeOf(c) = {}
        BY Zenon DEF PagesOwned
      <3>2. \A b \in Large : LargeOf(b) \cap LargeOf(a) = {} /\ LargeOf(a) \cap LargeOf(b) = {}
        BY <1>7, <1>11, <2>1, Zenon
      <3> QED
        BY <1>8, <3>1, <3>2, Zenon
    <2> QED
      BY <1>1, <1>9, <1>10, <1>11, <2>2 DEF PagesOwned, slab
  <1>14. KernelKept'
    BY <1>1, <1>9, <1>10, <1>11 DEF KernelKept
  <1>15. SlabsExact'
    <2> SUFFICES ASSUME NEW t \in SlabSizes, NEW q \in slab_list[t]
                 PROVE  /\ magic'[q] = "SLAB"
                        /\ obj_size[q] = t
                        /\ FreeList(free_head[q], word[q], ObjCount(t), FreeIn(q, t, live'))
                        /\ free_count[q] = Cardinality(FreeIn(q, t, live'))
      BY <1>1, Zenon DEF SlabsExact, slab
    <2>1. q \in Frames /\ q \in Nat /\ q # p
      BY <1>6, <1>11, InSlabs, ConstantTypes DEF HeapType
    <2>2. magic'[q] = magic[q]
      BY <1>1, <2>1 DEF HeapType
    <2>3. FreeIn(q, t, live \cup {a}) = FreeIn(q, t, live)
      <3>1. a[1] \div PageSize # q
        BY <1>5, <2>1
      <3> QED
        BY <2>1, <3>1, FreeInOther
    <2> QED
      BY <1>1, <2>2, <2>3, Zenon DEF SlabsExact
  <1>16. SmallExact'
    BY <1>1, <1>8 DEF SmallExact, slab
  <1>17. LargeExact'
    <2>1. \A b \in live : b[1] \div PageSize # p
      BY <1>3, <1>6, LivePages
    <2>2. \A q \in Frames : q # p => magic'[q] = magic[q] /\ pages'[q] = pages[q]
      BY <1>1 DEF HeapType
    <2>3. magic'[p] = "LARGE" /\ pages'[p] = Pages(a[2])
      BY <1>1, <1>3, <1>5 DEF HeapType, n
    <2>4. \A b \in Large : LET q == b[1] \div PageSize
                           IN  /\ b[1] = q * PageSize + LargeHeader /\ q \in Frames
                               /\ magic'[q] = "LARGE" /\ pages'[q] = Pages(b[2])
                               /\ q + Pages(b[2]) <= TotalBlocks
      BY <2>1, <2>2, LargeAt DEF Large
    <2> QED
      BY <1>3, <1>5, <1>8, <2>3, <2>4, Zenon DEF LargeExact, n
  <1>18. AddressesDiffer'
    <2>1. \A b \in live : b[1] # a[1]
      BY <1>3, <1>5, <1>6, LivePages
    <2> QED
      BY <1>1, <2>1 DEF AddressesDiffer
  <1>19. CommittedExact'
    <2> DEFINE U == Slabs \cup LargePages
    <2>1. /\ Slabs' \cup LargePages' = U \cup Block(p, n) /\ U \cap Block(p, n) = {}
          /\ IsFiniteSet(U) /\ Cardinality(U) \in Nat
      BY <1>9, <1>10, <1>11, HeapPagesFinite
    <2>2. IsFiniteSet(Block(p, n)) /\ Cardinality(Block(p, n)) = n
      BY <1>3, <1>5, BlockFinite
    <2> HIDE DEF U
    <2>3. Cardinality(Slabs' \cup LargePages') = Cardinality(U) + n
      BY <1>5, <2>1, <2>2, DisjointUnion, Zenon
    <2> QED
      BY <1>1, <1>5, <2>1, <2>3, ConstantTypes DEF CommittedExact, U
  <1> QED
    BY <1>12, <1>13, <1>14, <1>15, <1>16, <1>17, <1>18, <1>19

(* kfree of a small allocation: its object goes back in front of the free   *)
(* list of its slab.                                                        *)
LEMMA FreeObjectInv ==
    ASSUME HeapInv, NEW a \in live, FreeObject(a)
    PROVE  HeapInv'
  <1> DEFINE p == a[1] \div PageSize
             s == Class(a[2])
             idx == (a[1] - (p * PageSize + SlabHeader)) \div obj_size[p]
             F == FreeIn(p, s, live)
  <1> USE DEF HeapInv
  <1>1. /\ magic[p] = "SLAB"
        /\ word' = [word EXCEPT ![p][idx] = free_head[p]]
        /\ free_head' = [free_head EXCEPT ![p] = idx]
        /\ free_count' = [free_count EXCEPT ![p] = @ + 1]
        /\ live' = live \ {a}
        /\ UNCHANGED <<pmm_bitmap, other, slab_list, magic, pages, obj_size,
                       total_committed>>
    BY Zenon DEF FreeObject
  <1>2. a \in Small
    BY <1>1, KindOfPage, LiveKinds, Zenon
  <1>3. /\ s \in SlabSizes /\ p \in slab_list[s] /\ p \in Frames /\ p \in Nat
    BY <1>2, SmallAt, ConstantTypes, Zenon DEF HeapType
  <1>4. PICK o \in 0..(ObjCount(s) - 1) : a[1] = Address(p, o, s)
    BY <1>2, SmallAt
  <1>5. /\ obj_size[p] = s
        /\ FreeList(free_head[p], word[p], ObjCount(s), F)
        /\ free_count[p] = Cardinality(F)
        /\ word[p] \in [Objs -> Objs \cup {END, Junk}] /\ free_head[p] \in Objs \cup {END}
        /\ free_count[p] \in Nat
    BY <1>3, Zenon DEF SlabsExact, HeapType
  <1>6. idx = o
    <2>1. (Address(p, o, s) - (p * PageSize + SlabHeader)) \div s = o
      <3> HIDE DEF p, s
      <3> QED
        BY <1>3, AddressOfObject
    <2> QED
      BY <1>4, <1>5, <2>1, Zenon
  <1> HIDE DEF p, s, idx, F
  <1>7. ObjCount(s) \in Nat /\ ObjCount(s) <= MaxObjs /\ o \in Objs
    BY <1>3, ObjCountType
  <1>8. FreeIn(p, s, live') = F \cup {o} /\ o \notin F
    BY <1>1, <1>3, <1>4, FreeInRemove DEF AddressesDiffer, F
  <1>9. FreeList(o, [word[p] EXCEPT ![o] = free_head[p]], ObjCount(s), F \cup {o})
    BY <1>5, <1>7, <1>8, PushList, Zenon
  <1>10. Cardinality(F \cup {o}) = Cardinality(F) + 1
    BY <1>3, <1>8, FreeInFinite, FS_AddElement, Zenon DEF F
  <1>11. /\ free_head'[p] = o /\ free_count'[p] = free_count[p] + 1
         /\ word'[p] = [word[p] EXCEPT ![o] = free_head[p]]
         /\ \A q \in Frames : q # p => /\ free_head'[q] = free_head[q]
                                       /\ free_count'[q] = free_count[q]
                                       /\ word'[q] = word[q]
    BY <1>1, <1>3, <1>6 DEF HeapType
  <1>12. HeapType'
    <2>1. word' \in [Frames -> [Objs -> Objs \cup {END, Junk}]]
      BY <1>1, <1>3, <1>5, <1>6, <1>7, Zenon DEF HeapType
    <2>2. free_head' \in [Frames -> Objs \cup {END}] /\ free_count' \in [Frames -> Nat]
      <3>1. /\ free_head \in [Frames -> Objs \cup {END}] /\ free_count \in [Frames -> Nat]
            /\ idx \in Objs
        BY <1>6, <1>7, Zenon DEF HeapType
      <3>2. /\ free_head' = [free_head EXCEPT ![p] = idx]
            /\ free_count' = [free_count EXCEPT ![p] = @ + 1]
        BY <1>1, Zenon
      <3>3. free_count[p] \in Nat /\ p \in Frames
        BY <1>3, <1>5, Zenon
      <3>4. free_count' \in [Frames -> Nat]
        BY <3>1, <3>2, <3>3
      <3>5. free_head' \in [Frames -> Objs \cup {END}]
        BY <3>1, <3>2, <3>3
      <3> QED
        BY <3>4, <3>5, Zenon
    <2>3. live' \subseteq Nat \X (Sizes \ {0})
      BY <1>1, Zenon DEF HeapType
    <2> QED
      BY <1>1, <2>1, <2>2, <2>3, Zenon DEF HeapType
  <1>13. Slabs' = Slabs
    BY <1>1 DEF Slabs
  <1>14. Large' = Large /\ Small' = Small \ {a}
    BY <1>1, <1>2, LiveKinds DEF Large, Small
  <1>15. LargePages' = LargePages
    BY <1>14 DEF LargePages
  <1>16. PagesOwned' /\ KernelKept' /\ CommittedExact'
    BY <1>1, <1>13, <1>14, <1>15 DEF PagesOwned, KernelKept, CommittedExact
  <1>17. SlabsExact'
    <2> SUFFICES ASSUME NEW t \in SlabSizes, NEW q \in slab_list[t]
                 PROVE  /\ magic[q] = "SLAB"
                        /\ obj_size[q] = t
                        /\ FreeList(free_head'[q], word'[q], ObjCount(t), FreeIn(q, t, live'))
                        /\ free_count'[q] = Cardinality(FreeIn(q, t, live'))
      BY <1>1, Zenon DEF SlabsExact
    <2>1. q \in Frames /\ q \in Nat
      BY ConstantTypes DEF HeapType
    <2>2. CASE q = p
      <3>1. t = s
        BY <1>3, <2>2 DEF PagesOwned
      <3> QED
        BY <1>5, <1>8, <1>9, <1>10, <1>11, <2>2, <3>1, Zenon DEF SlabsExact
    <2>3. CASE q # p
      <3>1. FreeIn(q, t, live \ {a}) = FreeIn(q, t, live)
        <4>1. a[1] \div PageSize # q
          BY <2>3 DEF p
        <4> QED
          BY <2>1, <4>1, FreeInOther
      <3>2. /\ FreeList(free_head[q], word[q], ObjCount(t), FreeIn(q, t, live))
            /\ free_count[q] = Cardinality(FreeIn(q, t, live))
            /\ magic[q] = "SLAB" /\ obj_size[q] = t
        BY Zenon DEF SlabsExact
      <3>3. /\ free_head'[q] = free_head[q] /\ free_count'[q] = free_count[q]
            /\ word'[q] = word[q]
        BY <1>11, <2>1, <2>3, Zenon
      <3> QED
        BY <1>1, <3>1, <3>2, <3>3, Zenon
    <2> QED
      BY <2>2, <2>3, Zenon
  <1>18. SmallExact' /\ LargeExact' /\ AddressesDiffer'
    BY <1>1, <1>14 DEF SmallExact, LargeExact, AddressesDiffer
  <1> QED
    BY <1>12, <1>16, <1>17, <1>18

(* kfree of a large block: its pages go back, and no others.                *)
LEMMA FreeLargeInv ==
    ASSUME HeapInv, NEW a \in live, FreeLarge(a)
    PROVE  HeapInv'
  <1> DEFINE p == a[1] \div PageSize
             B == Block(p, pages[p])
  <1> USE DEF HeapInv
  <1>1. /\ magic[p] = "LARGE"
        /\ pmm_bitmap' = pmm_bitmap \ B
        /\ total_committed' = total_committed - pages[p] * PageSize
        /\ live' = live \ {a}
        /\ UNCHANGED <<other, slab, magic, pages>>
    BY DEF FreeLarge
  <1>2. a \in Large /\ a \notin Small
    BY <1>1, KindOfPage, LiveKinds
  <1>3. /\ p \in Frames /\ p \in Nat /\ pages[p] \in Nat \ {0}
        /\ B = LargeOf(a) /\ p \in B /\ B \subseteq LargePages
    BY <1>2, LargeAt, ConstantTypes, Zenon
  <1> HIDE DEF p, B
  <1>4. Large' = Large \ {a} /\ Small' = Small
    BY <1>1, <1>2, Zenon DEF Large, Small
  <1>5. LargePages' = LargePages \ B
    <2>1. \A b \in Large : b # a => LargeOf(b) \cap B = {}
      BY <1>2, <1>3, Zenon DEF PagesOwned
    <2> QED
      BY <1>3, <1>4, <2>1 DEF LargePages
  <1>6. Slabs' = Slabs
    BY <1>1 DEF Slabs, slab
  <1>7. B \cap Slabs = {} /\ B \cap other = {} /\ B \cap Kernel = {}
    BY <1>3 DEF PagesOwned, KernelKept
  <1>8. HeapType'
    BY <1>1 DEF HeapType, slab
  <1>9. PagesOwned' /\ KernelKept'
    <2>1. pmm_bitmap' = Kernel \cup other' \cup Slabs' \cup LargePages'
      BY <1>1, <1>5, <1>6, <1>7, Zenon DEF PagesOwned, Kernel
    <2> QED
      BY <1>1, <1>4, <1>5, <1>6, <2>1, Zenon DEF PagesOwned, KernelKept, Kernel, slab
  <1>10. SlabsExact'
    <2>1. ASSUME NEW t \in SlabSizes, NEW q \in slab_list[t]
          PROVE  FreeIn(q, t, live') = FreeIn(q, t, live)
      <3>1. q \in Nat /\ a[1] \div PageSize # q
        BY <1>3, <1>7, InSlabs, ConstantTypes DEF HeapType, p
      <3>2. \A x : x[1] \div PageSize # q => FreeIn(q, t, live \ {x}) = FreeIn(q, t, live)
        BY <3>1, FreeInOther
      <3>3. FreeIn(q, t, live \ {a}) = FreeIn(q, t, live)
        BY <3>1, <3>2, Zenon
      <3> QED
        BY <1>1, <3>3, Zenon
    <2>2. /\ slab_list' = slab_list /\ magic' = magic /\ obj_size' = obj_size
          /\ free_count' = free_count /\ free_head' = free_head /\ word' = word
      BY <1>1 DEF slab
    <2>3. ASSUME NEW t \in SlabSizes, NEW q \in slab_list[t]
          PROVE  /\ magic'[q] = "SLAB" /\ obj_size'[q] = t
                 /\ FreeList(free_head'[q], word'[q], ObjCount(t), FreeIn(q, t, live'))
                 /\ free_count'[q] = Cardinality(FreeIn(q, t, live'))
      <3>1. /\ magic[q] = "SLAB" /\ obj_size[q] = t
            /\ FreeList(free_head[q], word[q], ObjCount(t), FreeIn(q, t, live))
            /\ free_count[q] = Cardinality(FreeIn(q, t, live))
        BY Zenon DEF SlabsExact
      <3>2. FreeIn(q, t, live') = FreeIn(q, t, live)
        BY <2>1, Zenon
      <3> QED
        BY <2>2, <3>1, <3>2, Zenon
    <2> QED
      BY <2>2, <2>3, Zenon DEF SlabsExact
  <1>11. SmallExact' /\ LargeExact' /\ AddressesDiffer'
    BY <1>1, <1>4, Zenon DEF SmallExact, LargeExact, AddressesDiffer, slab
  <1>12. CommittedExact'
    <2> DEFINE U == Slabs' \cup LargePages'
    <2>1. U \cup B = Slabs \cup LargePages /\ U \cap B = {} /\ U \in SUBSET (Slabs \cup LargePages)
      BY <1>3, <1>5, <1>6, <1>7
    <2>2. IsFiniteSet(B) /\ Cardinality(B) = pages[p]
      BY <1>3, BlockFinite DEF B
    <2> HIDE DEF U
    <2>3. IsFiniteSet(U) /\ Cardinality(U) \in Nat
      BY <2>1, HeapPagesFinite, FS_Subset, FS_CardinalityType
    <2>4. Cardinality(U \cup B) = Cardinality(U) + pages[p]
      BY <2>1, <2>2, <2>3, DisjointUnion
    <2>5. total_committed = PageSize * (Cardinality(U) + pages[p])
      BY <2>1, <2>4, Zenon DEF CommittedExact
    <2>6. total_committed' = PageSize * Cardinality(U)
      BY <1>1, <1>3, <2>3, <2>5, ConstantTypes
    <2> QED
      BY <2>6 DEF CommittedExact, U
  <1> QED
    BY <1>8, <1>9, <1>10, <1>11, <1>12

(* kheap_reclaim: a slab whose free_count is the number of its objects has  *)
(* no live object, so nothing that anyone holds is given back.              *)
LEMMA ReclaimInv ==
    ASSUME HeapInv, Reclaim
    PROVE  HeapInv'
  <1> DEFINE empty(t) == {p \in slab_list[t] : free_count[p] = ObjCount(obj_size[p])}
             freed == UNION {empty(t) : t \in SlabSizes}
  <1> USE DEF HeapInv
  <1>1. /\ slab_list' = [t \in SlabSizes |-> slab_list[t] \ empty(t)]
        /\ pmm_bitmap' = pmm_bitmap \ freed
        /\ total_committed' = total_committed - PageSize * Cardinality(freed)
        /\ UNCHANGED <<other, magic, pages, obj_size, free_count, free_head, word, live>>
    BY Zenon DEF Reclaim
  <1>2. \A p : p \in freed <=> \E t \in SlabSizes : p \in empty(t)
    OBVIOUS
  <1>3. ASSUME NEW t \in SlabSizes, NEW p \in empty(t)
        PROVE  \A a \in live : a[1] \div PageSize # p
    <2>1. p \in slab_list[t] /\ obj_size[p] = t /\ p \in Nat
          /\ Cardinality(FreeIn(p, t, live)) = ObjCount(t)
      BY ConstantTypes DEF SlabsExact, HeapType
    <2>2. ObjCount(t) \in Nat \ {0} /\ IsFiniteSet(0..(ObjCount(t) - 1))
          /\ Cardinality(0..(ObjCount(t) - 1)) = ObjCount(t)
      <3>1. ObjCount(t) \in Nat \ {0}
        BY ObjCountType
      <3>2. Block(0, ObjCount(t)) = 0..(ObjCount(t) - 1)
        BY <3>1 DEF Block
      <3>3. IsFiniteSet(Block(0, ObjCount(t))) /\ Cardinality(Block(0, ObjCount(t))) = ObjCount(t)
        BY <3>1, BlockFinite
      <3> QED
        BY <3>1, <3>2, <3>3, Zenon
    <2>3. FreeIn(p, t, live) \in SUBSET (0..(ObjCount(t) - 1))
      BY DEF FreeIn
    <2>4. FreeIn(p, t, live) = 0..(ObjCount(t) - 1)
      BY <2>1, <2>2, <2>3, FS_Subset, Zenon
    <2>5. ASSUME NEW a \in live, a[1] \div PageSize = p
          PROVE  FALSE
      <3>1. CASE a \in Large
        <4>1. p \in LargeOf(a) /\ LargeOf(a) \subseteq LargePages
          BY <2>5, <3>1, LargeAt, Zenon
        <4>2. p \in Slabs
          BY <2>1, InSlabs, Zenon
        <4> QED
          BY <4>1, <4>2 DEF PagesOwned
      <3>2. CASE a \in Small
        <4>1. Class(a[2]) \in SlabSizes /\ p \in slab_list[Class(a[2])]
          BY <2>5, <3>2, SmallAt
        <4>2. Class(a[2]) = t
          BY <2>1, <4>1, Zenon DEF PagesOwned
        <4>3. \E o \in 0..(ObjCount(t) - 1) : a[1] = Address(p, o, t)
          BY <2>5, <3>2, <4>2, SmallAt
        <4> QED
          BY <2>4, <4>3, Zenon DEF FreeIn, LiveIn
      <3> QED
        BY <3>1, <3>2, LiveKinds
    <2> QED
      BY <2>5
  <1>4. \A a \in live : a[1] \div PageSize \notin freed
    BY <1>2, <1>3
  <1>5. freed \subseteq Slabs /\ freed \cap LargePages = {} /\ freed \cap other = {}
        /\ freed \cap Kernel = {}
    <2>1. freed \subseteq Slabs
      BY <1>2, InSlabs
    <2> QED
      BY <2>1, Zenon DEF PagesOwned, KernelKept
  <1>6. \A t \in SlabSizes : slab_list'[t] = slab_list[t] \ freed
    <2> SUFFICES ASSUME NEW t \in SlabSizes, NEW p \in slab_list[t], p \in freed
                 PROVE  p \in empty(t)
      BY <1>1, <1>2, Zenon
    <2>1. PICK u \in SlabSizes : p \in empty(u)
      BY <1>2
    <2>2. u = t
      BY <2>1 DEF PagesOwned
    <2> QED
      BY <2>1, <2>2
  <1> HIDE DEF freed
  <1>7. Slabs' = Slabs \ freed
    BY <1>6 DEF Slabs
  <1>8. Large' = Large /\ Small' = Small /\ LargePages' = LargePages
    BY <1>1 DEF Large, Small, LargePages
  <1>9. HeapType'
    <2>1. slab_list' \in [SlabSizes -> SUBSET Frames]
      BY <1>1 DEF HeapType
    <2> QED
      BY <1>1, <2>1 DEF HeapType
  <1>10. PagesOwned' /\ KernelKept'
    <2>1. pmm_bitmap' = Kernel \cup other' \cup Slabs' \cup LargePages'
      BY <1>1, <1>5, <1>7, <1>8, Zenon DEF PagesOwned, Kernel
    <2>2. \A t, u \in SlabSizes : t # u => slab_list'[t] \cap slab_list'[u] = {}
      BY <1>6, Zenon DEF PagesOwned
    <2> QED
      BY <1>1, <1>7, <1>8, <2>1, <2>2, Zenon DEF PagesOwned, KernelKept, Kernel
  <1>11. SlabsExact'
    BY <1>1, <1>6, Zenon DEF SlabsExact
  <1>12. SmallExact'
    <2> SUFFICES ASSUME NEW a \in Small
                 PROVE  \E q \in slab_list'[Class(a[2])],
                           o \in 0..(ObjCount(Class(a[2])) - 1) :
                             a[1] = Address(q, o, Class(a[2]))
      BY <1>8, Zenon DEF SmallExact
    <2>1. /\ Class(a[2]) \in SlabSizes /\ a[1] \div PageSize \in slab_list[Class(a[2])]
          /\ \E o \in 0..(ObjCount(Class(a[2])) - 1) :
                 a[1] = Address(a[1] \div PageSize, o, Class(a[2]))
      BY SmallAt
    <2>2. a[1] \div PageSize \in slab_list'[Class(a[2])]
      BY <1>4, <1>6, <2>1 DEF Small
    <2> QED
      BY <2>1, <2>2, Zenon
  <1>13. LargeExact' /\ AddressesDiffer'
    BY <1>1, <1>8, Zenon DEF LargeExact, AddressesDiffer
  <1>14. CommittedExact'
    <2> DEFINE U == Slabs' \cup LargePages'
    <2>1. /\ U \cup freed = Slabs \cup LargePages /\ U \cap freed = {}
          /\ U \in SUBSET (Slabs \cup LargePages) /\ freed \in SUBSET (Slabs \cup LargePages)
      BY <1>5, <1>7, <1>8
    <2> HIDE DEF U
    <2>2. IsFiniteSet(U) /\ Cardinality(U) \in Nat /\ IsFiniteSet(freed)
          /\ Cardinality(freed) \in Nat
      BY <2>1, HeapPagesFinite, FS_Subset, FS_CardinalityType
    <2>3. Cardinality(U \cup freed) = Cardinality(U) + Cardinality(freed)
      BY <2>1, <2>2, DisjointUnion, Zenon
    <2>4. total_committed = PageSize * (Cardinality(U) + Cardinality(freed))
      BY <2>1, <2>3, Zenon DEF CommittedExact
    <2>5. total_committed' = PageSize * Cardinality(U)
      <3> DEFINE x == Cardinality(U)
                 y == Cardinality(freed)
      <3>1. /\ x \in Nat /\ y \in Nat /\ total_committed = PageSize * (x + y)
            /\ total_committed' = total_committed - PageSize * y
        BY <1>1, <2>2, <2>4, Zenon
      <3> HIDE DEF x, y
      <3>2. total_committed' = PageSize * x
        BY <3>1, ConstantTypes
      <3> QED
        BY <3>2 DEF x
    <2> QED
      BY <2>5 DEF CommittedExact, U
  <1> QED
    BY <1>9, <1>10, <1>11, <1>12, <1>13, <1>14

(* Another user takes a page and writes to it, or gives one back.           *)
LEMMA OtherInv ==
    ASSUME HeapInv, OtherTake \/ OtherGive
    PROVE  HeapInv'
  <1> USE DEF HeapInv
  <1>1. UNCHANGED <<slab, pages, total_committed, live>>
    BY DEF OtherTake, OtherGive
  <1>2. Slabs' = Slabs /\ Large' = Large /\ Small' = Small /\ LargePages' = LargePages
    BY <1>1, Zenon DEF Slabs, Large, Small, LargePages, slab
  <1>3. CASE OtherTake
    <2> DEFINE p == FirstFit(pmm_bitmap, 1)
    <2>1. /\ FreeRuns(pmm_bitmap, 1) # {}
          /\ pmm_bitmap' = pmm_bitmap \cup {p}
          /\ other' = other \cup {p}
          /\ magic' = [magic EXCEPT ![p] = "none"]
      BY <1>3 DEF OtherTake
    <2> HIDE DEF p
    <2>2. /\ p \in Frames /\ p \notin Slabs /\ p \notin LargePages /\ p \notin Kernel
          /\ \A a \in live : a[1] \div PageSize # p
      BY <2>1, FreshPage DEF p
    <2>3. \A q \in Frames : q # p => magic'[q] = magic[q]
      BY <2>1 DEF HeapType
    <2>4. HeapType'
      BY <1>1, <2>1, <2>2 DEF HeapType, slab
    <2>5. PagesOwned' /\ KernelKept'
      BY <1>1, <1>2, <2>1, <2>2, Zenon DEF PagesOwned, KernelKept, slab
    <2>6. SlabsExact'
      <3>1. \A t \in SlabSizes : \A q \in slab_list[t] : magic'[q] = magic[q]
        BY <2>2, <2>3, InSlabs DEF HeapType
      <3> QED
        BY <1>1, <3>1, Zenon DEF SlabsExact, slab
    <2>7. LargeExact'
      <3>1. \A b \in Large : LET q == b[1] \div PageSize
                             IN  /\ b[1] = q * PageSize + LargeHeader /\ q \in Frames
                                 /\ magic'[q] = "LARGE" /\ pages[q] = Pages(b[2])
                                 /\ q + Pages(b[2]) <= TotalBlocks
        BY <2>2, <2>3, LargeAt, Zenon DEF Large
      <3> QED
        BY <1>1, <1>2, <3>1 DEF LargeExact
    <2> QED
      BY <1>1, <1>2, <2>4, <2>5, <2>6, <2>7, Zenon
      DEF SmallExact, AddressesDiffer, CommittedExact, slab
  <1>4. CASE OtherGive
    <2>1. PICK p \in other : other' = other \ {p} /\ pmm_bitmap' = pmm_bitmap \ {p}
      BY <1>4 DEF OtherGive
    <2>2. UNCHANGED magic
      BY <1>4 DEF OtherGive
    <2>3. p \notin Slabs /\ p \notin LargePages /\ p \notin Kernel
      BY Zenon DEF PagesOwned, KernelKept
    <2>4. HeapType'
      BY <1>1, <2>1, <2>2 DEF HeapType, slab
    <2>5. PagesOwned' /\ KernelKept'
      <3>1. pmm_bitmap' = Kernel \cup other' \cup Slabs' \cup LargePages'
        BY <1>2, <2>1, <2>3 DEF PagesOwned, Kernel
      <3> QED
        BY <1>1, <1>2, <2>1, <3>1, Zenon DEF PagesOwned, KernelKept, Kernel, slab
    <2> QED
      BY <1>1, <1>2, <2>2, <2>4, <2>5, Zenon
      DEF SlabsExact, SmallExact, LargeExact, AddressesDiffer, CommittedExact, slab
  <1> QED
    BY <1>3, <1>4

LEMMA HeapNext == HeapInv /\ [Next]_vars => HeapInv'
  <1> SUFFICES ASSUME HeapInv, [Next]_vars
               PROVE  HeapInv'
    OBVIOUS
  <1>1. CASE UNCHANGED vars
    <2>1. UNCHANGED <<pmm_bitmap, other, slab_list, magic, pages, obj_size, free_count,
                      free_head, word, total_committed, live>>
      BY <1>1 DEF vars, slab
    <2>2. Slabs' = Slabs /\ Large' = Large /\ Small' = Small /\ LargePages' = LargePages
      BY <2>1 DEF Slabs, Large, Small, LargePages
    <2>3. HeapType' /\ PagesOwned' /\ KernelKept' /\ CommittedExact'
      BY <2>1, <2>2 DEF HeapInv, HeapType, PagesOwned, KernelKept, CommittedExact
    <2>4. SlabsExact' /\ AddressesDiffer'
      BY <2>1, Zenon DEF HeapInv, SlabsExact, AddressesDiffer
    <2>5. SmallExact' /\ LargeExact'
      BY <2>1, <2>2, Zenon DEF HeapInv, SmallExact, LargeExact
    <2> QED
      BY <2>3, <2>4, <2>5 DEF HeapInv
  <1>2. ASSUME NEW size \in Sizes,
               \/ AllocFromSlab(size) \/ AllocNewSlab(size)
               \/ AllocLarge(size) \/ AllocFails(size)
        PROVE  HeapInv'
    BY <1>1, <1>2, AllocFromSlabInv, AllocNewSlabInv, AllocLargeInv, Zenon DEF AllocFails
  <1>3. ASSUME NEW a \in live, FreeObject(a) \/ FreeLarge(a)
        PROVE  HeapInv'
    BY <1>3, FreeObjectInv, FreeLargeInv
  <1> QED
    BY <1>1, <1>2, <1>3, ReclaimInv, OtherInv DEF Next

-----------------------------------------------------------------------------
(* The theorems *)

(* The heap's own data, its pages in the PMM and what callers hold stay in  *)
(* agreement, whatever is allocated, freed and reclaimed in which order.    *)
THEOREM HeapInvariant == Spec => []HeapInv
  <1>1. Init => HeapInv
    BY HeapInit
  <1>2. HeapInv /\ [Next]_vars => HeapInv'
    BY HeapNext
  <1> QED
    BY <1>1, <1>2, PTL DEF Spec

(* kmalloc's free lists: exactly the objects nobody holds, counted right.   *)
THEOREM FreeListsExact == Spec => []FreeListExact
  <1>1. HeapInv => FreeListExact
    <2> SUFFICES ASSUME HeapInv, NEW p \in Slabs
                 PROVE  /\ FreeObjs(p) = (0..(ObjCount(obj_size[p]) - 1)) \ LiveObjs(p)
                        /\ free_count[p] = Cardinality(FreeObjs(p))
                        /\ free_count[p] = 0 <=> free_head[p] = END
      BY DEF FreeListExact
    <2>1. PICK s \in SlabSizes : p \in slab_list[s]
      BY InSlabs
    <2> DEFINE F == FreeIn(p, s, live)
    <2>2. /\ obj_size[p] = s /\ free_count[p] = Cardinality(F)
          /\ FreeList(free_head[p], word[p], ObjCount(s), F)
      BY <2>1, Zenon DEF HeapInv, SlabsExact
    <2>3. FreeObjs(p) = Reach(free_head[p], word[p], ObjCount(s))
      BY <2>2, Zenon DEF FreeObjs, Reach
    <2>4. LiveObjs(p) = LiveIn(p, s, live)
      BY <2>2, Zenon DEF LiveObjs, LiveIn
    <2>5. FreeObjs(p) = F /\ F = (0..(ObjCount(obj_size[p]) - 1)) \ LiveObjs(p)
      BY <2>2, <2>3, <2>4, Zenon DEF FreeList, FreeIn
    <2>6. Cardinality(F) = 0 <=> F = {}
      BY FreeInFinite, FS_EmptySet
    <2>7. F = {} <=> free_head[p] = END
      <3>1. free_head[p] # END => free_head[p] \in F
        BY <2>2, Zenon DEF FreeList
      <3> QED
        BY <2>2, <3>1, EmptyList, Zenon
    <2> QED
      BY <2>2, <2>5, <2>6, <2>7, Zenon
  <1> QED
    BY <1>1, HeapInvariant, PTL

(* Every page marked used has exactly one owner: the kernel, another user,  *)
(* one slab or one large block; no page leaks.                              *)
THEOREM PagesHaveOneOwner == Spec => [](PagesOwned /\ KernelKept)
  <1>1. HeapInv => PagesOwned /\ KernelKept
    BY DEF HeapInv
  <1> QED
    BY <1>1, HeapInvariant, PTL

(* total_committed is the size of the heap's pages, so the subtractions of  *)
(* kfree and kheap_reclaim never take it below zero.                        *)
THEOREM CommittedIsExact == Spec => []CommittedExact
  <1>1. HeapInv => CommittedExact
    BY DEF HeapInv
  <1> QED
    BY <1>1, HeapInvariant, PTL

(* The bytes of small allocation a lie in its object.                       *)
LEMMA SmallBytes ==
    ASSUME HeapInv, NEW a \in Small
    PROVE  LET p == a[1] \div PageSize
           IN  /\ p \in Nat /\ a[1] \in Nat /\ a[2] \in Nat
               /\ p * PageSize + SlabHeader <= a[1]
               /\ a[1] + a[2] <= p * PageSize + PageSize
               /\ a[1] % PageSize >= SlabHeader
               /\ (a[1] % PageSize) + a[2] <= PageSize
  <1> DEFINE p == a[1] \div PageSize
             s == Class(a[2])
  <1>1. a[1] \in Nat /\ a[2] \in Nat
    BY LiveKinds DEF HeapInv
  <1>2. s \in SlabSizes /\ a[2] <= s /\ p \in Slabs /\ s \in Nat
    BY SmallAt, ConstantTypes, Zenon DEF HeapInv
  <1>3. PICK o \in 0..(ObjCount(s) - 1) : a[1] = Address(p, o, s)
    BY SmallAt DEF HeapInv
  <1>4. p \in Nat
    BY <1>2, ConstantTypes, Zenon DEF HeapInv, PagesOwned, HeapType
  <1> HIDE DEF p, s
  <1>5. /\ a[1] % PageSize = SlabHeader + o * s
        /\ SlabHeader + o * s + s <= PageSize
        /\ p * PageSize + SlabHeader <= a[1]
        /\ a[1] + s <= p * PageSize + PageSize
    BY <1>2, <1>3, <1>4, AddressOfObject
  <1>6. o * s \in Nat /\ p * PageSize \in Nat
    BY <1>2, <1>4, MulNat, ConstantTypes
  <1>7. /\ p * PageSize + SlabHeader <= a[1]
        /\ a[1] + a[2] <= p * PageSize + PageSize
        /\ a[1] % PageSize >= SlabHeader
        /\ (a[1] % PageSize) + a[2] <= PageSize
    BY <1>1, <1>2, <1>5, <1>6, ConstantTypes
  <1> QED
    BY <1>1, <1>4, <1>7 DEF p

LEMMA LargeBytes ==
    ASSUME HeapInv, NEW a \in Large
    PROVE  LET p == a[1] \div PageSize
           IN  /\ p \in Nat /\ a[1] \in Nat /\ a[2] \in Nat
               /\ p * PageSize <= a[1]
               /\ a[1] + a[2] <= (p + Pages(a[2])) * PageSize
               /\ a[1] % PageSize >= LargeHeader
               /\ (a[1] % PageSize) + a[2] <= pages[p] * PageSize
  <1> DEFINE p == a[1] \div PageSize
             n == Pages(a[2])
  <1>1. a[1] \in Nat /\ a[2] \in Nat
    BY LiveKinds DEF HeapInv
  <1>2. p \in Nat /\ a[1] = p * PageSize + LargeHeader /\ pages[p] = n
    BY LargeAt, ConstantTypes, Zenon DEF HeapInv
  <1> HIDE DEF p
  <1>3. /\ a[1] % PageSize = LargeHeader
        /\ n \in Nat \ {0}
        /\ LargeHeader + a[2] <= n * PageSize
        /\ (p + n) * PageSize = p * PageSize + n * PageSize
    BY <1>1, <1>2, AddressOfLarge, Zenon
  <1> HIDE DEF n
  <1>4. p * PageSize \in Nat /\ n * PageSize \in Nat
    BY <1>2, <1>3, MulNat, ConstantTypes
  <1>5. /\ p * PageSize <= a[1]
        /\ a[1] + a[2] <= (p + n) * PageSize
        /\ a[1] % PageSize >= LargeHeader
        /\ (a[1] % PageSize) + a[2] <= n * PageSize
    BY <1>1, <1>2, <1>3, <1>4, ConstantTypes
  <1> QED
    BY <1>1, <1>2, <1>5, Zenon DEF p, n

(* The pages of an allocation: those of its block, or its slab's page.      *)
PagesOf(a) == IF a \in Small THEN {a[1] \div PageSize} ELSE LargeOf(a)

LEMMA Extent ==
    ASSUME HeapInv, NEW a \in live
    PROVE  \E k \in Nat \ {0} :
              LET p == a[1] \div PageSize
              IN  /\ p \in Nat /\ PagesOf(a) = Block(p, k)
                  /\ p * PageSize <= a[1]
                  /\ a[1] + a[2] <= (p + k) * PageSize
  <1> DEFINE p == a[1] \div PageSize
  <1>1. CASE a \in Small
    <2>1. /\ p \in Nat /\ a[1] \in Nat /\ a[2] \in Nat
          /\ p * PageSize + SlabHeader <= a[1]
          /\ a[1] + a[2] <= p * PageSize + PageSize
      BY <1>1, SmallBytes
    <2>2. PagesOf(a) = {p}
      BY <1>1 DEF PagesOf
    <2> HIDE DEF p
    <2>3. p * PageSize \in Nat /\ (p + 1) * PageSize = p * PageSize + PageSize
      BY <2>1, MulNat, ConstantTypes
    <2>4. Block(p, 1) = {p}
      BY <2>1 DEF Block
    <2>5. p * PageSize <= a[1] /\ a[1] + a[2] <= (p + 1) * PageSize
      BY <2>1, <2>3, ConstantTypes
    <2> QED
      BY <2>1, <2>2, <2>4, <2>5 DEF p
  <1>2. CASE a \in Large
    <2>1. a \notin Small
      BY <1>2, LiveKinds DEF HeapInv
    <2>2. PagesOf(a) = Block(p, Pages(a[2])) /\ Pages(a[2]) \in Nat \ {0}
      BY <1>2, <2>1, LargeAt DEF PagesOf, HeapInv
    <2> QED
      BY <1>2, <2>2, LargeBytes
  <1> QED
    BY <1>1, <1>2, LiveKinds DEF HeapInv

(* Two objects of one slab are apart.                                       *)
LEMMA SameSlab ==
    ASSUME HeapInv, NEW a \in Small, NEW b \in Small, a # b,
           a[1] \div PageSize = b[1] \div PageSize
    PROVE  a[1] + a[2] <= b[1] \/ b[1] + b[2] <= a[1]
  <1> DEFINE p == a[1] \div PageSize
             s == Class(a[2])
  <1> USE DEF HeapInv
  <1>1. /\ s \in SlabSizes /\ a[2] <= s /\ p \in slab_list[s]
        /\ Class(b[2]) \in SlabSizes /\ b[2] <= Class(b[2]) /\ p \in slab_list[Class(b[2])]
    BY SmallAt, Zenon
  <1>2. Class(b[2]) = s
    BY <1>1, Zenon DEF PagesOwned
  <1>3. PICK o \in 0..(ObjCount(s) - 1) : a[1] = Address(p, o, s)
    BY SmallAt
  <1>4. PICK q \in 0..(ObjCount(s) - 1) : b[1] = Address(p, q, s)
    BY <1>2, SmallAt, Zenon
  <1>5. /\ p \in Nat /\ s \in Nat \ {0} /\ a[2] \in Nat /\ b[2] \in Nat
        /\ a[1] # b[1] /\ PageSize \in Nat /\ SlabHeader \in Nat
    BY <1>1, LiveKinds, ConstantTypes, Zenon DEF HeapType, AddressesDiffer
  <1> HIDE DEF p, s
  <1>6. o # q /\ o \in Nat /\ q \in Nat /\ b[2] <= s
    BY <1>1, <1>2, <1>3, <1>4, <1>5
  <1>7. o * s \in Nat /\ q * s \in Nat /\ p * PageSize \in Nat
    BY <1>5, <1>6, MulNat
  <1>8. CASE o < q
    <2>1. o * s + s <= q * s
      BY <1>5, <1>6, <1>8, MulStep
    <2> QED
      BY <1>1, <1>3, <1>4, <1>5, <1>7, <2>1 DEF Address
  <1>9. CASE q < o
    <2>1. q * s + s <= o * s
      BY <1>5, <1>6, <1>9, MulStep
    <2> QED
      BY <1>3, <1>4, <1>5, <1>6, <1>7, <2>1 DEF Address
  <1> QED
    BY <1>6, <1>8, <1>9

(* Allocations that share no page are apart.                                *)
LEMMA DisjointPages ==
    ASSUME HeapInv, NEW a \in live, NEW b \in live, PagesOf(a) \cap PagesOf(b) = {}
    PROVE  a[1] + a[2] <= b[1] \/ b[1] + b[2] <= a[1]
  <1> DEFINE p == a[1] \div PageSize
             q == b[1] \div PageSize
  <1>1. PICK k \in Nat \ {0} :
            /\ p \in Nat /\ PagesOf(a) = Block(p, k)
            /\ p * PageSize <= a[1]
            /\ a[1] + a[2] <= (p + k) * PageSize
    BY Extent
  <1>2. PICK m \in Nat \ {0} :
            /\ q \in Nat /\ PagesOf(b) = Block(q, m)
            /\ q * PageSize <= b[1]
            /\ b[1] + b[2] <= (q + m) * PageSize
    BY Extent
  <1>3. a[1] \in Nat /\ a[2] \in Nat /\ b[1] \in Nat /\ b[2] \in Nat /\ PageSize \in Nat
    BY LiveKinds, ConstantTypes DEF HeapInv
  <1> HIDE DEF p, q
  <1>4. p \in Block(p, k) /\ q \in Block(q, m)
    BY <1>1, <1>2 DEF Block
  <1>5. p + k <= q \/ q + m <= p
    <2>1. q \notin Block(p, k) /\ p \notin Block(q, m)
      BY <1>1, <1>2, <1>4
    <2> QED
      BY <1>1, <1>2, <2>1 DEF Block
  <1>6. /\ (p + k) * PageSize \in Nat /\ (q + m) * PageSize \in Nat
        /\ p * PageSize \in Nat /\ q * PageSize \in Nat
    BY <1>1, <1>2, <1>3, MulNat
  <1>7. CASE p + k <= q
    <2>1. (p + k) * PageSize <= q * PageSize
      BY <1>1, <1>2, <1>3, <1>7, <1>6, MulStep
    <2> QED
      BY <1>1, <1>2, <1>3, <1>6, <2>1
  <1>8. CASE q + m <= p
    <2>1. (q + m) * PageSize <= p * PageSize
      BY <1>1, <1>2, <1>3, <1>8, <1>6, MulStep
    <2> QED
      BY <1>1, <1>2, <1>3, <1>6, <2>1
  <1> QED
    BY <1>5, <1>7, <1>8

(* No caller's bytes overlap another's, a header, or what kfree gives back. *)
THEOREM AllocationsApart == Spec => []NoOverlap
  <1>1. HeapInv => NoOverlap
    <2> SUFFICES ASSUME HeapInv PROVE NoOverlap
      OBVIOUS
    <2> USE DEF HeapInv
    <2>1. ASSUME NEW a \in live, NEW b \in live, a # b
          PROVE  a[1] + a[2] <= b[1] \/ b[1] + b[2] <= a[1]
      <3>1. CASE a \in Small /\ b \in Small
        <4>1. CASE a[1] \div PageSize = b[1] \div PageSize
          BY <2>1, <3>1, <4>1, SameSlab
        <4>2. CASE a[1] \div PageSize # b[1] \div PageSize
          <5>1. PagesOf(a) \cap PagesOf(b) = {}
            BY <3>1, <4>2 DEF PagesOf
          <5> QED
            BY <5>1, DisjointPages
        <4> QED
          BY <4>1, <4>2
      <3>2. CASE ~(a \in Small /\ b \in Small)
        <4>1. /\ \A c \in Small : PagesOf(c) \subseteq Slabs
              /\ \A c \in Large : PagesOf(c) = LargeOf(c) /\ PagesOf(c) \subseteq LargePages
          BY SmallAt, LargeAt, LiveKinds, Zenon DEF PagesOf
        <4>2. PagesOf(a) \cap PagesOf(b) = {}
          BY <2>1, <3>2, <4>1, LiveKinds DEF PagesOwned
        <4> QED
          BY <4>2, DisjointPages
      <3> QED
        BY <3>1, <3>2
    <2>2. ASSUME NEW a \in live
          PROVE  LET off   == a[1] % PageSize
                     large == a[2] > SlabMax
                     size  == IF large THEN pages[a[1] \div PageSize] * PageSize
                              ELSE PageSize
                 IN  /\ off >= IF large THEN LargeHeader ELSE SlabHeader
                     /\ off + a[2] <= size
      <3>1. CASE a \in Small
        <4>1. ~(a[2] > SlabMax)
          BY <3>1, LiveKinds, ConstantTypes DEF Small
        <4> QED
          BY <3>1, <4>1, SmallBytes
      <3>2. CASE a \in Large
        <4>1. a[2] > SlabMax
          BY <3>2 DEF Large
        <4> QED
          BY <3>2, <4>1, LargeBytes
      <3> QED
        BY <3>1, <3>2, LiveKinds
    <2> QED
      BY <2>1, <2>2 DEF NoOverlap
  <1> QED
    BY <1>1, HeapInvariant, PTL

(* Type correctness; total_committed never goes below zero.                 *)
THEOREM HeapTypeCorrect == Spec => []TypeOK
  <1>1. HeapInv => TypeOK
    <2> SUFFICES ASSUME HeapInv PROVE TypeOK
      OBVIOUS
    <2>1. total_committed \in Nat
      BY HeapPagesFinite, MulNat, ConstantTypes DEF HeapInv, CommittedExact
    <2> QED
      BY <2>1 DEF TypeOK, HeapInv, HeapType, PagesOwned
  <1> QED
    BY <1>1, HeapInvariant, PTL

=============================================================================
