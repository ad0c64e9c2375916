-------------------------------- MODULE Paging --------------------------------
(***************************************************************************)
(* Address spaces: page directories and tables (src/mm/paging.c), sbrk      *)
(* (src/mm/sbrk.c), and what program loading (src/kernel/exec.c, elf.c) and *)
(* fork map.                                                                *)
(*                                                                          *)
(* Three page tables of an address space matter: the ones with the user     *)
(* stack (directory entry 1), the heap (entry 4) and the code of programs   *)
(* (entry 32).  In the kernel's directory all three belong to the identity  *)
(* map; a clone shares a table until its directory entry is a user entry.   *)
(*                                                                          *)
(* Memory is small enough to stay below the addresses of the user stack, so *)
(* that the identity map serves for every frame of the PMM (7 MB of the     *)
(* code's 128 MB).                                                          *)
(***************************************************************************)
EXTENDS PMMBitmap, SequencesExt

CONSTANTS
    KernelBlocks,   \* frames the PMM never gives out
    MaxPid,         \* bound: no more forks after this pid
    Entries,        \* entries of a page table, 1024 in the code
    CodePages,      \* pages of a program's image
    StackPages,     \* USER_STACK_PAGES, 256
    PageUnits,      \* program_break counts units, PageUnits of them a page
    Increments,     \* bound: how far sbrk moves the break, up or down
    SbrkMaxPages,   \* SBRK_MAX_PAGES, 128
    KPages,         \* pages of a kernel stack, 8
    KSlots          \* kernel stacks that the last directory entry has room for

ASSUME PagingAssumption ==
    /\ KernelBlocks \in 1..TotalBlocks /\ MaxPid \in Nat \ {0}
    /\ CodePages \in 1..(Entries - 1) /\ StackPages \in 1..(Entries - 1)
    /\ PageUnits \in Nat \ {0} /\ SbrkMaxPages \in Nat \ {0}
    /\ Increments \subseteq Nat \ {0}
    /\ KPages \in Nat \ {0} /\ KSlots \in 2..(MaxPid + 1)

Shell == 1
Pids == Shell..MaxPid

RegionSet == {"stack", "heap", "code"}
KernelTable == [r \in RegionSet |-> IF r = "stack" THEN -1 ELSE IF r = "heap" THEN -2 ELSE -3]
Tables == Frames \cup {-1, -2, -3}

(* Values of the frame field of an entry besides a frame of the PMM: the    *)
(* page's own address, the table itself, entry not present.                 *)
Identity == -1
Self == -2
Absent == -3
PTE == [frame : Frames \cup {Identity, Self, Absent}, user : BOOLEAN]
IdentityPTE == [frame |-> Identity, user |-> FALSE]

Idx == 0..(Entries - 1)
(* The entries of the image and of the stack: neither starts at entry 0.    *)
CodeIdx == 1..CodePages
StackIdx == (Entries - StackPages)..(Entries - 1)

(* A task in the kernel before execve, between loading and mapping the      *)
(* stack, in user mode, after a failed execve took away its image.          *)
States == {"none", "kernel", "loaded", "user", "broken", "dead", "reaped"}

VARIABLES
    pmm_bitmap,
    dir,            \* [pid -> [region -> [table, user]]]
    pte,            \* [table -> [entry -> PTE]]
    kstack_pt,      \* the frames of the entries of the kernel stacks' table
    program_break,  \* in units from the start of the heap
    heap_end,       \* in pages from the start of the heap
    state,          \* of a pid: see States
    next_pid,
    waits_for       \* the child that the shell waits for, or Shell

vars == <<pmm_bitmap, dir, pte, kstack_pt, program_break, heap_end, state,
          next_pid, waits_for>>

KernelDir == [r \in RegionSet |-> [table |-> KernelTable[r], user |-> FALSE]]
NoDir == KernelDir      \* of pids that do not exist

KIdx == 0..(KSlots * KPages - 1)
(* Behind the end of the table lies, by the self map in entry 0, its start. *)
KSlot(pid) == {(pid * KPages + i) % (KSlots * KPages) : i \in 0..(KPages - 1)}

(* The members of S in ascending order.                                     *)
Sorted(S) ==
    [k \in 1..Cardinality(S) |->
        CHOOSE x \in S : Cardinality({y \in S : y < x}) = k - 1]

(* The frames the next allocations return, in order.                        *)
FreeSeq(bitmap) == Sorted(Frames \ bitmap)

Init ==
    /\ \E stack \in [KSlot(Shell) -> Frames] :
         /\ \A i, j \in KSlot(Shell) : i < j => stack[i] < stack[j]
         /\ Range(stack) = KernelBlocks..(KernelBlocks + KPages - 1)
         /\ kstack_pt = [i \in KIdx |-> IF i \in KSlot(Shell) THEN stack[i]
                                        ELSE IF i = 0 THEN Self ELSE Absent]
    /\ pmm_bitmap = 0..(KernelBlocks + KPages - 1)
    /\ dir = [p \in Pids |-> NoDir]
    /\ pte = [t \in Tables |-> [j \in Idx |-> IdentityPTE]]
    /\ program_break = 0
    /\ heap_end = 0
    /\ state = [p \in Pids |-> IF p = Shell THEN "kernel" ELSE "none"]
    /\ next_pid = Shell + 1
    /\ waits_for = Shell

-----------------------------------------------------------------------------

(* What clone_page_directory allocates, in order: the directory, and for    *)
(* each table that it does not share the table and its user pages.          *)
Cloned(p, r) == dir[p][r].user \/ r = "code"
ClonePlan(p) ==
    LET pagesOf(r) == SelectSeq([k \in 1..Entries |-> <<"page", r, k - 1>>],
                                LAMBDA x : pte[dir[p][r].table][x[3]].user)
        planOf(r)  == IF Cloned(p, r) THEN <<<<"table", r, 0>>>> \o pagesOf(r) ELSE <<>>
    IN  <<<<"dir", "", 0>>>> \o planOf("stack") \o planOf("heap") \o planOf("code")

(* Mutant: user pages are shared, not copied.                               *)
ClonedTableShared(p, r, frame) ==
    [j \in Idx |-> IF j = 0 THEN [frame |-> Self, user |-> FALSE]
                  ELSE pte[dir[p][r].table][j]]

(* The table and the directory entry that the clone has for region r, when  *)
(* frame[x] is the frame allocated for x.  The last write to a new table    *)
(* maps its entry 0 to the table itself.                                    *)
ClonedTable(p, r, frame) ==
    [j \in Idx |->
        LET src == pte[dir[p][r].table][j]
        IN  IF j = 0 THEN [frame |-> Self, user |-> FALSE]
            ELSE IF src.user THEN [src EXCEPT !.frame = frame[<<"page", r, j>>]]
            ELSE src]

ClonedEntry(p, r, frame) ==
    IF Cloned(p, r) THEN [table |-> frame[<<"table", r, 0>>], user |-> TRUE]
                    ELSE dir[p][r]

(* alloc_kernel_stack: nothing if the slot is in use or memory runs out.    *)
KStackFits(pid, bitmap) ==
    /\ \A i \in KSlot(pid) : kstack_pt[i] = Absent
    /\ Cardinality(Frames \ bitmap) >= KPages

(* fork and kernel_fork of p, interrupts off.  A program's child continues  *)
(* in user mode, the shell's in the kernel.                                 *)
MayFork(p) ==
    /\ next_pid <= MaxPid
    /\ state[p] = "user" \/ (p = Shell /\ waits_for = Shell)

(* Out of memory while cloning: the tables and the directory are freed, the *)
(* pages copied so far are not.                                             *)
ForkNoMemory(p) ==
    LET plan == ClonePlan(p)
        free == FreeSeq(pmm_bitmap)
    IN  /\ MayFork(p)
        /\ Len(free) < Len(plan)
        /\ pmm_bitmap' = pmm_bitmap \cup {free[k] : k \in {k \in 1..Len(free) : plan[k][1] = "page"}}
        /\ UNCHANGED <<dir, pte, kstack_pt, program_break, heap_end, state,
                       next_pid, waits_for>>

CloneInto(p, c) ==
    LET plan     == ClonePlan(p)
        free     == FreeSeq(pmm_bitmap)
        frame    == [x \in Range(plan) |-> free[CHOOSE k \in 1..Len(plan) : plan[k] = x]]
        regions  == {r \in RegionSet : Cloned(p, r)}
    IN  /\ Len(free) >= Len(plan)
        /\ dir' = [dir EXCEPT ![c] = [r \in RegionSet |-> ClonedEntry(p, r, frame)]]
        /\ pte' = [t \in Tables |->
                      IF \E r \in regions : frame[<<"table", r, 0>>] = t
                        THEN ClonedTable(p, CHOOSE r \in regions : frame[<<"table", r, 0>>] = t, frame)
                        ELSE pte[t]]

AfterClone(p) ==
    LET free == FreeSeq(pmm_bitmap)
    IN  pmm_bitmap \cup {free[k] : k \in 1..Len(ClonePlan(p))}

(* No kernel stack for the child: the pid and the clone are lost.           *)
ForkNoStack(p) ==
    /\ MayFork(p)
    /\ CloneInto(p, next_pid)
    /\ ~KStackFits(next_pid, AfterClone(p))
    /\ pmm_bitmap' = AfterClone(p)
    /\ next_pid' = next_pid + 1
    /\ UNCHANGED <<kstack_pt, program_break, heap_end, state, waits_for>>

Fork(p) ==
    LET c    == next_pid
        free == FreeSeq(AfterClone(p))
        slot == Sorted(KSlot(c))
    IN  /\ MayFork(p)
        /\ CloneInto(p, c)
        /\ KStackFits(c, AfterClone(p))
        /\ pmm_bitmap' = AfterClone(p) \cup {free[k] : k \in 1..KPages}
        /\ kstack_pt' = [i \in KIdx |-> IF i \in KSlot(c)
                                          THEN free[CHOOSE k \in 1..KPages : slot[k] = i]
                                          ELSE kstack_pt[i]]
        /\ state' = [state EXCEPT ![c] = IF p = Shell THEN "kernel" ELSE "user"]
        /\ next_pid' = c + 1
        /\ waits_for' = IF p = Shell THEN c ELSE waits_for
        /\ UNCHANGED <<program_break, heap_end>>

-----------------------------------------------------------------------------
(* map_page for the entries in the sequence idx of region r of task p, one  *)
(* new frame each: the table is whichever one the directory has, and the    *)
(* entry of the directory becomes a user entry.                             *)
MapUser(p, r, idx) ==
    LET t    == dir[p][r].table
        free == FreeSeq(pmm_bitmap)
    IN  /\ pte' = [pte EXCEPT ![t] = [j \in Idx |->
                      IF j \in Range(idx)
                        THEN [frame |-> free[CHOOSE k \in DOMAIN idx : idx[k] = j], user |-> TRUE]
                        ELSE pte[t][j]]]
        /\ dir' = [dir EXCEPT ![p][r].user = @ \/ idx # <<>>]

(* The first n entries in the order they are mapped.                        *)
CodeFirst(n) == [k \in 1..n |-> k]
StackFirst(n) == [k \in 1..n |-> Entries - k]
HeapNext(n) == [k \in 1..n |-> heap_end + k - 1]

Taken(n) == {FreeSeq(pmm_bitmap)[k] : k \in 1..n}
NFree == Cardinality(Frames \ pmm_bitmap)

(* elf_load_with_args: map and fill the segment; on failure the pages that  *)
(* were mapped stay.  execve_file of a program loads over its own image.    *)
LoadSegment(p) ==
    LET n == IF NFree < CodePages THEN NFree ELSE CodePages
    IN  /\ p # Shell
        /\ state[p] \in {"kernel", "user"}
        /\ MapUser(p, "code", CodeFirst(n))
        /\ pmm_bitmap' = pmm_bitmap \cup Taken(n)
        /\ state' = [state EXCEPT ![p] =
                        IF n = CodePages THEN "loaded"
                        ELSE IF @ = "user" THEN "broken" ELSE "dead"]
        /\ UNCHANGED <<kstack_pt, program_break, heap_end, next_pid, waits_for>>

(* Mutant: execve does not look at what map_user_stack returns.             *)
MapStackUnchecked(p) ==
    LET n == IF NFree < StackPages THEN NFree ELSE StackPages
    IN  /\ state[p] = "loaded"
        /\ MapUser(p, "stack", StackFirst(n))
        /\ pmm_bitmap' = IF n = StackPages THEN pmm_bitmap \cup Taken(n) ELSE pmm_bitmap
        /\ state' = [state EXCEPT ![p] = "user"]
        /\ UNCHANGED <<kstack_pt, program_break, heap_end, next_pid, waits_for>>

(* map_user_stack, from the top down; on failure the frames are freed, the  *)
(* entries stay.                                                            *)
MapStack(p) ==
    /\ state[p] = "loaded"
    /\ \/ /\ NFree >= StackPages
          /\ MapUser(p, "stack", StackFirst(StackPages))
          /\ pmm_bitmap' = pmm_bitmap \cup Taken(StackPages)
          /\ state' = [state EXCEPT ![p] = "user"]
       \/ /\ NFree < StackPages
          /\ MapUser(p, "stack", StackFirst(NFree))
          /\ state' = [state EXCEPT ![p] = "broken"]
          /\ UNCHANGED pmm_bitmap
    /\ UNCHANGED <<kstack_pt, program_break, heap_end, next_pid, waits_for>>

-----------------------------------------------------------------------------

(* sbrk of a program, a system call.  Break and end are the kernel's, not   *)
(* the task's.                                                              *)
PagesFor(break) == (break + PageUnits - 1) \div PageUnits

SbrkGrow(p, inc) ==
    LET need == PagesFor(program_break + inc) - heap_end
        n    == IF need > 0 THEN need ELSE 0
    IN  /\ state[p] = "user"
        /\ heap_end + n <= Entries          \* bound: the heap stays in its table
        /\ n <= SbrkMaxPages /\ n <= NFree
        /\ MapUser(p, "heap", HeapNext(n))
        /\ pmm_bitmap' = pmm_bitmap \cup Taken(n)
        /\ heap_end' = heap_end + n
        /\ program_break' = program_break + inc
        /\ UNCHANGED <<kstack_pt, state, next_pid, waits_for>>

(* Too many pages or no memory: what was mapped is freed, the entries stay; *)
(* the frame that was one too many is not freed.                            *)
SbrkFails(p, inc) ==
    LET need == PagesFor(program_break + inc) - heap_end
        n    == IF NFree < SbrkMaxPages THEN NFree ELSE SbrkMaxPages
    IN  /\ state[p] = "user"
        /\ heap_end + n <= Entries
        /\ need > n
        /\ MapUser(p, "heap", HeapNext(n))
        /\ pmm_bitmap' = IF NFree > SbrkMaxPages
                           THEN pmm_bitmap \cup {FreeSeq(pmm_bitmap)[n + 1]}
                           ELSE pmm_bitmap
        /\ UNCHANGED <<kstack_pt, program_break, heap_end, state, next_pid, waits_for>>

SbrkShrink(p, dec) ==
    /\ state[p] = "user"
    /\ dec <= program_break
    /\ program_break' = program_break - dec
    /\ UNCHANGED <<pmm_bitmap, dir, pte, kstack_pt, heap_end, state, next_pid,
                   waits_for>>

-----------------------------------------------------------------------------
(* Mutant: the task that ends frees the kernel stack it is running on.      *)
ExitFreesStack(p) ==
    /\ p # Shell
    /\ state[p] \in {"kernel", "user", "broken"}
    /\ state' = [state EXCEPT ![p] = "dead"]
    /\ pmm_bitmap' = pmm_bitmap \ {kstack_pt[i] : i \in KSlot(p)}
    /\ UNCHANGED <<dir, pte, kstack_pt, program_break, heap_end, next_pid, waits_for>>

(* A task ends (a shell's child also if execve finds no program); its dir-  *)
(* ectory, tables and pages are never freed.                                *)
Exit(p) ==
    /\ p # Shell
    /\ state[p] \in {"kernel", "user", "broken"}
    /\ state' = [state EXCEPT ![p] = "dead"]
    /\ UNCHANGED <<pmm_bitmap, dir, pte, kstack_pt, program_break, heap_end,
                   next_pid, waits_for>>

(* waitpid reaps it: free_kernel_stack.  The shell goes on when the child   *)
(* it waits for is reaped.                                                  *)
Reap(p) ==
    LET freed == {kstack_pt[i] : i \in KSlot(p)} \cap Frames
    IN  /\ state[p] = "dead"
        /\ pmm_bitmap' = pmm_bitmap \ freed
        /\ kstack_pt' = [i \in KIdx |-> IF i \in KSlot(p) THEN Absent ELSE kstack_pt[i]]
        /\ state' = [state EXCEPT ![p] = "reaped"]
        /\ waits_for' = IF waits_for = p THEN Shell ELSE waits_for
        /\ UNCHANGED <<dir, pte, program_break, heap_end, next_pid>>

Next ==
    \E p \in Pids :
        \/ Fork(p) \/ ForkNoMemory(p) \/ ForkNoStack(p)
        \/ LoadSegment(p) \/ MapStack(p)
        \/ \E inc \in Increments : SbrkGrow(p, inc) \/ SbrkFails(p, inc) \/ SbrkShrink(p, inc)
        \/ Exit(p) \/ Reap(p)

Spec == Init /\ [][Next]_vars

-----------------------------------------------------------------------------
(* Properties *)

(* Directories and tables map pages to frames of memory.                    *)
TypeOK ==
    /\ pmm_bitmap \subseteq Frames
    /\ dir \in [Pids -> [RegionSet -> [table : Tables, user : BOOLEAN]]]
    /\ pte \in [Tables -> [Idx -> PTE]]
    /\ kstack_pt \in [KIdx -> Frames \cup {Self, Absent}]
    /\ program_break \in 0..(heap_end * PageUnits)
    /\ heap_end \in 0..Entries
    /\ state \in [Pids -> States]
    /\ next_pid \in 2..(MaxPid + 1)
    /\ waits_for \in Pids

(* What user mode sees of task p: both entries have to be user entries.     *)
UserPages(p) ==
    {x \in RegionSet \X Idx : dir[p][x[1]].user /\ pte[dir[p][x[1]].table][x[2]].user}
FrameOf(p, x) == pte[dir[p][x[1]].table][x[2]].frame

Image == ({"code"} \X CodeIdx) \cup ({"stack"} \X StackIdx)
Programs == {p \in Pids : state[p] = "user"}
ImageFrames(p) == {FrameOf(p, x) : x \in Image}

(* A program in user mode has its image and its whole stack mapped, on      *)
(* frames of its own that the PMM counts as used, whatever forks, execs,    *)
(* sbrks, failures and reaps have happened in the tables it shares.         *)
ImageMapped ==
    \A p \in Programs :
        /\ Image \subseteq UserPages(p)
        /\ ImageFrames(p) \subseteq pmm_bitmap
        /\ Cardinality(ImageFrames(p)) = Cardinality(Image)

(* Programs that run at the same time share no frame of image or stack.     *)
(* Stacks of the shell's children are mapped in a table they share, so this *)
(* rests on the shell's waiting for one child before it starts another.     *)
ImagePrivate ==
    \A p, q \in Programs : p # q => ImageFrames(p) \cap ImageFrames(q) = {}

(* Every task that is not reaped has a kernel stack of allocated frames     *)
(* that is no other task's and in nobody's image, failed forks and pids     *)
(* beyond the last slot included.                                           *)
KStackFrames(p) == {kstack_pt[i] : i \in KSlot(p)}
KStacksOwned ==
    LET tasks == {p \in Pids : state[p] \notin {"none", "reaped"}}
    IN  /\ \A p \in tasks : KStackFrames(p) \subseteq pmm_bitmap
        /\ \A p, q \in tasks : p # q => KStackFrames(p) \cap KStackFrames(q) = {}
        /\ \A p \in tasks, q \in Programs : KStackFrames(p) \cap ImageFrames(q) = {}
=============================================================================
