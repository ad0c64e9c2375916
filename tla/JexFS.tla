------------------------------- MODULE JexFS -------------------------------
(***************************************************************************)
(* The JexFS v2 driver (src/src/fs/jexfs.c), the descriptor table of the   *)
(* VFS above it (src/src/fs/fs.c) and the tool that makes the image        *)
(* (src/tools/mkjexfs.c).                                                  *)
(*                                                                         *)
(* The disk is the two bitmaps, the inode table and the data blocks.  Each *)
(* C function is an operator on a record s: the disk s.d, the disks after  *)
(* each block written so far s.log, the inode in memory s.n, the result    *)
(* s.r (a number, or a negative error code, after which the operators of   *)
(* the same call do nothing), the locals s.ino, s.own, s.tmp, s.curr, and  *)
(* s.bad, the first defect met.  An action runs a whole call; a power      *)
(* failure leaves the disk as it was after some proper prefix of the       *)
(* call's writes.                                                          *)
(*                                                                         *)
(* Sizes are scaled: a directory block has BC cells and an entry takes     *)
(* HdrLen cells and one per character; a file block has BU units; an inode *)
(* pointer block has EPB entries.  A name is a number, and its length      *)
(* follows from it.  The current directory is always the root: the shell's *)
(* "cd" compares the whole mode word with 2 (shell.c:1149), permission     *)
(* bits included, so it refuses every directory.                           *)
(*                                                                         *)
(* The code has defects after which nothing is promised of the disk; s.bad *)
(* and the variable spoiled name the first one met:                        *)
(*   hang      a scan reaches the last HdrLen-1 cells of a block           *)
(*   overflow  an entry is put where it does not fit in its block          *)
(*   stale_dir a directory takes a block that holds old contents           *)
(*   straddle  an inode that crosses a block boundary is allocated         *)
(*   stale_fd  a write through a descriptor whose file was removed         *)
(*   dir_write a write through a descriptor opened on a directory          *)
(*   torn      a power failure inside jexfs_remove                         *)
(*   short     a shorter name is put in a slot: later entries misalign     *)
(*   root_gone the root is removed through "." or ".."                     *)
(***************************************************************************)
EXTENDS Integers, Sequences, FiniteSets, SequencesExt

CONSTANTS Names,        \* numbers that stand for names
          SlashNames,   \* the names also used with a leading slash
          TotalBlocks,  \* data blocks, numbered 1 .. TotalBlocks
          TotalInodes,  \* inodes 1 .. TotalInodes-1; 1 is the root
          InodeLen, InodeBlockLen,  \* sizes of an inode and of a table block
          BC, HdrLen,   \* cells of a directory block, of an entry's header
          BU,           \* units of a file block
          Direct, EPB,  \* direct pointers, pointers of an indirect block
          MaxLB,        \* bound: logical blocks a write may reach
          MaxOpen,      \* slots of the descriptor table
          Vals,         \* unit values written
          Sizes,        \* units per read or write
          Offsets,      \* where fs_seek goes
          MaxCalls, MaxFaults,  \* bounds: calls that write to the disk, power failures
          ImageNames, ImageUnits  \* files mkjexfs may pack, units of each

ASSUME SizesAssumption ==
    /\ SlashNames \subseteq Names /\ Names \subseteq Nat \ {0}
    /\ {TotalBlocks, TotalInodes, BC, HdrLen, BU, Direct, EPB, MaxOpen} \subseteq Nat \ {0}
    /\ Vals \subseteq Nat \ {0} /\ Sizes \subseteq Nat
    /\ ImageNames \subseteq Names /\ ImageUnits \in 0 .. Direct * BU

VARIABLES disk,     \* what survives a power failure
          fds,      \* file_table: per descriptor used, ino, off; live is history
          spoiled,  \* the first defect met, "none" before that
          store,    \* history: the files that a search of the root reaches on disk
          calls,    \* calls made that wrote to the disk, at most MaxCalls
          faults    \* power failures and restarts, at most MaxFaults

vars == <<disk, fds, spoiled, store, calls, faults>>

Root   == 1
Blocks == 1 .. TotalBlocks
Inodes == 1 .. TotalInodes - 1
ENOENT == -2
EFBIG  == -27
ENOSPC == -28
EIO    == -5
HANG   == -100
Hole   == -2    \* the unit of a block that is not there

(* Names as stored: an absolute path is stored with its slash, and looked  *)
(* up without it. *)
Name(slash, base) == [slash |-> slash, base |-> base]
Paths    == {Name(FALSE, n) : n \in Names} \cup {Name(TRUE, n) : n \in SlashNames}
NoName   == Name(FALSE, 0)
Dot      == Name(FALSE, -1)
DotDot   == Name(FALSE, -2)
AllNames == Paths \cup {Dot, DotDot}
NameLen(p) == (IF p.slash THEN 1 ELSE 0)
              + (IF p.base < 0 THEN -p.base ELSE ((p.base + 1) % 2) + 1)
EntryLen(p) == HdrLen + NameLen(p)

(***************************************************************************)
(* Block contents.  A cell is <<inode, name>> at the start of an entry,    *)
(* Zero where nothing was written and Char inside a name.                  *)
(***************************************************************************)
Zero == <<0, NoName>>
Char == <<1, NoName>>
ZeroBlock    == [k |-> "zero", v |-> <<>>]
CellsOf(c)   == CASE c.k = "dir" -> c.v
                  [] c.k = "zero" -> [i \in 0 .. BC - 1 |-> Zero]
                  [] OTHER -> [i \in 0 .. BC - 1 |-> Char]
TableOf(c)   == IF c.k = "tbl" THEN c.v ELSE [i \in 0 .. EPB - 1 |-> 0]
UnitsOf(c)   == CASE c.k = "data" -> c.v
                  [] c.k = "zero" -> [i \in 0 .. BU - 1 |-> 0]
                  [] OTHER -> [i \in 0 .. BU - 1 |-> -1]
DirBlock(v)   == [k |-> "dir", v |-> v]
TableBlock(v) == [k |-> "tbl", v |-> v]
DataBlock(v)  == [k |-> "data", v |-> v]

FreshInode(type) == [type |-> type, perm |-> TRUE, size |-> 0,
                     dir |-> [i \in 0 .. Direct - 1 |-> 0], ind |-> 0, dbl |-> 0]
Straddles(i) == ((i * InodeLen) % InodeBlockLen) + InodeLen > InodeBlockLen

(* The entry for p at cell `at': header, then characters. *)
PutEntry(cells, at, ino, p) ==
    [c \in DOMAIN cells |-> IF c = at THEN <<ino, p>>
                            ELSE IF c > at /\ c < at + EntryLen(p) THEN Char
                            ELSE cells[c]]

(***************************************************************************)
(* Block and inode primitives: every one that writes appends to the log.   *)
(***************************************************************************)
Start(d) == [d |-> d, log |-> <<>>, n |-> FreshInode("free"), r |-> 0, bad |-> "none",
             ino |-> 0, own |-> 0, tmp |-> 0, curr |-> 0]
Failed(s) == s.r < 0
Spoil(s, what) == IF s.bad = "none" THEN [s EXCEPT !.bad = what] ELSE s
Ret(s, r) == [s EXCEPT !.r = r]
Put(s, d) == IF Failed(s) THEN s ELSE [s EXCEPT !.d = d, !.log = Append(@, d)]
write_block(s, b, c) == Put(s, [s.d EXCEPT !.blk[b] = c])

TakeBlock(s, free) ==
    IF free = {} THEN Ret(s, ENOSPC)
    ELSE Ret(Put(s, [s.d EXCEPT !.bb = @ \cup {Min(free)}]), Min(free))
(* Mutant: the bitmap is not written back. *)
alloc_block_unsaved(s) == IF Failed(s) THEN s ELSE Ret(s, IF Blocks \subseteq s.d.bb THEN ENOSPC ELSE Min(Blocks \ s.d.bb))
alloc_block(s) == IF Failed(s) THEN s ELSE TakeBlock(s, Blocks \ s.d.bb)

free_block(s, b) == IF b = 0 THEN s ELSE Put(s, [s.d EXCEPT !.bb = @ \ {b}])

TakeInode(s, i) ==
    [Put(s, [s.d EXCEPT !.ib = @ \cup {i}]) EXCEPT
        !.r = i, !.ino = i,
        !.bad = IF @ = "none" /\ Straddles(i) THEN "straddle" ELSE @]
alloc_inode(s) == IF Inodes \subseteq s.d.ib THEN Ret(s, ENOSPC)
                  ELSE TakeInode(s, Min(Inodes \ s.d.ib))

free_inode(s, i) == IF i = 0 THEN s ELSE Put(s, [s.d EXCEPT !.ib = @ \ {i}])

write_inode(s, i, n) == [Put(s, [s.d EXCEPT !.it[i] = n]) EXCEPT !.n = n]

(***************************************************************************)
(* Logical to physical blocks: direct, single and double indirect.         *)
(***************************************************************************)
EntryOf(d, b, i) == IF b = 0 THEN 0 ELSE TableOf(d.blk[b])[i]

bmap(d, n, lb) ==
    LET a == lb - Direct
        b == a - EPB
    IN CASE lb < Direct -> n.dir[lb]
         [] a \in 0 .. EPB - 1 -> EntryOf(d, n.ind, a)
         [] b \in 0 .. (EPB * EPB) - 1 -> EntryOf(d, EntryOf(d, n.dbl, b \div EPB), b % EPB)
         [] OTHER -> 0

(* A fresh, zeroed table in the inode's single or double indirect pointer. *)
SetInd(s) == [write_block(s, s.r, ZeroBlock) EXCEPT !.n.ind = IF Failed(s) THEN 0 ELSE s.r]
WithInd(s) == IF s.n.ind # 0 THEN s ELSE SetInd(alloc_block(s))
SetDbl(s) == [write_block(s, s.r, ZeroBlock) EXCEPT !.n.dbl = IF Failed(s) THEN 0 ELSE s.r]
WithDbl(s) == IF s.n.dbl # 0 THEN s ELSE SetDbl(alloc_block(s))

SetEntry(s, b, i) == write_block(s, b, TableBlock([TableOf(s.d.blk[b]) EXCEPT ![i] = s.r]))
LinkInd(s, i) == SetEntry(s, s.n.ind, i)
bmap_single(s, i) == LinkInd(alloc_block(WithInd(s)), i)

(* The second-level table, left in s.tmp. *)
NewLevel2(s, i1) == [write_block(SetEntry(s, s.n.dbl, i1), s.r, ZeroBlock) EXCEPT !.tmp = s.r]
Level2(s, i1) ==
    CASE Failed(s) -> s
      [] ~ Failed(s) /\ EntryOf(s.d, s.n.dbl, i1) # 0 -> [s EXCEPT !.tmp = EntryOf(s.d, s.n.dbl, i1)]
      [] OTHER -> NewLevel2(alloc_block(s), i1)

(* Both levels share one buffer: l1[i1] reads an entry of the second-level *)
(* table, and that table is written to the block the entry names           *)
(* (jexfs.c:253), not to its own.                                          *)
WriteAliased(s, l2, i1) == write_block(s, l2[i1], TableBlock(l2))
LinkDbl(s, i1, i2) ==
    IF Failed(s) THEN s ELSE WriteAliased(s, [TableOf(s.d.blk[s.tmp]) EXCEPT ![i2] = s.r], i1)
bmap_double(s, i1, i2) ==
    IF i1 >= EPB THEN Ret(s, EFBIG) ELSE LinkDbl(alloc_block(Level2(WithDbl(s), i1)), i1, i2)

SetDirect(s, lb) == IF Failed(s) THEN s ELSE [s EXCEPT !.n.dir[lb] = s.r]
bmap_alloc(s, lb) ==
    CASE Failed(s) -> s
      [] ~ Failed(s) /\ bmap(s.d, s.n, lb) # 0 -> Ret(s, bmap(s.d, s.n, lb))
      [] OTHER -> CASE lb < Direct -> SetDirect(alloc_block(s), lb)
                    [] lb - Direct \in 0 .. EPB - 1 -> bmap_single(s, lb - Direct)
                    [] OTHER -> bmap_double(s, (lb - Direct - EPB) \div EPB, (lb - Direct - EPB) % EPB)

(***************************************************************************)
(* Directories.  Scan follows the entries of a directory from offset 0: it *)
(* yields the offsets and cells it visits, and why it stops.  The search   *)
(* loops do not step over the last HdrLen-1 cells of a block, so they spin *)
(* there when the directory goes on, and they stop at a hole.  The loop    *)
(* that looks for a slot goes on with the next block in both cases.        *)
(***************************************************************************)
CellAt(d, n, off) == CellsOf(d.blk[bmap(d, n, off \div BC)])[off % BC]
Stop(why) == [seen |-> <<>>, end |-> why]
Visit(at, c, rest) == [rest EXCEPT !.seen = <<[at |-> at, c |-> c]>> \o @]

Scan(d, n, forSlot) ==
    LET step[off \in 0 .. n.size + BC] ==
            LET bo == off % BC
                c  == CellAt(d, n, off)
            IN IF off >= n.size \/ (off + HdrLen > n.size /\ (bo = 0 \/ bo + HdrLen > BC)) THEN Stop("size")
               ELSE IF bo + HdrLen > BC
                    THEN IF forSlot THEN step[off + BC - bo] ELSE Stop("hang")
                    ELSE
                        IF bmap(d, n, off \div BC) = 0
                        THEN IF forSlot THEN step[off + BC - bo] ELSE Stop("hole")
                        ELSE CASE c = Zero -> Visit(off, c, Stop("marker"))
                               [] c = Char -> Stop("garbage")
                               [] OTHER -> Visit(off, c, step[off + EntryLen(c[2])])
    IN step[0]

(* The first visited offset whose cell is one of good, or why there is none. *)
FirstOf(sc, good) ==
    IF \E k \in DOMAIN sc.seen : sc.seen[k].c \in good
    THEN sc.seen[Min({k \in DOMAIN sc.seen : sc.seen[k].c \in good})].at
    ELSE IF sc.end = "hang" THEN HANG ELSE ENOENT

Live(p) == {<<i, p>> : i \in Inodes}
Lookup(d, p) == FirstOf(Scan(d, d.it[Root], FALSE), Live(p))

InodeAt(d, at) == IF at < 0 THEN at ELSE CellAt(d, d.it[Root], at)[1]
jexfs_find_entry(d, p) == InodeAt(d, Lookup(d, p))

(* The leading slash of an absolute path is stripped before the lookup. *)
jexfs_open(d, p) == jexfs_find_entry(d, Name(FALSE, p.base))

(* A slot: the end marker, or a deleted entry whose name was long enough. *)
Slot(d, p) ==
    FirstOf(Scan(d, d.it[Root], TRUE),
            {Zero} \cup {<<0, q>> : q \in {q \in AllNames : NameLen(q) >= NameLen(p)}})

(* How an entry put over cell old, bo cells into its block, goes wrong. *)
Misfit(s, old, bo, p) ==
    CASE bo + EntryLen(p) > BC -> Spoil(s, "overflow")
      [] bo + EntryLen(p) <= BC /\ old # Zero /\ NameLen(old[2]) > NameLen(p) -> Spoil(s, "short")
      [] OTHER -> s

WriteCells(s, b, bo, ino, p) ==
    Misfit(write_block(s, b, DirBlock(PutEntry(CellsOf(s.d.blk[b]), bo, ino, p))),
           CellsOf(s.d.blk[b])[bo], bo, p)
WithSize(n, end) == [n EXCEPT !.size = IF end > @ THEN end ELSE @]
WriteEntry(s, at, ino, p) ==
    IF bmap(s.d, s.n, at \div BC) = 0 THEN Ret(s, EIO)
    ELSE Ret(WriteCells(IF at + EntryLen(p) > s.n.size
                        THEN write_inode(s, Root, WithSize(s.n, at + EntryLen(p))) ELSE s,
                        bmap(s.d, s.n, at \div BC), at % BC, ino, p), 0)

(* No slot: one block is allocated (s.tmp) and zeroed, but a second one,   *)
(* which bmap_alloc allocates and nobody zeroes, becomes the directory's.  *)
FirstHole(d, n) == Min({l \in 0 .. Direct + EPB + (EPB * EPB) : bmap(d, n, l) = 0})
FillBlock(s, old, lb, ino, p) ==
    IF Failed(s) THEN Ret(free_block(Ret(s, 0), s.tmp), s.r)
    ELSE WriteEntry(write_block(write_inode(IF old.blk[s.r] = ZeroBlock THEN s ELSE Spoil(s, "stale_dir"),
                                            Root, WithSize(s.n, (lb + 1) * BC)),
                                s.tmp, ZeroBlock),
                    lb * BC, ino, p)
AddBlock(s, ino, p) ==
    IF Failed(s) THEN s
    ELSE FillBlock(bmap_alloc([s EXCEPT !.tmp = s.r], FirstHole(s.d, s.n)), s.d,
                   FirstHole(s.d, s.n), ino, p)

AddAt(s, at, ino, p) ==
    IF at >= 0 THEN WriteEntry(s, at, ino, p) ELSE AddBlock(alloc_block(s), ino, p)
jexfs_add_dirent(s, ino, p) ==
    IF Failed(s) THEN s ELSE AddAt([s EXCEPT !.n = s.d.it[Root]], Slot(s.d, p), ino, p)

(***************************************************************************)
(* Calls on names.                                                         *)
(***************************************************************************)
(* A new inode, and on failure of what follows the inode and the block     *)
(* allocated for it given back.                                            *)
NewInode(s, n) == IF Failed(s) THEN s ELSE write_inode(s, s.ino, n)
AddNew(s, p) == jexfs_add_dirent(s, s.ino, p)
Undo(s) == IF Failed(s) THEN Ret(free_block(free_inode(Ret(s, 0), s.ino), s.own), s.r)
           ELSE Ret(s, s.ino)

(* Mutant: the entry is written before the inode. *)
CreateEntryFirst(s, e, p) ==
    CASE e = HANG -> Spoil(s, "hang")
      [] e >= 0 -> Ret(s, e)
      [] OTHER -> Undo(NewInode(AddNew(alloc_inode(s), p), FreshInode("file")))
CreateUnless(s, e, p) ==
    CASE e = HANG -> Spoil(s, "hang")
      [] e >= 0 -> Ret(s, e)
      [] OTHER -> Undo(AddNew(NewInode(alloc_inode(s), FreshInode("file")), p))
jexfs_create(d, p) == CreateUnless(Start(d), jexfs_open(d, p), p)

DirCells(self) == PutEntry(PutEntry(CellsOf(ZeroBlock), 0, self, Dot), EntryLen(Dot), Root, DotDot)
DirInode(b) == [FreshInode("dir") EXCEPT !.size = EntryLen(Dot) + EntryLen(DotDot), !.dir[0] = b]
DirIn(s) == IF Failed(s) THEN s
            ELSE [NewInode(write_block(s, s.r, DirBlock(DirCells(s.ino))), DirInode(s.r)) EXCEPT !.own = s.r]
jexfs_mkdir(d, p) == Undo(AddNew(DirIn(alloc_block(alloc_inode(Start(d)))), p))

(* Everything an inode points to, in the order jexfs_remove frees it. *)
TableBlocks(d, b) == IF b = 0 THEN <<>>
                     ELSE [i \in 1 .. EPB |-> TableOf(d.blk[b])[i - 1]] \o <<b>>
BlocksOf(d, n) ==
    SelectSeq([i \in 1 .. Direct |-> n.dir[i - 1]] \o TableBlocks(d, n.ind)
              \o FlattenSeq([i \in 1 .. EPB |-> TableBlocks(d, EntryOf(d, n.dbl, i - 1))]) \o <<n.dbl>>,
              LAMBDA b : b # 0)

SetCell(s, at, c) ==
    write_block(s, bmap(s.d, s.d.it[Root], at \div BC),
        DirBlock([CellsOf(s.d.blk[bmap(s.d, s.d.it[Root], at \div BC)]) EXCEPT ![at % BC] = c]))

RemoveFound(s, at, i, p) ==
    CASE at = HANG -> Spoil(s, "hang")
      [] at = ENOENT -> Ret(s, ENOENT)
      [] OTHER -> Ret(SetCell(free_inode(FoldLeft(free_block, IF i = Root THEN Spoil(s, "root_gone") ELSE s,
                                                  BlocksOf(s.d, s.d.it[i])), i),
                              at, <<0, p>>), i)
RemoveEntry(s, at, p) == RemoveFound(s, at, InodeAt(s.d, at), p)
jexfs_remove(d, p) == RemoveEntry(Start(d), Lookup(d, p), p)

(* In place when the new name is no longer, else delete and add again; a   *)
(* failed add puts the old entry back.                                     *)
PutBack(s, at, i, p) == IF Failed(s) THEN Ret(SetCell(Ret(s, 0), at, <<i, p>>), s.r) ELSE s
RenameFound(s, at, i, p, q) ==
    CASE at = HANG -> Spoil(s, "hang")
      [] at = ENOENT -> Ret(s, ENOENT)
      [] at >= 0 /\ NameLen(q) <= NameLen(p) -> Misfit(SetCell(s, at, <<i, q>>), <<i, p>>, 0, q)
      [] OTHER -> PutBack(jexfs_add_dirent(SetCell(s, at, <<0, p>>), i, q), at, i, p)
RenameEntry(s, at, p, q) == RenameFound(s, at, InodeAt(s.d, at), p, q)
jexfs_rename(d, p, q) == RenameEntry(Start(d), Lookup(d, p), p, q)

(***************************************************************************)
(* Calls on inodes.                                                        *)
(***************************************************************************)
UnitAt(d, b, u) == IF b = 0 THEN Hole ELSE UnitsOf(d.blk[b])[u % BU]
Contents(d, n) == [u \in 0 .. n.size - 1 |-> UnitAt(d, bmap(d, n, u \div BU), u)]

(* Units read: up to the end of the file or the first missing block. *)
jexfs_read(d, n, size, off) ==
    IF off >= n.size THEN 0
    ELSE Min({size} \cup {u - off : u \in {u \in off .. n.size : u = n.size \/ bmap(d, n, u \div BU) = 0}})

(* One block of a write: the units lo .. hi-1 of the file that are in it. *)
PutUnits(s, lb, lo, hi, v) ==
    IF Failed(s) THEN s
    ELSE [write_block(s, s.r, DataBlock([u \in 0 .. BU - 1 |->
             IF lb * BU + u \in lo .. hi - 1 THEN v ELSE UnitsOf(s.d.blk[s.r])[u]]))
          EXCEPT !.curr = Min({hi, (lb + 1) * BU})]

(* Mutant: the size is set, not raised. *)
EndWriteTruncates(s, i, size, off) ==
    IF Failed(s) THEN s ELSE Ret(write_inode(s, i, [s.n EXCEPT !.size = off + size]), size)
EndWrite(s, i, size, off) ==
    CASE ~ Failed(s) -> Ret(write_inode(s, i, WithSize(s.n, off + size)), size)
      [] Failed(s) /\ s.curr > off -> Ret(write_inode(Ret(s, 0), i, WithSize(s.n, s.curr)), s.r)
      [] OTHER -> s

BlocksFrom(lo, hi) == [k \in 1 .. hi - lo |-> lo + k - 1]
jexfs_write(d, i, v, size, off) ==
    LET chunk(s, lb) == PutUnits(bmap_alloc(s, lb), lb, off, off + size, v)
    IN EndWrite(FoldLeft(chunk, [Start(d) EXCEPT !.n = d.it[i], !.curr = off],
                         BlocksFrom(off \div BU, IF size = 0 THEN off \div BU ELSE ((off + size - 1) \div BU) + 1)),
                i, size, off)

(* The entries a search of the root reaches, "." and ".." apart, and the   *)
(* contents of the files they name.                                        *)
Entries(d) ==
    {e \in {v.c : v \in ToSet(Scan(d, d.it[Root], FALSE).seen)} :
        e[1] # 0 /\ e[2] \notin {Dot, DotDot}}
Named(d) == {e[1] : e \in Entries(d)}
FilesOf(d) == [i \in {i \in Named(d) : d.it[i].type = "file"} |-> Contents(d, d.it[i])]

(***************************************************************************)
(* The image mkjexfs packs: the root's two entries, then the files in the  *)
(* order of their names, each with its blocks.  The root's size is the     *)
(* exact end of its last entry.                                            *)
(***************************************************************************)
MkFs(files) ==
    LET rank(n) == Cardinality({m \in files : m < n})
        perFile == (ImageUnits + BU - 1) \div BU
        block(n, k) == 2 + (rank(n) * perFile) + k
        at(n) == EntryLen(Dot) + EntryLen(DotDot)
                 + FoldSet(LAMBDA m, sum : sum + EntryLen(Name(FALSE, m)), 0, {m \in files : m < n})
        last == CHOOSE n \in files : \A m \in files : m <= n
        end == IF files = {} THEN EntryLen(Dot) + EntryLen(DotDot)
               ELSE at(last) + EntryLen(Name(FALSE, last))
        cells == FoldSet(LAMBDA n, c : PutEntry(c, at(n), 2 + rank(n), Name(FALSE, n)),
                         DirCells(Root), files)
        owned == {<<n, k>> : n \in files, k \in 0 .. perFile - 1}
    IN [ib |-> {Root} \cup {2 + rank(n) : n \in files},
        bb |-> {1} \cup {block(o[1], o[2]) : o \in owned},
        it |-> [i \in Inodes |->
                  IF i = Root THEN [FreshInode("dir") EXCEPT !.size = end, !.dir[0] = 1]
                  ELSE IF \E n \in files : i = 2 + rank(n)
                  THEN LET n == CHOOSE n \in files : i = 2 + rank(n)
                       IN [FreshInode("file") EXCEPT !.size = ImageUnits,
                             !.dir = [k \in 0 .. Direct - 1 |-> IF k < perFile THEN block(n, k) ELSE 0]]
                  ELSE FreshInode("free")],
        blk |-> [b \in {0} \cup Blocks |->
                   IF b = 1 THEN DirBlock(cells)
                   ELSE IF \E o \in owned : block(o[1], o[2]) = b
                   THEN DataBlock([u \in 0 .. BU - 1 |->
                          LET o == CHOOSE o \in owned : block(o[1], o[2]) = b
                          IN IF o[2] * BU + u < ImageUnits THEN -1 ELSE 0])
                   ELSE ZeroBlock]]

(***************************************************************************)
(* Actions: one per call of the VFS and of the shell's commands, a power   *)
(* failure inside each, and a restart between two of them.                 *)
(***************************************************************************)
Fds == 0 .. MaxOpen - 1
NoFds == [f \in Fds |-> [used |-> FALSE, ino |-> 0, off |-> 0, live |-> TRUE]]
MaxUnits == (MaxLB + 1) * BU

Count(s) == calls' = calls + (IF s.log = <<>> THEN 0 ELSE 1) /\ calls' <= MaxCalls

Finish(s, f) ==
    /\ disk' = s.d /\ store' = FilesOf(s.d)
    /\ spoiled' = s.bad /\ fds' = f /\ Count(s) /\ UNCHANGED faults

(* jexfs_init on the disk as the failure left it; descriptors are gone. *)
Fault == faults < MaxFaults /\ faults' = faults + 1 /\ fds' = NoFds

PowerFail(s, torn) ==
    /\ \E k \in 1 .. Len(s.log) - 1 : disk' = s.log[k] /\ store' = FilesOf(s.log[k])
    /\ spoiled' = IF s.bad # "none" THEN s.bad ELSE torn
    /\ Fault /\ Count(s)

Restart == fds # NoFds /\ Fault /\ UNCHANGED <<disk, spoiled, store, calls>>

Call(s, f) == Finish(s, f) \/ PowerFail(s, "none")
fs_create(p) == Call(jexfs_create(disk, p), fds)
Mkdir(p)     == Call(jexfs_mkdir(disk, p), fds)
Rename(p, q) == Call(jexfs_rename(disk, p, q), fds)

(* Descriptors are not told that their file is gone. *)
Unlinked(i) == [f \in Fds |-> [fds[f] EXCEPT !.live = @ /\ ~ (fds[f].used /\ fds[f].ino = i)]]
Unlink(s) == Finish(s, Unlinked(s.r)) \/ PowerFail(s, "torn")
Rm(p) == Unlink(jexfs_remove(disk, p))

OpenInode(i) ==
    /\ UNCHANGED <<disk, store, calls, faults>>
    /\ spoiled' = IF i = HANG THEN "hang" ELSE spoiled
    /\ fds' = IF i < 0 THEN fds
              ELSE [fds EXCEPT ![Min({f \in Fds : ~ fds[f].used})] =
                                [used |-> TRUE, ino |-> i, off |-> 0, live |-> TRUE]]
fs_open(p) == (\E f \in Fds : ~ fds[f].used) /\ OpenInode(jexfs_open(disk, p))

fs_read(f, size) ==
    /\ fds[f].used
    /\ fds' = [fds EXCEPT ![f].off = @ + jexfs_read(disk, disk.it[fds[f].ino], size, @)]
    /\ UNCHANGED <<disk, spoiled, store, calls, faults>>

Misuse(s, f) ==
    CASE ~ f.live -> Spoil(s, "stale_fd")
      [] f.live /\ disk.it[f.ino].type = "dir" -> Spoil(s, "dir_write")
      [] OTHER -> s
Advance(s, f) == Call(s, IF s.r > 0 THEN [fds EXCEPT ![f].off = @ + s.r] ELSE fds)
fs_write(f, v, size) ==
    /\ fds[f].used /\ fds[f].off + size <= MaxUnits
    /\ Advance(Misuse(jexfs_write(disk, fds[f].ino, v, size, fds[f].off), fds[f]), f)

fs_close(f) ==
    /\ fds[f].used
    /\ fds' = [fds EXCEPT ![f] = NoFds[f]]
    /\ UNCHANGED <<disk, spoiled, store, calls, faults>>

(* SEEK_SET to any offset within the bound; SEEK_END adds the size. *)
fs_seek(f, off, whence) ==
    LET to == IF whence = "set" THEN off ELSE disk.it[fds[f].ino].size + off
    IN /\ fds[f].used /\ to <= MaxUnits
       /\ fds' = [fds EXCEPT ![f].off = to]
       /\ UNCHANGED <<disk, spoiled, store, calls, faults>>

Init ==
    /\ \E d \in {MkFs(files) : files \in SUBSET ImageNames} : disk = d /\ store = FilesOf(d)
    /\ fds = NoFds
    /\ spoiled = "none"
    /\ calls = 0 /\ faults = 0

Next ==
    /\ spoiled = "none"
    /\ \/ Restart
       \/ \E p \in Paths : fs_create(p) \/ fs_open(p)
       \/ \E p \in Paths : ~ p.slash /\ Mkdir(p)
       \/ \E p \in AllNames : Rm(p)
       \/ \E p, q \in Paths : ~ p.slash /\ ~ q.slash /\ p # q /\ Rename(p, q)
       \/ \E f \in Fds : fs_close(f)
       \/ \E f \in Fds, size \in Sizes : fs_read(f, size) \/ \E v \in Vals : fs_write(f, v, size)
       \/ \E f \in Fds, off \in Offsets : fs_seek(f, off, "set")
       \/ \E f \in Fds : fs_seek(f, 0, "end")

Spec == Init /\ [][Next]_vars

-----------------------------------------------------------------------------
(***************************************************************************)
(* Properties.                                                             *)
(***************************************************************************)
(* The bitmaps and the table stay in range, and a descriptor names an inode. *)
TypeOK ==
    /\ disk.ib \subseteq Inodes /\ disk.bb \subseteq Blocks
    /\ \A i \in Inodes : disk.it[i].type \in {"free", "file", "dir"}
    /\ \A f \in Fds : fds[f].used => fds[f].ino \in Inodes
    /\ spoiled \in {"none", "hang", "overflow", "stale_dir", "straddle", "stale_fd",
                    "dir_write", "torn", "short", "root_gone"}

(* A block reached from an entry of the root directory, or from the root,  *)
(* is marked in the block bitmap and is reached once only, whatever calls  *)
(* were made and wherever the power failed in them: allocation precedes    *)
(* every pointer on disk, and only jexfs_remove clears bits.               *)
BlocksOwnedOnce ==
    spoiled = "none" =>
        LET blocks(i) == BlocksOf(disk, disk.it[i])
        IN \A i \in Named(disk) \cup {Root} :
              /\ ToSet(blocks(i)) \subseteq disk.bb
              /\ Cardinality(ToSet(blocks(i))) = Len(blocks(i))
              /\ \A j \in (Named(disk) \cup {Root}) \ {i} : ToSet(blocks(i)) \cap ToSet(blocks(j)) = {}

(* Every entry a search reaches names an inode marked in the inode bitmap  *)
(* and already initialised, and no two entries name the same one, though   *)
(* create, mkdir and rename write bitmap, inode and entry separately.      *)
EntriesSound ==
    spoiled = "none" =>
        /\ Named(disk) \subseteq disk.ib
        /\ \A i \in Named(disk) : disk.it[i].type # "free"
        /\ Cardinality(Named(disk)) = Cardinality(Entries(disk))

FS == INSTANCE FileStore WITH
          Ids <- Inodes, files <- store,
          broken <- spoiled # "none"

(* The calls on blocks, inodes and entries implement the file store: no    *)
(* call changes a file other than its own, and a write interrupted by a    *)
(* full disk or a power failure leaves old or new units only.              *)
Implements == FS!Spec
=============================================================================
