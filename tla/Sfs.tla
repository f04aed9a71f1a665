-------------------------------- MODULE Sfs --------------------------------
(***************************************************************************)
(* The simple file system, kern/fs/sfs, over the image Mksfs builds: block *)
(* maps, the free map and file I/O, as operators on                        *)
(*                                                                         *)
(*    fs.free         the blocks whose bit is set in sfs->freemap          *)
(*    fs.unused       sfs->super.unused_blocks                             *)
(*    fs.super_dirty  sfs->super_dirty                                     *)
(*    fs.node         inode number -> the sfs_inode in memory, or NoNode   *)
(*    fs.ok           FALSE once an assert has failed (the kernel stops)   *)
(*                                                                         *)
(* disk0_write_blks_nolock (dev_disk0.c:47) prints a warning and writes    *)
(* nothing, so the disk stays the image Disk: every sfs_wbuf, sfs_wblock   *)
(* and sfs_clear_block succeeds without effect.  No operation sleeps while *)
(* it holds one of SFS's semaphores, and the kernel is not preempted, so   *)
(* the semaphores are always free and each operation is atomic.            *)
(***************************************************************************)
EXTENDS Mksfs, FiniteSetsExt

CONSTANTS
  MAX_FILE_SIZE     \* SFS_MAX_FILE_SIZE, 128 MB

NoNode == [in |-> FALSE]

Inos == 1..(BLOCKS - 1)

FileInos == {n \in Inos : Disk[n].kind = "inode" /\ Disk[n].din.type = "file"}

(* Results a caller tells apart.                                           *)
Success == "0"
E_NOENT == "E_NOENT"
E_NO_MEM == "E_NO_MEM"
E_INVAL == "E_INVAL"

(* sfs_do_mount: the free map and the superblock come from the image, and  *)
(* the count of free bits must be the superblock's.                        *)
do_mount ==
  LET free == Disk[BLKN_FREEMAP].free
      unused == Disk[BLKN_SUPER].unused_blocks
  IN [free |-> free, unused |-> unused, super_dirty |-> FALSE,
      node |-> [n \in FileInos |-> NoNode], ok |-> Cardinality(free) = unused]

Panic(fs) == [fs EXCEPT !.ok = FALSE]

(***************************************************************************)
(* Blocks.                                                                 *)
(***************************************************************************)

(* bitmap.c: a bit is set while its block is free.                         *)
bitmap_test(free, b) == b \in free

bitmap_alloc(free) == Min(free)

bitmap_free(free, b) == free \cup {b}

(* sfs_block_inuse panics on a block outside (0, blocks).                  *)
block_inuse(fs, b) == b \in Inos /\ ~bitmap_test(fs.free, b)

(* sfs_block_alloc of the blocks in bs, which bitmap_alloc takes lowest    *)
(* first.  sfs_clear_block zeroes nothing: they keep the image's contents. *)
block_alloc(fs, bs) ==
  [fs EXCEPT !.free = @ \ bs, !.unused = @ - Cardinality(bs), !.super_dirty = TRUE,
             !.ok = @ /\ fs.unused >= Cardinality(bs)]

FreeUncounted(fs, b) == [fs EXCEPT !.free = @ \cup {b}, !.super_dirty = TRUE]

block_free(fs, b) ==
  IF block_inuse(fs, b)
  THEN [fs EXCEPT !.free = bitmap_free(@, b), !.unused = @ + 1, !.super_dirty = TRUE]
  ELSE Panic(fs)

(* A word read through sfs_rbuf or sfs_rblock.  In a block taken as an     *)
(* indirect block after the mount it is what the image has there: a piece  *)
(* of a file, for instance, which may pass for the number of a block.      *)
BlockWord(b, off) == Word(Disk[b], off + 1)

(***************************************************************************)
(* Block maps.  n is the number of an inode in memory.                     *)
(***************************************************************************)

SetDin(fs, n, din) == [fs EXCEPT !.node[n].din = din, !.node[n].dirty = TRUE]

(* The block that sfs_bmap_get_nolock and sfs_bmap_get_sub_nolock find for *)
(* `index', 0 when there is none.                                          *)
Mapped(din, index) ==
  IF index < NDIRECT THEN din.direct[index + 1]
  ELSE IF din.indirect = 0 THEN 0
  ELSE IF index < NDIRECT + NENTRY THEN BlockWord(din.indirect, index - NDIRECT)
  ELSE 0

(* The same two functions with create, when there is none: one block, or   *)
(* two when the indirect block is missing as well.  When only the first of *)
(* two can be had it is given back.  The write of the entry into an        *)
(* indirect block is lost.                                                 *)
bmap_create(fs, n, index) ==
  LET din == fs.node[n].din
      first == bitmap_alloc(fs.free)
      second == bitmap_alloc(fs.free \ {first})
      both == index >= NDIRECT /\ din.indirect = 0
  IN IF fs.free = {} \/ (both /\ fs.free = {first})
     THEN [fs |-> [fs EXCEPT !.super_dirty = @ \/ fs.free # {}],
           ino |-> 0, ret |-> E_NO_MEM]
     ELSE IF index < NDIRECT
     THEN [fs |-> SetDin(block_alloc(fs, {first}), n, [din EXCEPT !.direct[index + 1] = first]),
           ino |-> first, ret |-> Success]
     ELSE IF both
     THEN [fs |-> SetDin(block_alloc(fs, {first, second}), n, [din EXCEPT !.indirect = first]),
           ino |-> second, ret |-> Success]
     ELSE [fs |-> block_alloc(fs, {first}), ino |-> first, ret |-> Success]

(* sfs_bmap_load_nolock: the block after the last one is created, unless   *)
(* an indirect block already has a word for it.  sfs_bmap_get_nolock       *)
(* panics on an index that no entry is left for.                           *)
Counted(r, n) ==
  IF r.ret = Success THEN [r EXCEPT !.fs = [@ EXCEPT !.node[n].din.blocks = @ + 1]] ELSE r

bmap_load(fs, n, index) ==
  LET din == fs.node[n].din
      b == Mapped(din, index)
      found == [fs |-> fs, ino |-> b, ret |-> Success]
  IN IF index >= NDIRECT + NENTRY THEN [found EXCEPT !.fs = Panic(fs)]
     ELSE IF index = din.blocks /\ b = 0 THEN Counted(bmap_create(fs, n, index), n)
     ELSE IF index > din.blocks \/ ~block_inuse(fs, b) THEN [found EXCEPT !.fs = Panic(fs)]
     ELSE IF index = din.blocks THEN Counted(found, n)
     ELSE found

(* sfs_bmap_free_nolock and sfs_bmap_free_sub_nolock.  The zero written    *)
(* over an entry in the indirect block is lost.  The block freed is the    *)
(* one the word names, whoever it belongs to.                              *)
bmap_free(fs, n, index) ==
  LET din == fs.node[n].din
      b == Mapped(din, index)
      cleared == IF index < NDIRECT THEN [din EXCEPT !.direct[index + 1] = 0] ELSE din
  IN IF index >= NDIRECT /\ din.indirect # 0 /\ ~block_inuse(fs, din.indirect)
     THEN Panic(fs)
     ELSE SetDin(IF b = 0 THEN fs ELSE block_free(fs, b), n, cleared)

(* sfs_bmap_truncate_nolock: the last block goes.                          *)
bmap_truncate(fs, n) ==
  [bmap_free(fs, n, fs.node[n].din.blocks - 1) EXCEPT !.node[n].din.blocks = @ - 1]

(***************************************************************************)
(* File I/O.                                                               *)
(***************************************************************************)

(* The transfers of sfs_io_nolock from offset up to endpos: an unaligned   *)
(* head, a run of whole blocks, an unaligned tail.  `index' is the block   *)
(* of the file that is looked up; the whole blocks are taken from          *)
(* consecutive disk blocks after the first.                                *)
Part(cond, index, at, len) ==
  IF cond THEN <<[index |-> index, at |-> at, len |-> len]>> ELSE << >>

PartsSkipHead(offset, endpos) ==
  LET blkno == offset \div BLKSIZE
      nblks == endpos \div BLKSIZE - blkno
      blkend == endpos % BLKSIZE
  IN Part(nblks > 0, blkno, 0, nblks * BLKSIZE)
     \o Part(blkend > 0, endpos \div BLKSIZE, 0, blkend)

Parts(offset, endpos) ==
  LET blkno == offset \div BLKSIZE
      nblks == endpos \div BLKSIZE - blkno
      blkoff == offset % BLKSIZE
      blkend == endpos % BLKSIZE
      single == blkoff > 0 /\ nblks = 0
      whole == IF blkoff > 0 THEN nblks - 1 ELSE nblks
  IN Part(blkoff > 0, blkno, blkoff,
          IF nblks > 0 THEN BLKSIZE - blkoff ELSE endpos - offset)
     \o Part(whole > 0, IF blkoff > 0 THEN blkno + 1 ELSE blkno, 0, whole * BLKSIZE)
     \o Part(~single /\ blkend > 0, endpos \div BLKSIZE, 0, blkend)

(* The transfers one after the other.  Any error of a lookup, and a run    *)
(* past the end of the disk, fails an assert.                              *)
RECURSIVE Transfer(_, _, _, _), Transferred(_, _, _, _)
Transfer(fs, n, parts, bytes) ==
  IF parts = << >> \/ ~fs.ok THEN [fs |-> fs, bytes |-> bytes]
  ELSE Transferred(bmap_load(fs, n, Head(parts).index), n, parts, bytes)

Transferred(l, n, parts, bytes) ==
  LET part == Head(parts)
      BlockAt(i) == l.ino + (part.at + i - 1) \div BLKSIZE
      moved == [i \in 1..part.len |-> BlockWord(BlockAt(i), (part.at + i - 1) % BLKSIZE)]
  IN IF l.ret # Success \/ ~l.fs.ok \/ BlockAt(part.len) >= BLOCKS
     THEN [fs |-> Panic(l.fs), bytes |-> bytes]
     ELSE Transfer(l.fs, n, Tail(parts), bytes \o moved)

Resized(done, n, end) ==
  [done EXCEPT !.fs = IF end > done.fs.node[n].din.size
                      THEN SetDin(done.fs, n, [done.fs.node[n].din EXCEPT !.size = end])
                      ELSE done.fs]

(* sfs_io_nolock.  `bytes' is what a read puts into the buffer.            *)
EndPosUncapped(din, offset, len, write) ==
  IF write THEN offset + len ELSE Min({offset + len, din.size})

EndPos(din, offset, len, write) ==
  Min({offset + len, MAX_FILE_SIZE} \cup IF write THEN {} ELSE {din.size})

io_nolock(fs, n, offset, len, write) ==
  LET endpos == EndPos(fs.node[n].din, offset, len, write)
  IN IF offset >= MAX_FILE_SIZE \/ endpos <= offset THEN [fs |-> fs, bytes |-> << >>]
     ELSE Resized(Transfer(fs, n, Parts(offset, endpos), << >>), n, endpos)

(* sfs_truncfile: one block at a time, up or down.  When the disk is full  *)
(* half way up, the blocks gained stay with the file and its size does not *)
(* change.                                                                 *)
RECURSIVE Enlarge(_, _, _), Reduce(_, _, _)
Enlarge(r, n, tblks) ==
  IF r.ret # Success \/ ~r.fs.ok \/ r.fs.node[n].din.blocks = tblks THEN r
  ELSE Enlarge(bmap_load(r.fs, n, r.fs.node[n].din.blocks), n, tblks)

Reduce(fs, n, tblks) ==
  IF fs.node[n].din.blocks = tblks \/ ~fs.ok THEN fs
  ELSE Reduce(bmap_truncate(fs, n), n, tblks)

SetSize(r, n, len) ==
  [fs |-> IF r.ret = Success
          THEN SetDin(r.fs, n, [r.fs.node[n].din EXCEPT !.size = len]) ELSE r.fs,
   ret |-> r.ret]

truncfile(fs, n, len) ==
  LET din == fs.node[n].din
      tblks == (len + BLKSIZE - 1) \div BLKSIZE
      here == [fs |-> fs, ino |-> 0, ret |-> Success]
  IN IF len > MAX_FILE_SIZE THEN [fs |-> fs, ret |-> E_INVAL]
     ELSE IF din.size = len
     THEN [fs |-> IF tblks = din.blocks THEN fs ELSE Panic(fs), ret |-> Success]
     ELSE IF din.blocks < tblks THEN SetSize(Enlarge(here, n, tblks), n, len)
     ELSE SetSize([here EXCEPT !.fs = Reduce(fs, n, tblks)], n, len)

(* sfs_tryseek: a seek past the end enlarges the file.                     *)
tryseek(fs, n, pos) ==
  IF pos < 0 \/ pos >= MAX_FILE_SIZE THEN [fs |-> fs, ret |-> E_INVAL]
  ELSE IF pos > fs.node[n].din.size THEN truncfile(fs, n, pos)
  ELSE [fs |-> fs, ret |-> Success]

(* sfs_fsync: the inode's write is lost.                                   *)
fsync(fs, n) == [fs EXCEPT !.node[n].dirty = FALSE]

(***************************************************************************)
(* The inode cache.                                                        *)
(***************************************************************************)

(* sfs_load_inode of an inode that is not in memory.                       *)
load_inode(fs, n) ==
  IF block_inuse(fs, n) /\ Disk[n].kind = "inode" /\ Disk[n].din.nlinks # 0
  THEN [fs EXCEPT !.node[n] = [in |-> TRUE, din |-> Disk[n].din, dirty |-> FALSE]]
  ELSE Panic(fs)

(* sfs_reclaim of an inode nobody refers to.  nlinks is never zero:        *)
(* nothing unlinks.                                                        *)
reclaim(fs, n) == [fs EXCEPT !.node[n] = NoNode]

(***************************************************************************)
(* Directories.  Nothing writes to one (there is no vop_create), so what   *)
(* sfs_dirent_read_nolock reads in slot i is a constant of the image; it   *)
(* asserts that the slot's block is in use.                                *)
(***************************************************************************)
DirInos == {n \in Inos : Disk[n].kind = "inode" /\ Disk[n].din.type = "dir"}

Dirents ==
  [n \in DirInos |-> [i \in 1..Disk[n].din.blocks |-> Disk[Mapped(Disk[n].din, i - 1)]]]

(* sfs_dirent_search_nolock and sfs_dirent_findino_nolock: the first entry *)
(* with the name, or with the inode number, if there is one.               *)
Named(n, name) == {i \in DOMAIN Dirents[n] : Dirents[n][i].ino # 0 /\ Dirents[n][i].name = name}

NumberedAny(n, ino) == {i \in DOMAIN Dirents[n] : Dirents[n][i].ino # 0}

Numbered(n, ino) == {i \in DOMAIN Dirents[n] : Dirents[n][i].ino = ino}

(* The slots are read in order, up to the one looked for.                  *)
SlotsInUse(fs, n, last) ==
  \A i \in 1..last : block_inuse(fs, Mapped(Disk[n].din, i - 1))

dirent_search(n, name) == Dirents[n][Min(Named(n, name))].ino

dirent_findino(n, ino) == Dirents[n][Min(Numbered(n, ino))].name
=============================================================================
