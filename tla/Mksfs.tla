------------------------------- MODULE Mksfs -------------------------------
(***************************************************************************)
(* The image builder, tools/mksfs.c: it walks a host directory and lays    *)
(* out an SFS image, one block after the other.  The image is a function   *)
(* of the host tree, so the program is modelled as operators that thread   *)
(* a build state through its calls; Disk is the image the kernel mounts.   *)
(*                                                                         *)
(* Host files and directories are known by their host inode number ("real" *)
(* in the program; the root is 0).  A block is a sequence of BLKSIZE       *)
(* words, and a word is also the unit of a file's length: sizeof(uint32_t) *)
(* is 1 here.  A file's contents are any words, numbers of blocks among    *)
(* them.  Left out: the double indirect blocks, which the kernel cannot    *)
(* read and a 4 MB disk cannot need, and symbolic links, which the kernel  *)
(* cannot load.                                                            *)
(***************************************************************************)
EXTENDS Integers, Sequences, FiniteSets, TLC

CONSTANTS
  BLKSIZE,     \* words of a block (SFS_BLKSIZE, 4096 bytes)
  NDIRECT,     \* direct blocks of an inode (SFS_NDIRECT, 12)
  BLOCKS,      \* blocks of the image file
  HostDir,     \* host directory -> the sequence of its [name, real]
  HostFile,    \* host file -> the sequence of its words
  NameWord     \* name -> the word its first characters make

BLKN_SUPER == 0
BLKN_ROOT == 1
BLKN_FREEMAP == 2
ROOT == 0

(* SFS_BLK_NENTRY, the entries of an indirect block.                       *)
NENTRY == BLKSIZE

IsDir(real) == real \in DOMAIN HostDir

(* create_sfs and alloc_cache_inode: the build state.  `next' is next_ino, *)
(* `disk' the blocks written so far and `ci' the cached inodes, which      *)
(* close_sfs flushes.  One block holds the whole freemap.                  *)
FirstIno == BLKN_FREEMAP + 1

NewInode(ino, real) ==
  [ino |-> ino, type |-> IF IsDir(real) THEN "dir" ELSE "file", size |-> 0,
   nlinks |-> 0, blocks |-> 0, direct |-> [i \in 1..NDIRECT |-> 0],
   indirect |-> 0, entries |-> [i \in 1..NENTRY |-> 0]]

create_sfs ==
  [next |-> FirstIno, unused |-> BLOCKS - FirstIno, disk |-> << >>,
   ci |-> [r \in {ROOT} |-> NewInode(BLKN_ROOT, ROOT)]]

alloc_ino(s) == [s EXCEPT !.next = @ + 1, !.unused = @ - 1]

alloc_cache_inode(s, real) ==
  [alloc_ino(s) EXCEPT
     !.ci = [r \in DOMAIN s.ci \cup {real} |->
               IF r = real THEN NewInode(s.next, real) ELSE s.ci[r]]]

write_block(s, b, content) ==
  [s EXCEPT !.disk = [x \in DOMAIN s.disk \cup {b} |->
                        IF x = b THEN content ELSE s.disk[x]]]

(* append_block with update_cache: block b becomes the next one of the     *)
(* file.  The indirect block is allocated when the first entry needs it,   *)
(* that is after the data block it will point to.                          *)
append_block(s, real, size, b) ==
  LET c == s.ci[real]
      n == c.blocks
      grown == [c EXCEPT !.size = @ + size, !.blocks = @ + 1]
  IN IF n < NDIRECT
     THEN [s EXCEPT !.ci[real] = [grown EXCEPT !.direct[n + 1] = b]]
     ELSE LET t == IF c.indirect = 0 THEN alloc_ino(s) ELSE s
              ent == IF c.indirect = 0 THEN s.next ELSE c.indirect
          IN [t EXCEPT !.ci[real] =
                [grown EXCEPT !.indirect = ent,
                              !.entries[n - NDIRECT + 1] = b]]

(* A directory entry takes a block of its own; the directory's size grows  *)
(* by one name each time.                                                  *)
add_entry(s, dir, real, name) ==
  LET b == s.next
      t == write_block(alloc_ino(s), b,
                       [kind |-> "entry", ino |-> s.ci[real].ino, name |-> name])
  IN [append_block(t, dir, 1, b) EXCEPT !.ci[real].nlinks = @ + 1]

(* open_file: the file's words, a block at a time, from block k on.        *)
RECURSIVE open_file(_, _, _)
open_file(s, real, k) ==
  LET size == Len(HostFile[real])
      from == k * BLKSIZE
      len == IF size - from < BLKSIZE THEN size - from ELSE BLKSIZE
      data == SubSeq(HostFile[real], from + 1, from + len)
      stored == write_block(alloc_ino(s), s.next, [kind |-> "data", data |-> data])
  IN IF from >= size THEN s
     ELSE open_file(append_block(stored, real, len, s.next), real, k + 1)

(* open_dir with add_file and add_dir, from the entry `rest' begins with   *)
(* on: a file met before (a hard link) is not stored again.                *)
RECURSIVE open_dir(_, _, _), AddEntries(_, _, _)
AddEntries(s, dir, rest) ==
  LET e == Head(rest)
      t == CASE e.real \in DOMAIN s.ci -> s
             [] e.real \notin DOMAIN s.ci /\ IsDir(e.real) ->
                  open_dir(alloc_cache_inode(s, e.real), e.real, dir)
             [] OTHER -> open_file(alloc_cache_inode(s, e.real), e.real, 0)
  IN IF rest = << >> THEN s
     ELSE AddEntries(add_entry(t, dir, e.real, e.name), dir, Tail(rest))

open_dir(s, dir, parent) ==
  AddEntries(add_entry(add_entry(s, dir, dir, "."), dir, parent, ".."),
             dir, HostDir[dir])

create_img == open_dir(create_sfs, ROOT, ROOT)

Image == create_img

InoOf(real) == Image.ci[real].ino

(* close_sfs: the superblock; the freemap, with a 1 for every block from   *)
(* next_ino on; and the cached inodes and indirect blocks, flushed to      *)
(* their blocks.  The rest of the image file is zero.                      *)
DiskInode(c) ==
  [size |-> c.size, type |-> c.type, nlinks |-> c.nlinks, blocks |-> c.blocks,
   direct |-> c.direct, indirect |-> c.indirect]

close_sfs(s) ==
  LET cis == {s.ci[r] : r \in DOMAIN s.ci}
      l1s == {c \in cis : c.indirect # 0}
  IN (BLKN_SUPER :> [kind |-> "super", unused_blocks |-> s.unused])
     @@ (BLKN_FREEMAP :> [kind |-> "freemap", free |-> s.next..(BLOCKS - 1)])
     @@ [b \in {c.ino : c \in cis} |->
           [kind |-> "inode", din |-> DiskInode(CHOOSE c \in cis : c.ino = b)]]
     @@ [b \in {c.indirect : c \in l1s} |->
           [kind |-> "indirect", entries |-> (CHOOSE c \in l1s : c.indirect = b).entries]]
     @@ s.disk
     @@ [b \in 0..(BLOCKS - 1) |-> [kind |-> "zero"]]

Disk == close_sfs(Image)

(* The i-th word of a block, whatever it holds: write_block fills it up    *)
(* with zeros.  The second word of an inode (type and nlinks) and a word   *)
(* of the free map with a bit set are larger than any block number.        *)
FreeWord(free) == IF free = {} THEN 0 ELSE BLOCKS

Stored(c) ==
  CASE c.kind = "data" -> c.data
    [] c.kind = "indirect" -> c.entries
    [] c.kind = "entry" -> <<c.ino, NameWord[c.name]>>
    [] c.kind = "inode" ->
         <<c.din.size, BLOCKS, c.din.blocks>> \o c.din.direct \o <<c.din.indirect>>
    [] c.kind = "freemap" -> <<FreeWord(c.free)>>
    [] OTHER -> << >>

Word(c, i) ==
  LET words == Stored(c)
  IN IF i \in DOMAIN words THEN words[i] ELSE 0

(* sfs_alloc_ino's "out of disk space" and the sizes a kernel inode can    *)
(* describe: the builder succeeds on the host tree.                        *)
ASSUME ImageFits ==
  /\ NDIRECT > 0 /\ BLKSIZE >= NDIRECT + 4
  /\ Image.next <= BLOCKS
  /\ \A real \in DOMAIN Image.ci : Image.ci[real].blocks <= NDIRECT + NENTRY
=============================================================================
