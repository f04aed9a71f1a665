------------------------------- MODULE SfsIo -------------------------------
(***************************************************************************)
(* The operations the rest of the kernel calls on SFS's files, in any      *)
(* order.  Offsets are descriptor positions: they may lie past the end of  *)
(* a file that another descriptor has truncated.  file_read and file_write *)
(* never ask for more than IOBUF bytes at a time.                          *)
(***************************************************************************)
EXTENDS Sfs

CONSTANTS
  IOBUF,      \* IOBUF_SIZE, the bytes of one file_read or file_write
  Changing,   \* the host files whose copies are written, truncated or sought in
  Positions,  \* the offsets used
  Lengths     \* the lengths of writes used

VARIABLES fs, touched, strayed

vars == <<fs, touched, strayed>>

Init ==
  /\ fs = do_mount
  /\ touched = {}
  /\ strayed = {}

InMemory(n) == fs.ok /\ fs.node[n].in

(* History: `touched' are the inodes that have differed from the image.    *)
(* An indirect block taken after the mount keeps its old contents, and     *)
(* `strayed' are the blocks that some file has reached through them.       *)
Changed(f) == {n \in FileInos : f.node[n].in /\ f.node[n].din # Disk[n].din}

StaleWords(din) ==
  {BlockWord(din.indirect, i - NDIRECT) : i \in NDIRECT..(din.blocks - 1)}

Astray(f) ==
  UNION {StaleWords(f.node[n].din) :
           n \in {n \in Changed(f) :
                    f.node[n].din.indirect \notin {0, Disk[n].din.indirect}}} \ {0}

(* Once an assert has failed the state is of no interest.                  *)
Become(f) ==
  IF f.ok
  THEN /\ fs' = f
       /\ touched' = touched \cup Changed(f)
       /\ strayed' = strayed \cup Astray(f)
  ELSE /\ fs' = Panic(do_mount)
       /\ touched' = {}
       /\ strayed' = {}

(* sfs_lookup_once of the name in slot i of the root: the slots up to it   *)
(* are read, and sfs_load_inode brings the inode in on its first           *)
(* reference.                                                              *)
Lookup(n, i) ==
  /\ fs.ok
  /\ Become(IF ~SlotsInUse(fs, BLKN_ROOT, i) THEN Panic(fs)
            ELSE IF fs.node[n].in THEN fs
            ELSE load_inode(fs, n))

(* sfs_reclaim, after the last reference; inode_open_dec has called        *)
(* sfs_close before it.                                                    *)
Reclaim(n) ==
  /\ InMemory(n)
  /\ Become(reclaim(fsync(fs, n), n))

(* sfs_read and sfs_write through sfs_io.  A read can only fail an assert, *)
(* and a full buffer touches every block that a shorter read would.        *)
Read(n, offset) ==
  /\ InMemory(n)
  /\ Become(io_nolock(fs, n, offset, IOBUF, FALSE).fs)

Write(n, offset, len) ==
  /\ InMemory(n)
  /\ Become(io_nolock(fs, n, offset, len, TRUE).fs)

(* vop_truncate from vfs_open, and vop_tryseek from file_seek.             *)
Truncate(n) ==
  /\ InMemory(n)
  /\ Become(truncfile(fs, n, 0).fs)

Seek(n, pos) ==
  /\ InMemory(n)
  /\ Become(tryseek(fs, n, pos).fs)

Fsync(n) ==
  /\ InMemory(n)
  /\ Become(fsync(fs, n))

(* sfs_sync, from sfs_cleanup: every inode in memory, then the superblock  *)
(* and the free map.                                                       *)
Sync ==
  /\ fs.ok
  /\ Become([fs EXCEPT !.super_dirty = FALSE,
                       !.node = [n \in FileInos |-> IF fs.node[n].in
                                                THEN [fs.node[n] EXCEPT !.dirty = FALSE]
                                                ELSE NoNode]])

Halted ==
  /\ ~fs.ok
  /\ UNCHANGED vars

Next ==
  \/ \E n \in FileInos :
       \/ \E i \in Numbered(BLKN_ROOT, n) : Lookup(n, i)
       \/ Reclaim(n)
       \/ Fsync(n)
       \/ \E pos \in Positions : Read(n, pos)
  \/ \E n \in {InoOf(real) : real \in Changing} :
       \/ Truncate(n)
       \/ \E pos \in Positions : Seek(n, pos)
       \/ \E pos \in Positions, len \in Lengths : Write(n, pos, len)
  \/ Sync
  \/ Halted

Spec == Init /\ [][Next]_vars

(* Block numbers are blocks of the disk, and no file grows past            *)
(* SFS_MAX_FILE_SIZE (sfs_inode.c:565).                                    *)
TypeOK ==
  /\ fs.free \subseteq Inos
  /\ fs.unused \in Nat
  /\ \A n \in FileInos : fs.node[n].in =>
       LET din == fs.node[n].din
       IN /\ {din.direct[i] : i \in 1..NDIRECT} \cup {din.indirect} \subseteq 0..(BLOCKS - 1)
          /\ din.size \in 0..MAX_FILE_SIZE
          /\ din.blocks \in 0..(NDIRECT + NENTRY)
  /\ touched \subseteq FileInos
  /\ strayed \subseteq Nat

(* The superblock's count of free blocks is the number of bits set in the  *)
(* free map, also after allocations that fail half way (sfs_inode.c:240),  *)
(* after truncations, and when a truncation frees a block of another file. *)
UnusedBlocksExact == fs.ok => fs.unused = Cardinality(fs.free)

(* The blocks a file of the image reads from.                              *)
BlocksOf(n) ==
  {Mapped(Disk[n].din, i) : i \in 0..(Disk[n].din.blocks - 1)} \cup {Disk[n].din.indirect}

(* Reading any stretch of a file that has not changed since the mount      *)
(* gives the words of the host file mksfs read: no assert fails, no block  *)
(* is missing, and no block of another file shows up, whatever happened to *)
(* the other files - as long as none of them has reached one of its blocks *)
(* through the old contents of an indirect block (sfs_inode.c:207; the     *)
(* block would be freed when that file is truncated).  It needs the limit  *)
(* of IOBUF words: the run of whole blocks in sfs_io_nolock takes          *)
(* consecutive disk blocks, which a file of mksfs does not have around its *)
(* indirect block.                                                         *)
ReadsTheImage ==
  fs.ok =>
    \A real \in DOMAIN HostFile :
      LET n == InoOf(real)
          size == Len(HostFile[real])
      IN fs.node[n].in /\ n \notin touched /\ BlocksOf(n) \cap strayed = {} =>
           \A offset \in 0..(size - 1) :
             LET len == Min({IOBUF, size - offset})
                 r == io_nolock(fs, n, offset, len, FALSE)
             IN /\ r.fs.ok
                /\ r.bytes = SubSeq(HostFile[real], offset + 1, offset + len)
=============================================================================
