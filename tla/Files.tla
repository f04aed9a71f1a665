------------------------------- MODULE Files -------------------------------
(***************************************************************************)
(* Descriptors and the virtual file system: kern/fs (file.c, fs.c,         *)
(* sysfile.c, iobuf.c), kern/fs/vfs and kern/fs/devs, on top of Sfs.       *)
(*                                                                         *)
(* One action is one system call of a process.  The kernel is not          *)
(* preempted and no call below sleeps, except a read of the keyboard, so a *)
(* call is atomic; a keyboard read is the step that goes to sleep and the  *)
(* step that returns.  do_fork is only ever called without CLONE_FS        *)
(* (syscall.c and kernel_thread), so every process has a files_struct of   *)
(* its own and only its owner touches it.                                  *)
(*                                                                         *)
(* The nodes are SFS's inodes and the three devices of dev_init, all in    *)
(* `node'.  Node numbers of devices are negative.                           *)
(*                                                                         *)
(* Of a file's contents only the length is kept.  An operation of SFS that *)
(* an assert may stop in SfsIo (a lookup, a read, a write, a seek or a     *)
(* truncation) may stop the kernel here as well.                           *)
(***************************************************************************)
EXTENDS Sfs

CONSTANTS
  Procs,      \* process slots
  NFD,        \* FILES_STRUCT_NENTRY, the length of fd_array
  KEPT,       \* descriptors exec keeps: 2, standard input and output
  Opens,      \* the arguments of open used, records [path, flags]
  Dirs,       \* the paths used by chdir
  Programs,   \* the paths used by exec
  MaxLen,     \* longest read or write
  MaxPos,     \* farthest seek and write
  MaxLeak     \* bound on the references O_EXCL loses

VARIABLES node, proc, panic

vars == <<node, proc, panic>>

STDIN == -1
STDOUT == -2
DISK0 == -3
Devices == {STDIN, STDOUT, DISK0}

SfsInos == {n \in Inos : Disk[n].kind = "inode"}

NoFile == [st |-> "none", count |-> 0]

Fds == 0..(NFD - 1)

Absent == [st |-> "none"]

(***************************************************************************)
(* inode.c, on f = [node, ok]; ok is FALSE once an assert has failed.      *)
(***************************************************************************)
Fails(f) == [f EXCEPT !.ok = FALSE]

ref_inc(f, n) == [f EXCEPT !.node[n].ref = @ + 1]

(* sfs_reclaim and vop_kill, which asserts that the inode is not open.     *)
Reclaim(f, n) ==
  IF f.node[n].reclaim = 0 \/ f.node[n].open # 0 THEN Fails(f)
  ELSE IF f.node[n].reclaim > 1 THEN [f EXCEPT !.node[n].reclaim = @ - 1]
  ELSE [f EXCEPT !.node[n] = NoNode]

(* inode_ref_dec: at zero vop_reclaim is called, which devices lack.       *)
ref_dec(f, n) ==
  IF ~f.node[n].in \/ f.node[n].ref = 0 THEN Fails(f)
  ELSE IF f.node[n].ref > 1 THEN [f EXCEPT !.node[n].ref = @ - 1]
  ELSE IF n \in Devices THEN Fails(f)
  ELSE Reclaim([f EXCEPT !.node[n].ref = 0], n)

open_inc(f, n) == [f EXCEPT !.node[n].open = @ + 1]

(* inode_open_dec.  The last close calls vop_close, for SFS sfs_fsync.     *)
open_dec(f, n) ==
  IF ~f.node[n].in \/ f.node[n].open = 0 THEN Fails(f)
  ELSE [f EXCEPT !.node[n].open = @ - 1]

vfs_close(f, n) == ref_dec(open_dec(f, n), n)

(* sfs_load_inode with lookup_sfs_nolock and sfs_create_inode: an inode in *)
(* memory is used again, one that is not comes from the disk.              *)
LoadInode(f, n) ==
  IF f.node[n].in
  THEN [f EXCEPT !.node[n].ref = @ + 1,
                 !.node[n].reclaim = IF f.node[n].ref = 0 THEN @ + 1 ELSE @]
  ELSE [f EXCEPT !.node[n] = [in |-> TRUE, ref |-> 1, open |-> 0, reclaim |-> 1,
                              size |-> Disk[n].din.size]]

IsDirNode(n) == n \in DirInos

(***************************************************************************)
(* Path names.  A path is [base, name]: `base' says where get_device       *)
(* starts ("cwd", "/", ":", or a device), `name' is the rest, "" if empty. *)
(***************************************************************************)
E_NO_DEV == "E_NO_DEV"
E_ISDIR == "E_ISDIR"
E_EXISTS == "E_EXISTS"

Found(f, n) == [fs |-> f, node |-> n, ret |-> Success]

NotFound(f, ret) == [fs |-> f, node |-> 0, ret |-> ret]

vfs_get_curdir(f, cwd) == Found(ref_inc(f, cwd), cwd)

vfs_get_bootfs(f) == Found(ref_inc(f, BLKN_ROOT), BLKN_ROOT)

(* The root of a mounted device, or the device itself.                     *)
vfs_get_root(f, dev) ==
  CASE dev = "disk0" -> Found(LoadInode(f, BLKN_ROOT), BLKN_ROOT)
    [] dev = "stdin" -> Found(ref_inc(f, STDIN), STDIN)
    [] dev = "stdout" -> Found(ref_inc(f, STDOUT), STDOUT)
    [] OTHER -> NotFound(f, E_NO_DEV)

get_device(f, cwd, base) ==
  CASE base = "cwd" -> vfs_get_curdir(f, cwd)
    [] base = "/" -> vfs_get_bootfs(f)
    [] base = ":" -> Found(ref_dec(LoadInode(ref_inc(f, cwd), BLKN_ROOT), cwd), BLKN_ROOT)
    [] OTHER -> vfs_get_root(f, base)

(* sfs_lookup with sfs_lookup_once, and dev_lookup.  The file found is     *)
(* loaded before the directory's reference is dropped.                     *)
LookupOnce(f, dir, name) ==
  IF ~IsDirNode(dir) \/ Named(dir, name) = {} THEN NotFound(f, E_NOENT)
  ELSE Found(LoadInode(f, dirent_search(dir, name)), dirent_search(dir, name))

(* vfs_lookup, once get_device has found the node to start from.           *)
LookupFrom(d, name) ==
  LET l == LookupOnce(d.fs, d.node, name)
  IN IF d.ret # Success \/ name = "" THEN d
     ELSE [l EXCEPT !.fs = ref_dec(l.fs, d.node)]

vfs_lookup(f, cwd, path) == LookupFrom(get_device(f, cwd, path.base), path.name)

(***************************************************************************)
(* vfs_open.  `halt' names the missing operation when __vop_op's assert    *)
(* finds a null function pointer.                                          *)
(***************************************************************************)

(* dev_open, stdin_open, stdout_open, sfs_opendir and sfs_openfile.        *)
vop_open(n, fl) ==
  LET plain == ~fl.creat /\ ~fl.excl /\ ~fl.trunc /\ ~fl.append
  IN CASE n = STDIN -> IF plain /\ fl.acc = "R" THEN Success ELSE E_INVAL
       [] n = STDOUT -> IF plain /\ fl.acc = "W" THEN Success ELSE E_INVAL
       [] n \in DirInos -> IF fl.acc = "R" /\ ~fl.append THEN Success ELSE E_ISDIR
       [] OTHER -> Success

OpenResult(f, n, ret, halt) == [fs |-> f, node |-> n, ret |-> ret, halt |-> halt]

(* After the lookup l.  With O_EXCL and O_CREAT an existing file is        *)
(* refused, and the reference vfs_lookup took on it is kept for good.      *)
OpenFound(l, fl) ==
  LET r == vop_open(l.node, fl)
      opened == open_inc(l.fs, l.node)
  IN IF l.ret = E_NOENT /\ fl.creat THEN OpenResult(l.fs, 0, l.ret, "create")
     ELSE IF l.ret # Success THEN OpenResult(l.fs, 0, l.ret, "no")
     ELSE IF fl.excl /\ fl.creat THEN OpenResult(l.fs, l.node, E_EXISTS, "no")
     ELSE IF r # Success THEN OpenResult(ref_dec(l.fs, l.node), 0, r, "no")
     ELSE IF ~(fl.trunc \/ fl.creat) THEN OpenResult(opened, l.node, Success, "no")
     ELSE IF IsDirNode(l.node) THEN OpenResult(opened, 0, Success, "truncate")
     ELSE OpenResult([opened EXCEPT !.node[l.node].size = 0], l.node, Success, "no")

vfs_open(f, cwd, path, fl) ==
  IF fl.trunc /\ fl.acc = "R" THEN OpenResult(f, 0, E_INVAL, "no")
  ELSE OpenFound(vfs_lookup(f, cwd, path), fl)

(***************************************************************************)
(* The descriptor table, file.c and fs.c.  Between system calls an entry   *)
(* is FD_NONE or FD_OPENED; FD_INIT and FD_CLOSED last only inside one.    *)
(***************************************************************************)

Opened(p, fd) == proc[p].fd[fd].st = "opened"

OpenFds(t) == {fd \in Fds : t.fd[fd].st = "opened"}

(* fd_array_alloc(NO_FD): the lowest free entry.                           *)
FreeFds(t) == {fd \in Fds : t.fd[fd].st = "none"}

NewFile(n, fl, pos) ==
  [st |-> "opened", node |-> n, r |-> fl.acc # "W", w |-> fl.acc # "R",
   pos |-> pos, count |-> 1]

ReadOnly == [acc |-> "R", creat |-> FALSE, excl |-> FALSE, trunc |-> FALSE,
             append |-> FALSE]

(* fd_array_close and fd_array_free: the last user of the entry closes it. *)
CloseKeepsOpen(f, t, fd) ==
  [fs |-> ref_dec(f, t.fd[fd].node), t |-> [t EXCEPT !.fd[fd] = NoFile]]

CloseFd(f, t, fd) ==
  IF t.fd[fd].count = 1
  THEN [fs |-> vfs_close(f, t.fd[fd].node), t |-> [t EXCEPT !.fd[fd] = NoFile]]
  ELSE [fs |-> Panic(f), t |-> t]

(* files_closeall from descriptor `from' on, in order.                     *)
RECURSIVE CloseAll(_, _, _)
CloseAll(f, t, from) ==
  IF from = NFD THEN [fs |-> f, t |-> t]
  ELSE IF t.fd[from].st = "none" THEN CloseAll(f, t, from + 1)
  ELSE LET c == CloseFd(f, t, from) IN CloseAll(c.fs, c.t, from + 1)

(* files_destroy: the working directory first, then every descriptor.      *)
files_destroy(f, t) == CloseAll(ref_dec(f, t.cwd), t, 0).fs

(* fd_array_dup takes both counts on the node; dup_files does so for every *)
(* open descriptor, and for the working directory.                         *)
DupWithoutRef(f, file) == open_inc(f, file.node)

DupNode(f, file) == open_inc(ref_inc(f, file.node), file.node)

RECURSIVE DupAll(_, _, _)
DupAll(f, t, fds) ==
  IF fds = {} THEN f
  ELSE LET fd == Min(fds) IN DupAll(DupNode(f, t.fd[fd]), t, fds \ {fd})

dup_files(f, t) == DupAll(ref_inc(f, t.cwd), t, OpenFds(t))

(***************************************************************************)
(* The steps.                                                              *)
(***************************************************************************)
Kernel == [node |-> node, ok |-> TRUE]

(* dev_init: the device list (vfs_do_add) refers to each device.           *)
NewDevice == [in |-> TRUE, ref |-> 1, open |-> 0, reclaim |-> 0, size |-> 0]

(* The root: the boot file system (vfs_set_bootfs), init's working         *)
(* directory and that of user_main, init's first child, which inherits it. *)
BootRoot == [in |-> TRUE, ref |-> 3, open |-> 0, reclaim |-> 1,
             size |-> Disk[BLKN_ROOT].din.size]

(* init_main has run.                                                      *)
Init ==
  /\ node = [n \in Devices |-> NewDevice]
            @@ [n \in SfsInos |-> IF n = BLKN_ROOT THEN BootRoot ELSE NoNode]
  /\ \E p \in Procs :
       proc = [q \in Procs |->
                 IF q = p THEN [st |-> "run", cwd |-> BLKN_ROOT,
                                fd |-> [fd \in Fds |-> NoFile]]
                 ELSE Absent]
  /\ panic = "no"

Live == {p \in Procs : proc[p].st # "none"}

(* The descriptors on a node, and everything that refers to it: also the   *)
(* device list, the boot file system and init's working directory.         *)
Descriptors(n) ==
  {<<p, fd>> \in Live \X Fds : proc[p].fd[fd].st = "opened" /\ proc[p].fd[fd].node = n}

Holders(n) ==
  Cardinality(Descriptors(n)) + Cardinality({p \in Live : proc[p].cwd = n})
  + (IF n \in Devices THEN 1 ELSE 0) + (IF n = BLKN_ROOT THEN 2 ELSE 0)

(* The kernel stops: no process runs any more.                             *)
Halt(why) ==
  /\ panic' = why
  /\ proc' = [p \in Procs |-> Absent]
  /\ UNCHANGED node

(* A system call of p leaves the kernel as in f, and p as t.               *)
Step(f, p, t) ==
  IF f.ok
  THEN /\ node' = f.node
       /\ proc' = [proc EXCEPT ![p] = t]
       /\ UNCHANGED panic
  ELSE Halt("assert")

Running(p) == panic = "no" /\ proc[p].st = "run"

(* sysfile_open and file_open.                                             *)
OpenDone(p, o, fl) ==
  LET t == proc[p]
      pos == IF fl.append THEN o.fs.node[o.node].size ELSE 0
  IN /\ o.ret = E_EXISTS => o.fs.node[o.node].ref <= Holders(o.node) + MaxLeak
     /\ IF o.halt # "no" THEN Halt(o.halt)
        ELSE IF o.ret # Success THEN Step(o.fs, p, t)
        ELSE Step(o.fs, p, [t EXCEPT !.fd[Min(FreeFds(t))] = NewFile(o.node, fl, pos)])

(* A lookup in a directory, or the truncation after it, fails an assert.   *)
LookupStops(path) ==
  /\ path.name # "" /\ path.base \notin {"stdin", "stdout"}
  /\ Halt("sfs")

Open(p, path, fl) ==
  /\ Running(p)
  /\ FreeFds(proc[p]) # {}
  /\ LookupStops(path) \/ OpenDone(p, vfs_open(Kernel, proc[p].cwd, path, fl), fl)

ClosedStep(p, c) == Step(c.fs, p, c.t)

Close(p, fd) ==
  /\ Running(p)
  /\ Opened(p, fd)
  /\ ClosedStep(p, CloseFd(Kernel, proc[p], fd))

(* sysfile_read: pieces of at most IOBUF_SIZE bytes, up to the length, the *)
(* end of the file, or the first piece that cannot be copied to the user.  *)
(* The position has moved past that piece all the same.                    *)
Read(p, fd, len) ==
  /\ Running(p)
  /\ Opened(p, fd)
  /\ LET file == proc[p].fd[fd]
         size == node[file.node].size
     IN /\ file.r
        /\ file.node # STDIN
        /\ IF IsDirNode(file.node) THEN Halt("read")
           ELSE \/ Halt("sfs")
                \/ Step(Kernel, p,
                        [proc[p] EXCEPT !.fd[fd].pos =
                           IF @ >= size THEN @ ELSE Min({@ + len, size})])

(* file_read of the keyboard (dev_stdin_read): the descriptor is acquired, *)
(* and the process sleeps until characters come or it is killed.           *)
ReadStdin(p, fd) ==
  /\ Running(p)
  /\ Opened(p, fd)
  /\ proc[p].fd[fd].node = STDIN
  /\ Step(Kernel, p, [proc[p] EXCEPT !.st = "reading", !.fd[fd].count = @ + 1])

(* fd_array_release.                                                       *)
StdinReturns(p, fd) ==
  /\ panic = "no"
  /\ proc[p].st = "reading"
  /\ Opened(p, fd)
  /\ proc[p].fd[fd].count = 2
  /\ Step(Kernel, p, [proc[p] EXCEPT !.st = "run", !.fd[fd].count = @ - 1])

(* file_write of the bytes up to end: SFS enlarges the file, stdout_io     *)
(* only prints.                                                            *)
Written(f, n, end) ==
  [f EXCEPT !.node[n].size = IF n \in Devices \/ end <= @ THEN @ ELSE end]

(* sysfile_write: the same loop.                                           *)
Write(p, fd, len) ==
  /\ Running(p)
  /\ Opened(p, fd)
  /\ LET file == proc[p].fd[fd]
         end == file.pos + len
     IN /\ file.w
        /\ end <= MaxPos
        /\ \/ /\ file.node \notin Devices
              /\ Halt("sfs")
           \/ Step(Written(Kernel, file.node, end), p,
                   [proc[p] EXCEPT !.fd[fd].pos = end])

(* sysfile_seek and file_seek.  dev_tryseek refuses the two character      *)
(* devices; a directory has no vop_tryseek; SFS enlarges the file, or has  *)
(* no room for that.                                                       *)
Seek(p, fd, whence, off) ==
  /\ Running(p)
  /\ Opened(p, fd)
  /\ LET file == proc[p].fd[fd]
         n == file.node
         pos == off + CASE whence = "SET" -> 0
                        [] whence = "CUR" -> file.pos
                        [] whence = "END" -> node[n].size
     IN /\ pos \in 0..MaxPos
        /\ n \notin Devices
        /\ \/ /\ IsDirNode(n)
              /\ Halt("tryseek")
           \/ /\ ~IsDirNode(n) /\ pos > node[n].size
              /\ Halt("sfs")
           \/ /\ ~IsDirNode(n)
              /\ Step([Kernel EXCEPT !.node[n].size = Max({@, pos})],
                      p, [proc[p] EXCEPT !.fd[fd].pos = pos])

(* sysfile_fsync, which only clears the dirty flag of an SFS inode:        *)
(* devices have no vop_fsync.                                              *)
Fsync(p, fd) ==
  /\ Running(p)
  /\ Opened(p, fd)
  /\ proc[p].fd[fd].node \in Devices
  /\ Halt("fsync")

(* sysfile_getdirentry, which changes nothing but may fail an assert of    *)
(* SFS: only directories have vop_getdirentry.                             *)
Getdirentry(p, fd) ==
  /\ Running(p)
  /\ Opened(p, fd)
  /\ Halt(IF IsDirNode(proc[p].fd[fd].node) THEN "sfs" ELSE "getdirentry")

(* sysfile_dup and file_dup: fd2 must be free; NO_FD is the lowest free    *)
(* one.                                                                    *)
Dup(p, fd1, fd2) ==
  /\ Running(p)
  /\ Opened(p, fd1)
  /\ ~Opened(p, fd2)
  /\ Step(DupNode(Kernel, proc[p].fd[fd1]), p,
          [proc[p] EXCEPT !.fd[fd2] = [proc[p].fd[fd1] EXCEPT !.count = 1]])

(* sysfile_chdir, vfs_chdir and vfs_set_curdir.                            *)
ChdirTo(p, l) ==
  LET t == proc[p]
  IN IF l.ret # Success THEN Step(l.fs, p, t)
     ELSE IF l.node = t.cwd \/ ~IsDirNode(l.node) THEN Step(ref_dec(l.fs, l.node), p, t)
     ELSE Step(ref_dec(ref_dec(ref_inc(l.fs, l.node), t.cwd), l.node), p,
               [t EXCEPT !.cwd = l.node])

Chdir(p, path) ==
  /\ Running(p)
  /\ LookupStops(path) \/ ChdirTo(p, vfs_lookup(Kernel, proc[p].cwd, path))

(* sfs_namefile: from the directory up to the root through "..", looking   *)
(* in each parent for the entry of the child.  `room' is the number of     *)
(* names the buffer holds.                                                 *)
NameResult(f, ok, names) == [fs |-> f, ok |-> ok, names |-> names]

RECURSIVE Ascend(_, _, _, _), AscendTo(_, _, _, _, _)
Ascend(f, n, names, room) ==
  IF Named(n, "..") = {} THEN NameResult(ref_dec(f, n), FALSE, names)
  ELSE AscendTo(LoadInode(f, dirent_search(n, "..")), n, dirent_search(n, ".."), names, room)

AscendTo(f, n, parent, names, room) ==
  IF parent = n THEN NameResult(ref_dec(ref_dec(f, n), n), TRUE, names)
  ELSE IF Numbered(parent, n) = {} \/ Len(names) = room
  THEN NameResult(ref_dec(ref_dec(f, n), parent), FALSE, names)
  ELSE Ascend(ref_dec(f, n), parent, <<dirent_findino(parent, n)>> \o names, room)

namefile(f, n, room) == Ascend(ref_inc(f, n), n, << >>, room)

(* sysfile_getcwd and vfs_getcwd.                                          *)
Getcwd(p, room) ==
  /\ Running(p)
  /\ \/ Halt("sfs")
     \/ Step(ref_dec(namefile(ref_inc(Kernel, proc[p].cwd), proc[p].cwd, room).fs,
                     proc[p].cwd),
             p, proc[p])

(* copy_files, in do_fork.                                                 *)
Fork(p, q) ==
  /\ Running(p)
  /\ proc[q].st = "none"
  /\ Step(dup_files(Kernel, proc[p]), q, proc[p])

(* put_files, in do_exit.                                                  *)
Exit(p) ==
  /\ Running(p)
  /\ Step(files_destroy(Kernel, proc[p]), p, Absent)

(* do_execve: every descriptor but the first KEPT is closed, the program is*)
(* opened; when that fails the process exits.  load_icode reads the file   *)
(* in pieces, up to some position, and leaves its descriptor open.  It     *)
(* stops the kernel when the file is not a program or cannot be read, and  *)
(* a directory has no vop_tryseek.                                         *)
ExecOpened(p, t, o) ==
  IF o.ret # Success THEN Step(files_destroy(o.fs, t), p, Absent)
  ELSE IF IsDirNode(o.node) THEN Halt("tryseek")
  ELSE \/ Halt("load_icode")
       \/ \E pos \in 1..o.fs.node[o.node].size :
            Step(o.fs, p, [t EXCEPT !.fd[Min(FreeFds(t))] = NewFile(o.node, ReadOnly, pos)])

ExecClosed(p, path, c) ==
  IF FreeFds(c.t) = {} THEN Step(files_destroy(c.fs, c.t), p, Absent)
  ELSE ExecOpened(p, c.t, vfs_open(c.fs, c.t.cwd, path, ReadOnly))

Exec(p, path) ==
  /\ Running(p)
  /\ LookupStops(path) \/ ExecClosed(p, path, CloseAll(Kernel, proc[p], KEPT))

Halted ==
  /\ panic # "no" \/ Live = {}
  /\ UNCHANGED vars

Next ==
  \/ \E p \in Procs :
       \/ \E o \in Opens : Open(p, o.path, o.flags)
       \/ \E fd \in Fds : Close(p, fd) \/ ReadStdin(p, fd) \/ StdinReturns(p, fd)
       \/ \E fd \in Fds, len \in 1..MaxLen : Read(p, fd, len) \/ Write(p, fd, len)
       \/ \E fd \in Fds, whence \in {"SET", "CUR", "END"}, off \in -1..MaxPos :
            Seek(p, fd, whence, off)
       \/ \E fd \in Fds : Fsync(p, fd) \/ Getdirentry(p, fd)
       \/ \E fd1, fd2 \in Fds : Dup(p, fd1, fd2)
       \/ \E path \in Dirs : Chdir(p, path)
       \/ \E path \in Programs : Exec(p, path)
       \/ \E room \in 0..1 : Getcwd(p, room)
       \/ \E q \in Procs : Fork(p, q)
       \/ Exit(p)
  \/ Halted

Spec == Init /\ [][Next]_vars

(***************************************************************************)
(* Properties.                                                             *)
(***************************************************************************)

(* The open count of a node is the number of descriptors on it over all    *)
(* processes, and its reference count covers every holder, so no inode is  *)
(* reclaimed (inode.c:67) while a descriptor or a working directory still  *)
(* points to it, whatever processes fork, dup, exec, exit and close.       *)
CountsCoverHolders ==
  panic = "no" =>
    \A n \in Devices \cup SfsInos :
      /\ Holders(n) > 0 => node[n].in
      /\ node[n].in => /\ node[n].open = Cardinality(Descriptors(n))
                       /\ node[n].ref >= Holders(n)

(* No assert of the counting code fails: not those of inode_ref_dec,       *)
(* inode_open_dec, inode_kill and sfs_reclaim, nor fd_array_free's on an   *)
(* entry still acquired.                                                   *)
NoCountAssertFails == panic # "assert"

(* The names getcwd returns lead back from the root to the directory the   *)
(* process is in.                                                          *)
RECURSIVE Descend(_, _)
Descend(n, names) ==
  IF names = << >> THEN n ELSE Descend(dirent_search(n, Head(names)), Tail(names))

LeadsTo(w, n) == w.ok /\ Descend(BLKN_ROOT, w.names) = n

GetcwdNamesCwd ==
  \A p \in Live : LeadsTo(namefile(Kernel, proc[p].cwd, Cardinality(DirInos)), proc[p].cwd)
=============================================================================
