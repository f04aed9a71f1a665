# A TLA+ model of the MIPS32 emulator and its ucore kernel

The repository holds a MIPS32 emulator (`src/`, C++) and the operating system it
runs (`ucore_OS/`, a port of the teaching kernel ucore).  This directory models both:
the CPU with the kernel's trap code, processes and scheduling, semaphores and
monitors, the allocators, address spaces and page replacement, the software-managed
TLB, and the file system from descriptors down to the blocks that the image builder
wrote.  TLC checks the models on small instances, TLAPS proves the central invariants
for every instance.  `PROJECT.json` maps each definition to the lines it models.

## 1. The system

| Part | Source | State | Operations |
|---|---|---|---|
| Emulator CPU | `src/cpu.h`, `cpu.cc`, `cpu_instructions.cc`, `cp0.h` | PC, registers, HI/LO, CP0 | `run`, `next`, one method per instruction |
| Emulator MMU | `src/mmu.h` | 16 TLB entries, RAM, ROM, disk, serial port | `addr_translate`, `read_*`, `write_*` |
| Traps, system calls | `kern/trap`, `kern/syscall` | trap frame chain | `trap`, `trap_dispatch`, `syscall` |
| Processes | `kern/process/proc.c` | `proc_struct`s, `current`, family tree, pids | `do_fork/exit/wait/kill/yield/sleep/execve`, `init_main`, `cpu_idle` |
| Scheduler, timers | `kern/schedule` | run queue, delta list of timers | `schedule`, `wakeup_proc`, `add_timer`, `del_timer`, `run_timer_list` |
| Synchronisation | `kern/sync` | wait queues, semaphores, monitors | `up`, `down`, `cond_signal`, `cond_wait`, `wakeup_queue` |
| Memory | `kern/mm` | free pages, page tables, TLB bookkeeping, vmas, swap, heap | `alloc_pages`, `free_pages`, `page_insert/remove`, `tlb_*`, `do_pgfault`, `kmalloc`, `kfree` |
| Files | `kern/fs` | descriptor tables, inodes with two counts, SFS blocks | `file_*`, `vfs_*`, `sfs_*` |
| Devices | `kern/fs/devs`, `kern/driver` | stdin ring buffer, console, clock | `dev_stdin_read/write`, interrupt handlers |
| User programs | `user` | | clients of the system calls |

How they interact.  There is one CPU.  Every trap (interrupt, TLB miss, system call)
enters the kernel with interrupts masked and the kernel is never preempted, so what a
process does in the kernel is atomic up to its call of `schedule()`.  Only user code
and the kernel threads idle and init run with interrupts enabled.  A process gives
up the CPU on the way out of a trap (when `need_resched` is set), when it blocks, and
when it exits.  A blocked process is found by its waker through a structure it put
itself on: the timer list, a wait queue, or its parent pointer.  Each context switch
loads another page table and flushes the TLB; pages come back one miss at a time.

What makes it hard: a wakeup racing the decision to sleep; one process woken for two
reasons (a kill and a timer, a kill and a key); list nodes on the stacks of sleeping
processes; orphans and zombies changing hands while init sleeps; times stored as
differences; page table entries that cache TLB indices across flushes; a monitor that
changes hands through counting semaphores; two allocators on top of each other; an
interrupt in the middle of restoring registers; two counts on every inode that fork,
dup, exec and exit must keep in step.  The list of hazards, line by line, is in
`PROJECT.json`.

## 2. Modules

| Module | Models | Role |
|---|---|---|
| `Proc` | `proc.c`, `sched.c`, `default_sched.c`, `wait.c`, `trap.c`, `dev_stdin.c` | component |
| `MCProc` | instances of `Proc` (`MCProc`, `MCProcLive`, `MCProcKill`) | model checking |
| `ProcInvariant` | the inductive invariant and what the helpers do to it | proofs |
| `ProcWaitProofs` | actions that sleep, wake, tick and return | proofs |
| `ProcForkProofs` | schedule, fork, init | proofs |
| `ProcProofs` | exit, reaping, and the theorems | proofs |
| `Tlb` | `tlb.c`, callers in `pmm.c`, `swap.c`, `proc.c`, the lookup in `src/mmu.h` | component |
| `MCTlb` | instances of `Tlb` (`MCTlb`, `MCTlbIndex`, `MCTlbLive`) | model checking |
| `TlbProofs` | the TLB is coherent, for every instance | proofs |
| `Cpu` | the instructions and exceptions of `src/` | operators |
| `Trap`, `MCTrap` | `trapentry.S`, `switch.S`, `trap.c`, `ri.h`, `divmod.h`, `syscall.c`, `execve.S` on `Cpu` | component |
| `DiningTable` | what the philosophers of `check_sync.c` promise | abstract |
| `Sync`, `MCSync` | `sem.c`, `monitor.c`, `check_sync.c` | component |
| `SyncInvariant` | the inductive invariant of `Sync` and what `up` and `down` do to it | proofs |
| `SyncProofs` | the actions of `Sync`, and the theorems | proofs |
| `Extents` | what an allocator promises | abstract |
| `Pages` | `default_pmm.c` | operators |
| `Heap`, `MCHeap` | `kmalloc.c` on `Pages`, `alloc_pages`, `free_pages` | component |
| `Mksfs` | `tools/mksfs.c`: the disk the kernel mounts | operators |
| `Sfs` | `kern/fs/sfs` on that disk | operators |
| `SfsIo`, `MCSfsIo` | file I/O on `Sfs` | component |
| `Files`, `MCFiles` | `file.c`, `fs.c`, `sysfile.c`, `vfs/`, `devs/` on `Sfs` | component |
| `Swap` | `swap.c`, `swap_fifo.c` as `check_swap` drives them | operators |
| `Mm`, `MCMm` | `vmm.c`, `pmm.c`, the memory of fork, exec and exit, on `Swap` | component |

The modules that are composed: `Heap` runs the SLOB heap on the page allocator, `SfsIo`
and `Files` run on the disk that `Mksfs` builds from a small host tree, `Files` joins
descriptors, the VFS, devices and SFS's inode cache, `Trap` joins the emulator with the
kernel's assembly code and scheduler.

### Proc

A process is named by its `proc_struct`, which stands for its pid as well.  The
variables are the fields of that struct (`state`, `wait_state`, `exiting` for
`PF_EXITING`, `need_resched`, `time_slice`, `parent`), the globals (`current`,
`nr_process`, `run_list`, `timer_list`, the keyboard's `wait_queue` and fill level
`unread`), and the control state: `kpc[p]` is where `p` is, or will resume, in the
kernel, `insched` says that `current` has called `schedule()`, and `irq` which
interrupt handler is active.  A handler with a loop is one action per iteration; while
`insched` or `irq` is set only that handler can move, so the split adds no behaviour.
A failed `assert` or a `panic` sets `halted`.

| Action | Code |
|---|---|
| `Schedule`, `CpuIdle` | `schedule` with `proc_run`; `cpu_idle` |
| `SysFork`, `InitMain` | `do_fork`, for a system call and for `user_main` |
| `SysExit`, `DoExit`, `Reparent` | `do_exit`: entered; zombie and wakeup of the parent; children to init |
| `SysWait`, `Reap`, `WaitSleep`, `WaitNone`, `WaitReturn` | `do_wait` and, for init, `init_main`'s loop |
| `SysKill`, `SysYield`, `SysOther`, `TrapTail` | `do_kill`, `do_yield`, calls without effect here, the end of `trap` |
| `SysSleep`, `AddTimerWalk`, `AddTimerLink`, `SleepReturn` | `do_sleep`, `add_timer`, `del_timer` |
| `SysRead`, `ReadLoop`, `ReadReturn` | `sysfile_read` to `dev_stdin_read` |
| `ClockInterrupt`, `TimerExpire`, `TimerDone` | the clock trap and `run_timer_list` |
| `SerialInterrupt`, `SerialWake`, `SerialDone` | the serial trap, `dev_stdin_write`, `wakeup_queue` |

Left open on purpose: which zombie `do_wait` finds first, whether a fork finds memory,
on which ticks `ticks % TICK_NUM` is zero, and what user programs do.  A freed
struct and the locals of a finished call get their initial values back, so that they do
not multiply states.

### Tlb

A page is its number and a TLB entry holds the two pages of one VPN2.  Of a PTE the
model keeps `PTE_P` (`mapped`) and `TLB_P` with its index (`tlb_p`).  Processes share no
frames, so a frame is named by the mapping it was allocated for; an entry of a wrong
process or of a removed page is then visible as a value.  `phase` separates the boot
self tests, the only code that unmaps pages of the page table in use, from normal
running.  `Issue`, `Miss` and `Retire` are the CPU executing an instruction that touches
one or two pages; `PageRemove`, `CheckDone`, `Exec`, `Fork`, `Exit` and `Switch` are the
kernel's operations, each with all of the TLB work it does.  Left out: the dirty bit (a
store to a read-only page ends the process, which is `Exit`) and running out of memory.

### Trap and Cpu

The CPU is a record of the registers a program uses, hi, lo, pc, sp, k0, k1 and the CP0
bits that trap code reads.  Words have `W` bits.  `Cpu` has one case per instruction;
`Retired` is the end of `CPU::next`, where the clock may interrupt if Status lets it.  In
`Trap` a step is one user instruction or one stretch of kernel code between two places
where something can happen: `Vector`, `Push`, `Leave` (entry), the handlers of
`trap_dispatch`, `TrapEnd`, `TrapRet`, `Pop`, `Unswitch`, `Eret` (exit).  What a system call
does to files or processes is the business of the other modules; here it may touch user
memory (and take a nested TLB miss), block and let another process run (`SysBlock`: `do_wait`,
`do_sleep`, a keyboard read), ask for rescheduling (`SysYield`), fork, exec, exit or return a
value.  A store to a page of `ReadOnly` addresses raises TLB Modified, which ends the
process.  Instructions are numbered, not addressed, so an unaligned fetch cannot occur.  The
history variable `ideal` is the CPU each program would see if it ran alone.  Registers
that are dead are reset to a fixed value, which merges states the code cannot tell
apart.

### Sync and DiningTable

`check_sync` starts two groups of philosophers that share nothing; a behaviour follows
one, chosen in `Init`.  A step is an `up` or a `down` with the plain statements before it,
and steps interleave freely.  That is more than the kernel does (it switches only when
a thread blocks), so the properties do not rest on the kernel not being preempted.
`DiningTable` has three actions on the state array alone: get hungry, start eating when
neither neighbour eats, stop eating.

### Pages, Heap and Extents

`Pages` has the free list as a sequence of blocks, `nr_free` and the pages with
`PG_property`.  `Heap` adds the SLOB list: circular, sorted by address, through a static
arena, with `slobfree` moving.  Memory is counted in SLOB units, `U` to a page.  Its
actions are `kmalloc` of small and large sizes, `kfree` of both, `alloc_pages` and
`free_pages`.  `Extents` says what a caller relies on: memory given out is disjoint from
all memory held, inside physical memory, until it is given back.

### Mksfs, Sfs, SfsIo

`Mksfs` computes the disk from a host tree (`HostDir`, `HostFile`) as the builder does: one
block per directory entry, hard links stored once, the indirect block allocated after the
first data block that needs it.  A block is read in words: `Word` gives the words of a free
map, superblock, inode, directory entry, indirect block or data block, padded with zeros as
`write_block` does.  The contents of host files are words like any others, and may look like
block numbers.  Sizes and offsets are counted in words.

The kernel's disk driver drops writes (`disk0_write_blks_nolock` copies nothing), so the
contents of blocks never change after boot, and `Sfs` says what the code computes from that:
an entry written into an indirect block reads back as before, and a block that is freed and
taken again as an indirect block offers the words it held as entries.  `SfsIo` looks up,
reads, writes, truncates, seeks, syncs and reclaims files in any order.  Its history
variables are `touched`, the files whose inode has changed, and `strayed`, the blocks that
stale words of a reused block have named.

### Files

One action per system call.  The kernel is not preempted and no call sleeps except a
keyboard read, which is two steps.  A node has the two counts of `inode.c`, SFS's
`reclaim_count`, and the length of the file.  A call to an operation that an inode does
not have (`vop_create` anywhere, `vop_read` on a directory, `vop_fsync` on a device) halts
the kernel, as `__vop_op`'s assert does.  The blocks of files are `SfsIo`'s business.  What
they can do to a directory is kept: a block of one that was freed by way of stale words
fails the assert of `sfs_dirent_read_nolock`, so every call that reads a directory may halt
the kernel with `"sfs"` (`LookupStops`).

### Mm and Swap

`Swap` is page replacement as `check_swap`, its only user, drives it at boot: ten writes
to five pages on four frames, after eight that fill the frames, with the fault counts that the code asserts.  Afterwards
`check_mm_struct` is null and user pages are never swappable.  `Mm` then runs processes:
frames with reference counts, page directories and page tables as frames of their own,
the sorted vma list with its cache.  `see` is a history variable: what each process has
stored and must read back.  Frames are handed out lowest first; which frame a request
gets is `Heap`'s business.

## 3. Runs

| Run | Checks | Result |
|---|---|---|
| `proc` | 3 user processes, all interleavings, 9 properties | holds, 2.2 million states |
| `proc_live` | 2 user processes, fairness, 3 liveness properties | holds |
| `proc_kill` | a killed process dies | violated |
| `tlb` | 2 processes and the self tests, 3 pairs on 2 entries | holds, 0.6 million states |
| `tlb_index` | a PTE with `TLB_P` names its TLB entry | violated |
| `tlb_live` | an instruction completes | violated |
| `sync` | 4 philosophers, 2 rounds, 6 properties | holds, 174 thousand states |
| `heap` | 5 pages of 6 units, up to 4 objects, 6 properties | holds, 219 thousand states |
| `sfs` | 3 files, one with two names, on 20 blocks, 3 properties | holds, 179 thousand states |
| `files` | 2 processes, 2 descriptors each, nested directories, 3 properties | holds, 188 thousand states |
| `mm` | 3 address spaces on 16 frames, 5 properties | holds, 18 thousand states |
| `trap` | 2 processes, 3 programs, 4-bit words, 2 properties | holds, 966 thousand states |

**proc.**  `RunQueueExact`: the runnable processes are exactly the running one and the
queued ones.  `SleepersCanBeWoken` and `NoLostChildWakeup`: no lost wakeup.
`NoDanglingStackNode`: no list keeps a node of a stack frame that was left.
`FamilyTreeSound`: no pointer to a freed parent.  `ZombieOnlyReaped`: the dead stay dead.
`TimersKeepTime`: the delta list keeps absolute time.  `NoAssertFails`: none of the
code's own asserts fails.

Bounds: three user processes give a parent, a child and a grandchild (orphans and
zombies change hands) and three timers (insertion and deletion in the middle of the
list needs a predecessor and a successor).  A slice of one tick, a buffer of one
character and sleeps of up to two ticks reach every boundary: slice used up, buffer full
or empty, equal and different expiry times.  The user processes are interchangeable in
the code modelled here (there is no order on pids), so symmetry is sound; the liveness
runs do not use it.

**proc_live.**  `HandlerStep` is weakly fair: a handler runs with interrupts masked.
`KernelStep` and `ClockInterrupt` are strongly fair.  The emulated clock raises its
interrupt every 2^17 instructions, and a tick that falls into masked code is dropped, so
"the clock interrupts a CPU that keeps coming back to code with interrupts on" excludes
only a program in lock step with the clock.  In the other direction interrupted kernel
code makes progress between ticks.  System calls and keys are not fair: a program may
loop forever and nobody may type.

**proc_kill** (finding).  `trap()` looks at `PF_EXITING` after the dispatch only.  A
process killed while it is runnable returns to user mode first if it was switched away
at the end of a trap; when its next trap is a keyboard read it falls asleep with the
flag set, and a second `kill` does not wake it.  A parent that calls `kill` and then
`waitpid`, as `user/spin.c` does, hangs until somebody types.

**tlb.**  `TlbCoherent`: whatever an entry maps, the page table in use maps the same.
`TlbPExactInChecks`: until the first page directory is loaded, `TLB_P` is exact in both
directions; `tlb_invalidate` depends on it.  Three pairs on two entries force eviction,
and one pair with both pages in use forces sharing of an entry.

**tlb_index, tlb_live** (findings).  `load_pgdir` flushes the TLB but not the `TLB_P` bits
of the PTEs.  When a process runs again, `tlb_miss_handler` trusts the stale index of a
page's pair, so it may overwrite another pair's entry.  Each single miss is still
answered correctly (`TlbCoherent` holds), but two pairs that both claim one index evict
each other, and an instruction fetched from one that loads from the other never
completes.  Weak fairness of `Step` says the CPU goes on executing; the property is
about a process that keeps the CPU.

**sync.**  `NeighboursNeverBothEat` is about where the philosophers are, not about the
state array: `take_forks` does not return to one while its neighbour is between
`take_forks` and `put_forks`.  `OneActive`: one process at a time is active in the
monitor, as `monitor.h` says, with `cond_signal` handing it over.  `NoLostHandOff`: a unit
goes to a waiter or to the value, never to both or to neither.  `ImplementsTable`: the
state array moves as `DiningTable` allows.  `EveryoneQuits`: no deadlock.  Its fairness is
weak fairness of each philosopher: the run queue is a FIFO (`NoStarvation` in `proc_live`)
and the sleeps of `do_sleep` end (`SleepEnds`).  Four philosophers have neighbours that do
not neighbour each other, so two can eat at once and a third can wait for both.

**heap.**  `FreeListExact` and `SlobListExact`: both lists sorted, merged and complete.
`MemoryAccounted`: each unit of memory is in exactly one place.  `NoAssertFails`: the
allocator's own asserts.  `ImplementsExtents`: what callers rely on.  Sizes of one unit,
three units, two pages and four pages, and runs of one and two pages, reach splits and exact
fits, merges, growth of the heap and exhaustion, and each number of iterations of
`find_order` that a caller causes.  The largest caller is `dev_init_disk0`
(`dev_disk0.c:115`), whose buffer is four pages.  `HeapAssumption` leaves out two kinds of
sizes, which no caller uses: two units below a page, where the limits of `__kmalloc` and
`slob_alloc` differ by a header, and sizes above two pages that are not four pages, where
`find_order` halves and drops the remainder.

**sfs.**  `UnusedBlocksExact`: the superblock's count is the number of bits set in the free
map, also after an allocation that failed half way.  `ReadsTheImage`: a file nobody has
changed reads, at every offset, as the host's file, unless a block of it is in `strayed`.
It rests on the limit of `IOBUF` per call: the run of whole blocks in `sfs_io_nolock` takes
consecutive disk blocks, which a file has not got around its indirect block.

The exception is needed.  Without it TLC finds a violation of seven states: file a is
truncated, file b is sought past its end and takes a's data block as its indirect block,
where a word equal to a block number of file c is read as b's second block, and truncating b
frees that block under c.  The words of file a are the number of a data block of another
file, of another file's inode, of a block of the root directory, a zero, and numbers past the
disk, so that the entries found in a reused block are of each kind.

Blocks have five words, the least that hold an inode, and inodes one direct entry, so the
file of thirteen words needs its indirect block and a transfer of a block crosses the border
to it.  Positions are the start and the end of the largest file (`Positions`), writes a block
long (`Lengths`), and two of the three files are changed (`Changing`), which leaves one that
only suffers what is done to the others.

**files.**  `CountsCoverHolders`: the open count of a node is the number of descriptors on
it, and its reference count covers them, working directories, the device list and the
boot file system.  It is an inequality because `vfs_open` with `O_CREAT` and `O_EXCL` on an
existing file keeps a reference for good (`vfsfile.c:46`); `MaxLeak` bounds how often.
`NoCountAssertFails`: no assert of the counting code; `inode_check`'s upper limit of 0x10000 on
the counts is far beyond the bounds of the run and is not reached.  `GetcwdNamesCwd`: the
path that `sfs_namefile` collects upwards leads back down, over two levels of directories
below the root.  Two descriptors in two processes and one
kept by exec give every sharing of a node: dup, fork, two opens, working directory.
Processes are interchangeable, so symmetry is sound.

**mm.**  `FramesAccounted`: each frame is free or has exactly the owners its reference
count says.  `OwnMemory`: a process reads what it has stored, whatever others fork, exec
and free.  `NoKernelFault`: a buffer that passed `user_mem_check` never faults in the
kernel; it needs the check of every vma a buffer spans.  `SelfTestHolds`: `check_swap`'s
fault counts, although `do_pgfault` leaves `pra_vaddr` of swapped-in pages as it was.
`MaxMms` bounds the address spaces built to three, in two process slots: an exec, a fork
and an exec or a second fork after an exit.  A fork of a large process finds no
frame left, a fork of a small one succeeds.  Symmetry is sound, as processes are
interchangeable.

**trap.**  `UserContextKept`: whenever a user instruction is about to run, pc, registers,
hi, lo and sp are those of a CPU that runs the program alone, and interrupts are on.
`KernelContextKept`: C code in the kernel keeps its callee-saved registers and stack over
nested faults and switches, and two frames are all a kernel stack holds.  This is what
`Proc` and `Files` assume when they treat kernel code as atomic.  `DivmodExact`, an
assumption TLC evaluates over all pairs of words, compares the kernel's `div` with
division; it excludes the most negative number, which has no negation and for which
`divmod` is wrong.  `UserContextKept` is limited in the same way: the CPU a program would see
alone divides as `divmod` does for that number.  Programs do not divide by `$zero` or divide
`$zero`: `__alltraps` leaves its slot in the frame unwritten, and `ri_handler` reads it.  A word of four bits has four bytes of one bit, which keeps sign, carry,
alignment and byte order.

Definitions named `Bad...` in `Proc` and `Tlb`, and in the other modules the definitions just
before the one they distort, are seeded faults.  `PROJECT.json` pairs each property with
one of them that violates it.

## 4. Proofs

Three components are proved about, each from the one assumption on its constants:
`Proc`, `Tlb` and `Sync`.  In each, an inductive invariant holds initially, is preserved by
every action (one lemma per action, collected in `NextInv`) and implies the properties;
the theorems follow with `PTL`.

### Proc

`ProcProofs` proves, for any finite `UserProc` and any bounds allowed by
`ProcAssumption`, that `Spec` implies `TypeOK`, `NoAssertFails`, `RunQueueExact`,
`SleepersCanBeWoken`, `NoLostChildWakeup`, `NoDanglingStackNode`, `FamilyTreeSound` (all
`[]`) and the action property `ZombieOnlyReaped`.

The listed invariants are not inductive by themselves.  `Inv` (in `ProcInvariant`) adds

* `Control`: at which `kpc` a process in a given state can be, that only init and idle
  are ever at their own locations, and what `waitpid` can name;
* `TimerControl`: outside the clock handler the first timer is in the future, and the
  walk of `add_timer` stays inside the list with a time that is still positive;
* `Forest`: the parent relation among user processes has no cycle.  It is needed for
  init's assert that it is alone when it has no child, and for `do_exit`, which must not
  be its own parent.

The helpers `wakeup_proc`, `SleepAt`, the removal from a sequence and so on have lemmas of
their own.

### Tlb

`TlbProofs` proves `TypeOK`, `TlbCoherent` and `TlbPExactInChecks` for any set of page
directories, any number of pages and of TLB entries, any pages loaded and any
instructions (`TlbAssumption`).  `TlbCoherent` is not inductive, and it is not enough to
say that `TLB_P` is right, since for a process it is not (run `tlb_index`).  `IInv` has

* `Backed`: a PTE with `TLB_P` set is present, in every page table, however old the index
  in it is.  A refill copies the pair's PTE on the strength of `TLB_P`, so this is what
  keeps processes apart.
* `Phases`: once the self tests are over, instructions run only on a process's own page
  table.  `boot_pgdir` has lost its pages by then while the TLB still holds some.
* `Agree`, during the self tests only: `TLB_P`, the entries, `tlb_algo_hi` and
  `tlb_algo_empty` describe the same TLB.  `tlb_invalidate` looks at one entry, so a page
  must be in no other; that needs both pages of a VPN2 to share an entry, `tlb_algo_hi` to
  be right for each entry in use, and `tlb_algo_empty` to list exactly the others, once each.
  The last also bounds the array (a pigeonhole argument).

A refill finds its index in one of three ways; `RefillSafe` and `RefillAgrees` treat what
they share.

### Sync

`SyncProofs` proves, for any number of philosophers above one and of rounds above zero
(`SyncAssumption`), `NeighboursNeverBothEat`, `OneActive`, `NoLostHandOff` and the refinement
`ImplementsTable`.  `IInv` (in `SyncInvariant`) has

* `Private`: where a philosopher is in its program, its entry of the state array, its own
  semaphore and its condition variable's `count` fit together;
* `Queues`: a philosopher is in a queue once, only right after a `down` on that semaphore,
  and a semaphore with a unit has an empty queue;
* `OneToken`: at most one philosopher inside, or one unit in one of the semaphores that
  hand the section over, never both.  `cond_signal` and `cond_wait` only move it;
* `TableOK`: the state array is one of a proper table.

For the refinement, a step that changes the state array is matched with an action of
`DiningTable`: `Private` gives the old state of who gets hungry or stops eating, the test
in `phi_test` that of the neighbours of who starts.

### Only model-checked

Liveness (fairness and `ENABLED` are out of the prover's reach); `TimersKeepTime` (a sum
over a sequence needs induction over data, which the installed provers cannot
instantiate); `TypeOK` of `Sync`, whose bounds on `next_count` and `iter` the theorems do
not need; and the modules `Heap`, `SfsIo`, `Files`, `Mm`, `Trap` with the operators they use.
`Mksfs`, `Sfs`, `Files`, `Mm` and `Trap` use `RECURSIVE` operators, which a module that is
proved about may not reach.  The two invariants `IInv` were also checked by TLC on the
instances of the runs `tlb` and `sync`.

## 5. Not modelled

* The pid allocator `get_pid` and the sibling pointers: processes are model values.
* The contents of the keyboard buffer, the console's ring buffer and device registers.
* Lost clock ticks: `Count` is cleared at `Compare` even when the interrupt is masked
  (`src/cpu.h:48`).  No model counts time in instructions.
* `alloc_proc`'s `files_struct`, which `copy_files` overwrites (one leaked per fork): heap
  memory is counted in `Heap`, which has no processes.
* Physical address decoding, ROM, flash and serial port of the emulator, and `mtc0`, `mfc0`,
  `tlbwi` as instructions: their effects appear in `Tlb` and `Trap` where the kernel uses them.
* Code without a caller: `try_down`, `vfs_unmount`, `sfs_unmount`, `ksize`, sharing of address
  spaces (only kernel threads, which have none, pass `CLONE_VM`) and of descriptor tables
  (`CLONE_FS`).
* The boot-time self tests other than `check_swap` and those in `Tlb`: sequential, with
  constant inputs, run at every boot.  `check_sync` is modelled although its call is
  commented out (`kern/process/proc.c:928`): it is the only user of monitors.
* Data read from a disk block through a page of user memory: `SfsIo` says what a read of an
  unchanged file returns, `Mm` what user memory holds.
* Exceptions in the order of single kernel statements: exit and exec flush the TLB and free
  frames in one step of `Tlb`, so a missing flush is caught, a late one is not.
* Double indirect blocks and symbolic links of the image builder: the kernel reads neither.
* The copy loops of the disk device, `copy_string`, `copy_kargv`, the kernel's own page map.
* Formatted output, the kernel monitor and symbol tables, string functions.  User programs
  appear as arbitrary sequences of system calls, and in `Trap` as programs of its own.
