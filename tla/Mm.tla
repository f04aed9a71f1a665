--------------------------------- MODULE Mm ---------------------------------
(***************************************************************************)
(* The address spaces of ucore's processes: vmas and page faults           *)
(* (kern/mm/vmm.c), page tables and page references (kern/mm/pmm.c), and   *)
(* the parts of do_fork, do_execve, do_exit and do_wait that build them    *)
(* and give their frames back (kern/process/proc.c), after the boot-time   *)
(* test of page replacement (Swap).                                        *)
(*                                                                         *)
(* Addresses are counted in pages.  A single page is always the lowest     *)
(* free one and a kernel stack the lowest free run, which is what the      *)
(* address-ordered first fit of module Pages hands out.  An mm belongs to  *)
(* one process: CLONE_VM is passed to kernel threads alone, whose mm is    *)
(* NULL.  What a page holds is one value of Values.  A page allocated for  *)
(* the stack is not cleared, so that what it holds at first is any value.  *)
(***************************************************************************)
EXTENDS Swap, SequencesExt

CONSTANTS Procs,      \* processes other than idle and init (MAX_PROCESS)
          NF,         \* physical frames
          KSTACKPAGE, \* frames of a kernel stack
          NV,         \* user pages 0..NV-1
          PTN,        \* user pages a page table maps
          Programs,   \* sequences of segments [start, end, w]
          USTACK,     \* the first page of the user stack
          STACKPAGES, \* stack pages load_icode allocates
          Args,       \* bound: stack pages the arguments of exec may take
          Buffers,    \* bound: <<first page, end>> of the buffers of system calls
          MaxMms,     \* bound: address spaces fork and exec build
          Values      \* what a page may hold, 0 included

VARIABLES mem,    \* physical memory: free frames, reference counts, contents
          proc,   \* the processes: state, kernel stack, address space
          see,    \* history: what the process last stored in each page
          made,   \* address spaces built so far
          halt,   \* why the kernel panicked, "no" while it runs
          check   \* the self-test of page replacement

vars == <<mem, proc, see, made, halt, check>>

Frames == 1..NF

VPages == 0..(NV - 1)

PDX(v) == v \div PTN

NoPte == [f |-> 0, w |-> FALSE]

NoVma == [start |-> 0, end |-> 0, w |-> FALSE, stack |-> FALSE]

NoMm == [vmas |-> <<>>, cache |-> NoVma, pgdir |-> 0,
         pde |-> [i \in {PDX(v) : v \in VPages} |-> 0],
         pte |-> [v \in VPages |-> NoPte]]

Nothing == [v \in VPages |-> 0]

-----------------------------------------------------------------------------
(* A handler works on a record: physical memory, the address space in hand *)
(* (mm), what its owner should see in it, the page allocated last, and the *)
(* reason for a panic.  After a panic the later steps do nothing.          *)

Work(mm, sees) ==
    [free |-> mem.free, ref |-> mem.ref, data |-> mem.data,
     mm |-> mm, see |-> sees, page |-> 0, halt |-> "no"]

Panic(s, why) == [s EXCEPT !.halt = why]

(* alloc_page: out of memory it calls swap_out(NULL, 1, 0), which faults *)
alloc_page(s) ==
    IF s.halt # "no" THEN s
    ELSE IF s.free = {} THEN Panic(s, "no memory")
    ELSE [s EXCEPT !.free = @ \ {Min(s.free)}, !.page = Min(s.free)]

free_pages(s, F) ==
    [s EXCEPT !.free = @ \cup F,
              !.ref  = [f \in Frames |-> IF f \in F THEN 0 ELSE @[f]],
              !.data = [f \in Frames |-> IF f \in F THEN 0 ELSE @[f]]]

(* get_pte with create: the page table of page v *)
SetPde(s, v) ==
    IF s.halt # "no" THEN s
    ELSE [s EXCEPT !.ref[s.page] = 1, !.mm.pde[PDX(v)] = s.page]

get_pte(s, v) == IF s.mm.pde[PDX(v)] # 0 THEN s ELSE SetPde(alloc_page(s), v)

page_remove_pte(s, v) ==
    LET f == s.mm.pte[v].f
        t == [s EXCEPT !.ref[f] = @ - 1, !.mm.pte[v] = NoPte]
    IN  IF f = 0 THEN s ELSE IF t.ref[f] = 0 THEN free_pages(t, {f}) ELSE t

(* page_insert: the old mapping goes, unless it is of the same page *)
SetPte(s, f, v, w) ==
    IF s.halt # "no" THEN s
    ELSE [page_remove_pte([s EXCEPT !.ref[f] = @ + 1], v)
             EXCEPT !.mm.pte[v] = [f |-> f, w |-> w]]

page_insert(s, f, v, w) == SetPte(get_pte(s, v), f, v, w)

(* the page just allocated holds x *)
Fill(s, v, x) ==
    IF s.halt # "no" THEN s
    ELSE [s EXCEPT !.data[s.page] = x, !.see[v] = x]

MapPage(s, v, w) == page_insert(s, s.page, v, w)

(* pgdir_alloc_page, the new page holding x *)
pgdir_alloc_page(s, v, w, x) == MapPage(Fill(alloc_page(s), v, x), v, w)

(* the pages of all vmas, which exit_mmap goes through twice *)
VmaPages(mm) == {v \in VPages : \E i \in DOMAIN mm.vmas :
                    mm.vmas[i].start <= v /\ v < mm.vmas[i].end}

Mappings(mm, f) == Cardinality({v \in VmaPages(mm) : mm.pte[v].f = f})

(* the frames unmap_range frees, and the page tables exit_range frees *)
unmap_range(s) ==
    {f \in Frames : Mappings(s.mm, f) > 0 /\ s.ref[f] = Mappings(s.mm, f)}

exit_range(s) == {s.mm.pde[PDX(v)] : v \in VmaPages(s.mm)} \ {0}

(* page tables that stay behind when an address space goes *)
ExitKeepsTables(s) == free_pages(s, unmap_range(s))

exit_mmap(s) == free_pages(s, unmap_range(s) \cup exit_range(s))

(* exit_mmap, put_pgdir and mm_destroy; mm_count is 1 *)
Discard(s) ==
    IF s.mm.pgdir = 0 THEN s
    ELSE [free_pages(exit_mmap(s), {s.mm.pgdir})
             EXCEPT !.mm = NoMm, !.see = Nothing]

SetPgdir(s) ==
    IF s.halt # "no" THEN s ELSE [s EXCEPT !.mm = [NoMm EXCEPT !.pgdir = s.page]]

(* mm_create and setup_pgdir *)
NewMm(s) == SetPgdir(alloc_page(s))

-----------------------------------------------------------------------------
(* vmas *)

Holds(vma, v) == vma.start <= v /\ v < vma.end

(* find_vma and the entry it caches *)
find_vma(mm, v) ==
    IF Holds(mm.cache, v) THEN mm.cache
    ELSE IF v \in VmaPages(mm)
         THEN mm.vmas[Min({i \in DOMAIN mm.vmas : Holds(mm.vmas[i], v)})]
         ELSE NoVma

Cached(s, vma) == IF vma = NoVma THEN s ELSE [s EXCEPT !.mm.cache = vma]

(* an insertion that does not look at the next vma *)
InsertUnchecked(s, n, vma) ==
    IF n > 0 /\ s.mm.vmas[n].end > vma.start THEN Panic(s, "assert")
    ELSE [s EXCEPT !.mm.vmas = InsertAt(@, n + 1, vma)]

(* insert_vma_struct at position n + 1, with check_vma_overlap's asserts *)
InsertAfter(s, n, vma) ==
    IF \/ n > 0 /\ s.mm.vmas[n].end > vma.start
       \/ n < Len(s.mm.vmas) /\ vma.end > s.mm.vmas[n + 1].start
    THEN Panic(s, "assert")
    ELSE [s EXCEPT !.mm.vmas = InsertAt(@, n + 1, vma)]

insert_vma_struct(s, vma) ==
    IF s.halt # "no" THEN s
    ELSE InsertAfter(s, Cardinality({i \in DOMAIN s.mm.vmas :
                                         s.mm.vmas[i].start <= vma.start}), vma)

(* mm_map, whose callers assert that it succeeds *)
mm_map(s, vma) ==
    IF s.halt = "no" /\ find_vma(s.mm, vma.start) # NoVma
    THEN Panic(s, "assert")
    ELSE insert_vma_struct(s, vma)

(* copy_range: every page present is copied into a page of the child's *)
Copy(s, f) == IF s.halt # "no" THEN s ELSE [s EXCEPT !.data[s.page] = s.data[f]]

(* the child is given the parent's page *)
SharePage(s, pte, v) == IF pte.f = 0 THEN s ELSE page_insert(s, pte.f, v, pte.w)

CopyPage(s, pte, v) ==
    IF pte.f = 0 THEN s
    ELSE MapPage(Copy(alloc_page(get_pte(s, v)), pte.f), v, pte.w)

RECURSIVE copy_range(_, _, _, _)
copy_range(s, from, v, end) ==
    IF v = end THEN s
    ELSE copy_range(CopyPage(s, from.pte[v], v), from, v + 1, end)

(* dup_mmap, from the last vma to the first *)
RECURSIVE dup_mmap(_, _, _)
dup_mmap(s, from, i) ==
    IF i = 0 \/ s.halt # "no" THEN s
    ELSE dup_mmap(copy_range(insert_vma_struct(s, from.vmas[i]), from,
                             from.vmas[i].start, from.vmas[i].end),
                  from, i - 1)

-----------------------------------------------------------------------------
(* page faults and accesses *)

(* do_pgfault's checks *)
Allowed(vma, write) == vma # NoVma /\ (write => vma.w)

Faulted(s, vma, v, x) == pgdir_alloc_page(get_pte(Cached(s, vma), v), v, vma.w, x)

Store(s, v, x) ==
    IF s.halt # "no" THEN s
    ELSE [s EXCEPT !.data[s.mm.pte[v].f] = x, !.see[v] = x]

(* an access to user memory; when the kernel makes it for the process, a
   fault do_pgfault refuses, or a store to a read-only page, is fatal *)
Access(s, v, write, x) ==
    IF s.halt # "no" THEN s
    ELSE IF s.mm.pte[v].f # 0
         THEN IF ~write THEN s
              ELSE IF s.mm.pte[v].w THEN Store(s, v, x) ELSE Panic(s, "kernel fault")
    ELSE IF Allowed(find_vma(s.mm, v), write)
         THEN Faulted(s, find_vma(s.mm, v), v, x)
         ELSE Panic(s, "kernel fault")

RECURSIVE KernelCopy(_, _, _, _, _)
KernelCopy(s, v, end, write, x) ==
    IF v >= end THEN s
    ELSE KernelCopy(Access(s, v, write, x), v + 1, end, write, x)

Checked(ok, mm) == [ok |-> ok, mm |-> mm]

RECURSIVE user_mem_check(_, _, _, _)
RECURSIVE CheckVma(_, _, _, _, _)

(* only the first vma of the buffer is looked at *)
CheckOneVma(mm, vma, v, end, write) ==
    Checked(vma # NoVma /\ (write => vma.w /\ ~(vma.stack /\ v = vma.start)), mm)

CheckVma(mm, vma, v, end, write) ==
    IF vma = NoVma THEN Checked(FALSE, mm)
    ELSE IF write /\ (~vma.w \/ (vma.stack /\ v < vma.start + 1))
         THEN Checked(FALSE, [mm EXCEPT !.cache = vma])
         ELSE user_mem_check([mm EXCEPT !.cache = vma], vma.end, end, write)

user_mem_check(mm, v, end, write) ==
    IF v >= end THEN Checked(TRUE, mm)
    ELSE CheckVma(mm, find_vma(mm, v), v, end, write)

-----------------------------------------------------------------------------
(* load_icode *)

RECURSIVE LoadPages(_, _, _, _)
LoadPages(s, v, end, w) ==
    IF v = end \/ s.halt # "no" THEN s
    ELSE LoadPages(pgdir_alloc_page(s, v, w, 0), v + 1, end, w)

(* the program headers, from the last to the first *)
RECURSIVE LoadSegments(_, _, _)
LoadSegments(s, prog, i) ==
    IF i = 0 \/ s.halt # "no" THEN s
    ELSE LoadSegments(
             LoadPages(mm_map(s, [start |-> prog[i].start, end |-> prog[i].end,
                                  w |-> prog[i].w, stack |-> FALSE]),
                       prog[i].start, prog[i].end, prog[i].w),
             prog, i - 1)

RECURSIVE StackPages(_, _, _)
StackPages(s, n, x) ==
    IF n = 0 \/ s.halt # "no" THEN s
    ELSE pgdir_alloc_page(StackPages(s, n - 1, x), NV - n, TRUE, x)

UserStack(s, x) ==
    StackPages(mm_map(s, [start |-> USTACK, end |-> NV, w |-> TRUE, stack |-> TRUE]),
               STACKPAGES, x)

(* the strings and argv, written below USTACKTOP through the new mm *)
RECURSIVE PushArgs(_, _)
PushArgs(s, n) ==
    IF n = 0 THEN s ELSE Access(PushArgs(s, n - 1), NV - n, TRUE, 0)

load_icode(s, prog, args, x) ==
    PushArgs(UserStack(LoadSegments(NewMm(s), prog, Len(prog)), x), args)

-----------------------------------------------------------------------------
NoProc == [st |-> "none", kstack |-> {}, mm |-> NoMm]

Mem0 == [free |-> Frames, ref |-> [f \in Frames |-> 0], data |-> [f \in Frames |-> 0]]

(* setup_kstack: the lowest run of KSTACKPAGE free frames, if any *)
Runs(free) == {f \in Frames : f..(f + KSTACKPAGE - 1) \subseteq free}

KStack(free) == Min(Runs(free))..(Min(Runs(free)) + KSTACKPAGE - 1)

(* user_main, the kernel thread that init starts, about to exec *)
Init ==
    /\ mem = [Mem0 EXCEPT !.free = @ \ KStack(Frames)]
    /\ \E p \in Procs :
          proc = [q \in Procs |-> IF q = p THEN [NoProc EXCEPT !.st = "run",
                                                               !.kstack = KStack(Frames)]
                                           ELSE NoProc]
    /\ see = [p \in Procs |-> Nothing]
    /\ made = 0
    /\ halt = "no"
    /\ check = check_swap

Running(p) == halt = "no" /\ check.todo = <<>> /\ proc[p].st = "run"

(* after a panic nothing is left to say about memory *)
Halt(why) ==
    /\ halt' = why
    /\ mem' = Mem0
    /\ proc' = [p \in Procs |-> NoProc]
    /\ see' = [p \in Procs |-> Nothing]
    /\ made' = 0
    /\ UNCHANGED check

(* the handler of p ends with memory s, process q in state r *)
Done(s, q, r, new) ==
    IF s.halt # "no" THEN Halt(s.halt)
    ELSE /\ mem' = [free |-> s.free, ref |-> s.ref, data |-> s.data]
         /\ proc' = [proc EXCEPT ![q] = r]
         /\ see' = [see EXCEPT ![q] = s.see]
         /\ made' = made + new
         /\ UNCHANGED <<halt, check>>

InMm(s, p) == Done(s, p, [proc[p] EXCEPT !.mm = s.mm], 0)

do_exit(p) ==
    Done(Discard(Work(proc[p].mm, see[p])), p,
         [proc[p] EXCEPT !.st = "zombie", !.mm = NoMm], 0)

CheckSwap ==
    /\ halt = "no" /\ check.todo # <<>>
    /\ check' = CheckWrite(check)
    /\ UNCHANGED <<mem, proc, see, made, halt>>

Forked(s, q, kstack) ==
    Done(s, q, [st |-> "run", kstack |-> kstack, mm |-> s.mm], 1)

(* sys_fork; without room for a kernel stack it returns -E_NO_MEM *)
Fork(p, q) ==
    /\ Running(p) /\ proc[p].mm.pgdir # 0 /\ made < MaxMms
    /\ proc[q].st = "none"
    /\ Runs(mem.free) # {}
    /\ Forked(dup_mmap(NewMm([Work(NoMm, see[p]) EXCEPT !.free = @ \ KStack(mem.free)]),
                       proc[p].mm, Len(proc[p].mm.vmas)),
              q, KStack(mem.free))

Execed(s, p) == Done(s, p, [proc[p] EXCEPT !.mm = s.mm], 1)

(* do_execve: the old address space is given up before the new one is built *)
Exec(p, prog, args, x) ==
    /\ Running(p) /\ made < MaxMms
    /\ Execed(load_icode(Discard(Work(proc[p].mm, see[p])), prog, args, x), p)

Exit(p) == Running(p) /\ do_exit(p)

(* a user instruction: a page present is used as it is, the others fault;
   an access that is not allowed ends the process *)
UserLoad(p, v, x) ==
    /\ Running(p) /\ proc[p].mm.pgdir # 0
    /\ proc[p].mm.pte[v].f = 0
    /\ IF Allowed(find_vma(proc[p].mm, v), FALSE)
       THEN InMm(Faulted(Work(proc[p].mm, see[p]), find_vma(proc[p].mm, v), v, x), p)
       ELSE do_exit(p)

MayStore(mm, v) ==
    IF mm.pte[v].f # 0 THEN mm.pte[v].w ELSE Allowed(find_vma(mm, v), TRUE)

UserStore(p, v, x) ==
    /\ Running(p) /\ proc[p].mm.pgdir # 0
    /\ IF MayStore(proc[p].mm, v)
       THEN InMm(Access(Work(proc[p].mm, see[p]), v, TRUE, x), p)
       ELSE do_exit(p)

(* copy_from_user and copy_to_user of a buffer of a system call *)
CopyChecked(c, p, v, end, write, x) ==
    IF c.ok THEN InMm(KernelCopy(Work(c.mm, see[p]), v, end, write, x), p)
    ELSE InMm(Work(c.mm, see[p]), p)

UserCopy(p, v, end, write, x) ==
    /\ Running(p) /\ proc[p].mm.pgdir # 0
    /\ CopyChecked(user_mem_check(proc[p].mm, v, end, write), p, v, end, write, x)

(* do_wait: the parent frees the kernel stack of the zombie *)
Wait(p) ==
    /\ halt = "no" /\ proc[p].st = "zombie"
    /\ Done(free_pages(Work(NoMm, Nothing), proc[p].kstack), p, NoProc, 0)

(* the panic loop *)
Halted == halt # "no" /\ UNCHANGED vars

(* every process has been waited for *)
AllGone == (\A p \in Procs : proc[p].st = "none") /\ halt = "no" /\ UNCHANGED vars

Next ==
    \/ CheckSwap
    \/ \E p, q \in Procs : Fork(p, q)
    \/ \E p \in Procs, prog \in Programs, args \in Args, x \in Values :
          Exec(p, prog, args, x)
    \/ \E p \in Procs : Exit(p)
    \/ \E p \in Procs, v \in VPages, x \in Values : UserLoad(p, v, x)
    \/ \E p \in Procs, v \in VPages, x \in Values : UserStore(p, v, x)
    \/ \E p \in Procs, b \in Buffers, write \in BOOLEAN, x \in Values :
          UserCopy(p, b[1], b[2], write, x)
    \/ \E p \in Procs : Wait(p)
    \/ Halted
    \/ AllGone

Spec == Init /\ [][Next]_vars
-----------------------------------------------------------------------------
(* Properties *)

Vmas == [start : VPages, end : VPages \cup {NV}, w : BOOLEAN, stack : BOOLEAN]

(* The state is well formed.  The vmas of an address space are disjoint and
   in the order of their addresses, and the one find_vma cached is one of
   them: insert_vma_struct and its asserts, find_vma. *)
TypeOK ==
    /\ mem.free \subseteq Frames
    /\ mem.ref \in [Frames -> 0..NV]
    /\ mem.data \in [Frames -> Values]
    /\ halt \in {"no", "no memory", "assert", "kernel fault"}
    /\ \A p \in Procs :
          LET mm == proc[p].mm
          IN  /\ proc[p].st \in {"none", "run", "zombie"}
              /\ \A i \in DOMAIN mm.vmas : mm.vmas[i] \in Vmas
              /\ \A i, j \in DOMAIN mm.vmas : i < j => mm.vmas[i].end <= mm.vmas[j].start
              /\ mm.cache \in {NoVma} \cup Range(mm.vmas)
              /\ mm.pde \in [{PDX(v) : v \in VPages} -> 0..NF]
              /\ mm.pte \in [VPages -> [f : 0..NF, w : BOOLEAN]]

(* what each process has of physical memory *)
Mapped(p) == {v \in VPages : proc[p].mm.pte[v].f # 0}

Owners(f) ==
    Cardinality({p \in Procs : f \in proc[p].kstack})
  + Cardinality({p \in Procs : f = proc[p].mm.pgdir})
  + Cardinality({pi \in Procs \X DOMAIN NoMm.pde : proc[pi[1]].mm.pde[pi[2]] = f})
  + Cardinality({pv \in Procs \X VPages : proc[pv[1]].mm.pte[pv[2]].f = f})

(* Every frame is free or has exactly one use: a kernel stack, a page
   directory, a page table or a page of one process; and the count of a
   page is the number of entries that map it.  So no sequence of fork,
   exec, page faults and exit loses a frame or gives it to two owners
   (alloc_page and free_page in get_pte, page_insert, page_remove_pte,
   exit_range, put_pgdir and put_kstack). *)
FramesAccounted ==
    halt = "no" =>
      \A f \in Frames :
        /\ IF f \in mem.free THEN Owners(f) = 0 ELSE Owners(f) = 1
        /\ mem.ref[f] =
             Cardinality({pi \in Procs \X DOMAIN NoMm.pde : proc[pi[1]].mm.pde[pi[2]] = f})
           + Cardinality({pv \in Procs \X VPages : proc[pv[1]].mm.pte[pv[2]].f = f})

(* A process finds in every page what it last stored there, what its parent
   had stored when it forked, or what load_icode put there, whatever the
   other processes do; a page is writable exactly when its vma is, and it
   lies under a page table of the same address space (copy_range, dup_mmap,
   do_pgfault, load_icode). *)
OwnMemory ==
    \A p \in Procs : \A v \in Mapped(p) :
      LET mm == proc[p].mm
      IN  /\ mem.data[mm.pte[v].f] = see[p][v]
          /\ mm.pde[PDX(v)] # 0
          /\ \E i \in DOMAIN mm.vmas : Holds(mm.vmas[i], v) /\ mm.vmas[i].w = mm.pte[v].w

(* A buffer user_mem_check has accepted can be copied: the kernel never
   stops with "handle pgfault failed in kernel mode", nor when load_icode
   pushes arguments below the pages it has allocated. *)
NoKernelFault == halt # "kernel fault"

(* check_swap succeeds: every assert on pgfault_num holds, and each frame
   swap_out evicts is the one mapped at the address it unmaps. *)
SelfTestHolds == check.ok
=============================================================================
