-------------------------------- MODULE Tlb ---------------------------------
(***************************************************************************)
(* The software-refilled TLB: kern/mm/tlb.c, the callers that change page  *)
(* tables (kern/mm/pmm.c, swap.c, kern/process/proc.c), and the lookup of  *)
(* the emulated MMU (addr_translate in src/mmu.h).                         *)
(*                                                                         *)
(* A page is its number; a TLB entry holds the two pages of one VPN2.      *)
(* Of a page table entry the model keeps PTE_P and, when TLB_P is set, its *)
(* TLB index.  Processes share no frames (copy_range() copies), so a frame *)
(* is named by the mapping it was allocated for, <<pgdir, page>>.  EntryLo *)
(* is such a frame, or NoFrame when its V bit is clear.  The kernel itself *)
(* runs in kseg0, outside the TLB.                                         *)
(*                                                                         *)
(* The machine runs in two phases.  In "check" the boot-time self tests    *)
(* (check_boot_pgdir, check_pgfault, check_swap) map and unmap pages of    *)
(* boot_pgdir; in "run" processes are loaded, forked, switched and exit.   *)
(***************************************************************************)
EXTENDS Integers, Sequences, FiniteSetsExt

CONSTANTS
    Boot,       \* boot_pgdir
    PgDir,      \* page directories of user processes
    NPair,      \* virtual pages in use are those of VPN2 0 .. NPair - 1
    TLBN,       \* number of TLB entries
    Loaded,     \* pages load_icode() maps; the others are mapped on demand
    Instr       \* instructions: the pages each one touches, in order

Half == {0, 1}
Pair == 0..(NPair - 1)
Page == 0..(2 * NPair - 1)
PgDirs == PgDir \cup {Boot}
Index == 0..(TLBN - 1)
Frame == PgDirs \X Page
NoFrame == <<>>
NotInTlb == -1                    \* TLB_P is clear
NoPair == -1                      \* ENTRYHI_INVALID, never looked up

ASSUME TlbAssumption ==
    /\ Boot \notin PgDir
    /\ NPair \in Nat /\ TLBN \in Nat \ {0}
    /\ Loaded \subseteq Page
    /\ Instr \subseteq Seq(Page) /\ <<>> \notin Instr

VARIABLES
    phase,      \* "check" or "run"
    live,       \* the page directories that belong to a process
    mapped,     \* the pages whose PTE has PTE_P
    tlb_p,      \* TLBIDX of each PTE with TLB_P, else NotInTlb
    cur_pgdir,  \* the page directory in use
    tlb,        \* tlb_key_ and tlb_data_ of the MMU
    empty,      \* tlb_algo_empty[0 .. tlb_algo_n - 1], a stack
    algo_hi,    \* tlb_algo_hi
    algo_ptr,   \* tlb_algo_ptr
    instr       \* the instruction being executed, <<>> between two of them

tableVars == <<mapped, tlb_p, live>>
tlbVars == <<tlb, empty, algo_hi, algo_ptr>>
vars == <<phase, tableVars, cur_pgdir, tlbVars, instr>>

-----------------------------------------------------------------------------
NoTlbP == [q \in Page |-> NotInTlb]
InvalidEntry == [hi |-> NoPair, lo |-> [h \in Half |-> NoFrame]]

Init ==
    /\ phase = "check"
    /\ live = {}
    /\ mapped = [d \in PgDirs |-> {}]
    /\ tlb_p = [d \in PgDirs |-> NoTlbP]
    /\ cur_pgdir = Boot
    /\ tlb = [i \in Index |-> InvalidEntry]
    /\ empty = [i \in 1..TLBN |-> i - 1]
    /\ algo_hi = [i \in Index |-> NoPair]
    /\ algo_ptr = 0
    /\ instr = <<>>

VPN2(la) == la \div 2
TLBLO(la) == la % 2
TLBPAIR(la) == IF TLBLO(la) = 0 THEN la + 1 ELSE la - 1

(* addr_translate(): the first entry with the page's VPN2 decides; NoFrame   *)
(* stands for a TLB refill or TLB invalid exception.                         *)
addr_translate(la) ==
    LET match == {i \in Index : tlb[i].hi = VPN2(la)}
    IN IF match = {} THEN NoFrame ELSE tlb[Min(match)].lo[TLBLO(la)]

(* Definitions named Bad... are seeded faults, used to see properties fail.  *)

(* load_pgdir(): every entry invalid, every index free.  The PTEs of pgdir   *)
(* keep what TLB_P and the index say from the last time it was in use.       *)
BadLoadPgdir(pgdir) == cur_pgdir' = pgdir /\ UNCHANGED tlbVars   \* no flush

load_pgdir(pgdir) ==
    /\ cur_pgdir' = pgdir
    /\ tlb' = [i \in Index |-> InvalidEntry]
    /\ empty' = [i \in 1..TLBN |-> i - 1]
    /\ UNCHANGED <<algo_hi, algo_ptr>>

-----------------------------------------------------------------------------
(* tlb_miss_handler(): map the page if need be (do_pgfault), then write the  *)
(* entry its pair says it is in, or an empty or evicted one.                 *)
BadEvicted(q, idx) == q = 2 * algo_hi[idx]                \* pair forgotten

(* tlb_get_empty() clears TLB_P of both pages it evicts from index idx.      *)
Evicted(q, idx) == VPN2(q) = algo_hi[idx]

tlb_miss_handler(la) ==
    LET d == cur_pgdir
        pair == TLBPAIR(la)
        paired == tlb_p[d][pair] # NotInTlb
        evict == ~paired /\ empty = <<>>
        idx == IF paired THEN tlb_p[d][pair]
               ELSE IF evict THEN algo_ptr ELSE empty[Len(empty)]
    IN /\ mapped' = [mapped EXCEPT ![d] = @ \cup {la}]
       /\ tlb_p' = [tlb_p EXCEPT ![d] =
                      [q \in Page |-> IF q = la THEN idx
                                      ELSE IF evict /\ Evicted(q, idx) THEN NotInTlb
                                      ELSE tlb_p[d][q]]]
       /\ tlb' = [tlb EXCEPT ![idx] =
                    [hi |-> VPN2(la),
                     lo |-> [h \in Half |-> IF h = TLBLO(la) THEN <<d, la>>
                                            ELSE IF paired THEN <<d, pair>> ELSE NoFrame]]]
       /\ empty' = IF paired \/ evict THEN empty ELSE SubSeq(empty, 1, Len(empty) - 1)
       /\ algo_hi' = IF paired THEN algo_hi ELSE [algo_hi EXCEPT ![idx] = VPN2(la)]
       /\ algo_ptr' = IF evict THEN (algo_ptr + 1) % TLBN ELSE algo_ptr

(* tlb_invalidate(pgdir, la), of the page table in use.                      *)
BadTlbInvalidate(la) ==                  \* index freed with its first page
    LET idx == tlb_p[cur_pgdir][la]
    IN IF idx = NotInTlb
       THEN UNCHANGED <<tlb, empty>>
       ELSE /\ tlb' = [tlb EXCEPT ![idx].lo[TLBLO(la)] = NoFrame]
            /\ empty' = Append(empty, idx)

tlb_invalidate(la) ==
    LET idx == tlb_p[cur_pgdir][la]
        pair == TLBPAIR(la)
        paired == tlb_p[cur_pgdir][pair] # NotInTlb
    IN IF idx = NotInTlb
       THEN UNCHANGED <<tlb, empty>>
       ELSE /\ tlb' = [tlb EXCEPT ![idx] =
                         IF paired
                         THEN [hi |-> VPN2(la),
                               lo |-> [h \in Half |-> IF h = TLBLO(la) THEN NoFrame
                                                      ELSE <<cur_pgdir, pair>>]]
                         ELSE InvalidEntry]
            /\ empty' = IF paired THEN empty ELSE Append(empty, idx)

-----------------------------------------------------------------------------
(* An instruction, or the kernel copying from or to user memory, begins.     *)
Issue ==
    /\ instr = <<>>
    /\ phase = "check" \/ cur_pgdir \in live
    /\ instr' \in Instr
    /\ UNCHANGED <<phase, tableVars, cur_pgdir, tlbVars>>

(* CPU::next(): the first page that does not translate raises an exception;  *)
(* the handler returns and the instruction starts again.                     *)
Miss ==
    /\ \E k \in 1..Len(instr) :
          /\ addr_translate(instr[k]) = NoFrame
          /\ \A j \in 1..(k - 1) : addr_translate(instr[j]) # NoFrame
          /\ tlb_miss_handler(instr[k])
    /\ UNCHANGED <<phase, live, cur_pgdir, instr>>

Retire ==
    /\ instr # <<>>
    /\ \A k \in 1..Len(instr) : addr_translate(instr[k]) # NoFrame
    /\ instr' = <<>>
    /\ UNCHANGED <<phase, tableVars, cur_pgdir, tlbVars>>

-----------------------------------------------------------------------------
(* The self tests: page_remove(), or swap_out() of a page, in boot_pgdir.    *)
PageRemove ==
    /\ phase = "check" /\ instr = <<>>
    /\ \E la \in mapped[Boot] :
          /\ tlb_invalidate(la)
          /\ mapped' = [mapped EXCEPT ![Boot] = @ \ {la}]
          /\ tlb_p' = [tlb_p EXCEPT ![Boot][la] = NotInTlb]
    /\ UNCHANGED <<phase, live, cur_pgdir, algo_hi, algo_ptr, instr>>

(* check_swap() ends with pgdir[0] = 0 and leaves the TLB as it is.          *)
CheckDone ==
    /\ phase = "check" /\ instr = <<>>
    /\ phase' = "run"
    /\ mapped' = [mapped EXCEPT ![Boot] = {}]
    /\ tlb_p' = [tlb_p EXCEPT ![Boot] = NoTlbP]
    /\ UNCHANGED <<live, cur_pgdir, tlbVars, instr>>

(* do_execve() and load_icode(): drop the old address space, load the new    *)
(* one.  The first process starts from a kernel thread.                      *)
Exec(d) ==
    /\ phase = "run"
    /\ \/ cur_pgdir = d /\ d \in live
       \/ cur_pgdir = Boot /\ live = {}
    /\ mapped' = [mapped EXCEPT ![d] = Loaded]
    /\ tlb_p' = [tlb_p EXCEPT ![d] = NoTlbP]
    /\ live' = live \cup {d}
    /\ load_pgdir(d)
    /\ instr' = <<>>
    /\ UNCHANGED phase

(* copy_range(): the child e gets frames of its own for what d has mapped.   *)
Fork(d, e) ==
    /\ phase = "run" /\ cur_pgdir = d /\ d \in live /\ e \notin live
    /\ instr = <<>>
    /\ mapped' = [mapped EXCEPT ![e] = mapped[d]]
    /\ tlb_p' = [tlb_p EXCEPT ![e] = NoTlbP]
    /\ live' = live \cup {e}
    /\ UNCHANGED <<phase, cur_pgdir, tlbVars, instr>>

(* do_exit(): back to boot_pgdir before the address space is torn down.      *)
Exit(d) ==
    /\ phase = "run" /\ cur_pgdir = d /\ d \in live
    /\ load_pgdir(Boot)
    /\ mapped' = [mapped EXCEPT ![d] = {}]
    /\ tlb_p' = [tlb_p EXCEPT ![d] = NoTlbP]
    /\ live' = live \ {d}
    /\ instr' = <<>>
    /\ UNCHANGED phase

(* proc_run() of another process, or of a kernel thread.  An instruction cut  *)
(* short is issued again when its process is back.                           *)
Switch(d) ==
    /\ phase = "run" /\ d # cur_pgdir /\ d \in live \cup {Boot}
    /\ load_pgdir(d)
    /\ instr' = <<>>
    /\ UNCHANGED <<phase, tableVars>>

-----------------------------------------------------------------------------
Step == Miss \/ Retire

Next ==
    \/ Issue \/ Step \/ PageRemove \/ CheckDone
    \/ \E d \in PgDir : Exec(d) \/ Exit(d)
    \/ \E d, e \in PgDir : Fork(d, e)
    \/ \E d \in PgDirs : Switch(d)

Spec == Init /\ [][Next]_vars

(* The CPU goes on executing.                                                *)
FairSpec == Spec /\ WF_vars(Step)

-----------------------------------------------------------------------------
(* Type correctness; tlb_algo_empty[] is never written past its end.         *)
TypeOK ==
    /\ phase \in {"check", "run"}
    /\ live \subseteq PgDir
    /\ mapped \in [PgDirs -> SUBSET Page]
    /\ tlb_p \in [PgDirs -> [Page -> {NotInTlb} \cup Index]]
    /\ cur_pgdir \in PgDirs
    /\ tlb \in [Index -> [hi : Pair \cup {NoPair}, lo : [Half -> {NoFrame} \cup Frame]]]
    /\ empty \in Seq(Index) /\ Len(empty) <= TLBN
    /\ algo_hi \in [Index -> Pair \cup {NoPair}]
    /\ algo_ptr \in Index
    /\ instr \in {<<>>} \cup Instr

(* Isolation: whatever mapping a TLB entry holds, the page table in use has   *)
(* the same one, so no process reaches a frame of another process or a freed  *)
(* frame.  (After the self tests boot_pgdir maps nothing and nothing is       *)
(* accessed until load_pgdir() flushes what they left.)                       *)
TlbCoherent ==
    (phase = "check" \/ cur_pgdir # Boot) =>
        \A i \in Index, h \in Half :
            tlb[i].lo[h] # NoFrame =>
                LET q == 2 * tlb[i].hi + h
                IN tlb[i].lo[h] = <<cur_pgdir, q>> /\ q \in mapped[cur_pgdir]

(* A PTE of the page table in use with TLB_P set names the TLB entry that     *)
(* holds the page, and only pages with TLB_P are held.                        *)
TlbPExact ==
    \A q \in Page :
        LET idx == tlb_p[cur_pgdir][q]
        IN /\ idx # NotInTlb => tlb[idx].hi = VPN2(q) /\ tlb[idx].lo[TLBLO(q)] # NoFrame
           /\ idx = NotInTlb => \A i \in Index : tlb[i].hi = VPN2(q) =>
                                   tlb[i].lo[TLBLO(q)] = NoFrame

(* It is exact as long as no page directory is loaded, and the self tests,    *)
(* which are the ones that invalidate entries, rely on it.                    *)
TlbPExactInChecks == phase = "check" => TlbPExact

(* What the PTE format (TLB_P and a TLB index) and the handler's "check for   *)
(* paired entry" take for granted, of a process as well.  It does not hold.   *)
TlbPNamesEntry ==
    \A q \in Page :
        LET idx == tlb_p[cur_pgdir][q]
        IN idx # NotInTlb => tlb[idx].hi = VPN2(q) /\ tlb[idx].lo[TLBLO(q)] # NoFrame

(* A process that keeps the CPU completes its instructions.  It does not      *)
(* hold: two pairs that both claim one index can evict each other for ever.   *)
InstructionsComplete ==
    \A d \in PgDir : <>[](cur_pgdir = d) => []<>(instr = <<>>)
=============================================================================
