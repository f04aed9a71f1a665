-------------------------------- MODULE Swap --------------------------------
(***************************************************************************)
(* Page replacement (kern/mm/swap.c, kern/mm/swap_fifo.c,                  *)
(* kern/fs/swap/swapfs.c) as the only code that ever runs it does: the     *)
(* boot-time check_swap, which leaves the allocator                        *)
(* CHECK_VALID_PHY_PAGE_NUM frames and writes to one virtual page more.    *)
(* check_mm_struct is NULL afterwards, so that user pages are never        *)
(* swappable.  What a page holds is left out: swapfs_read and              *)
(* swapfs_write move no data.                                              *)
(*                                                                         *)
(* The state is a record:                                                  *)
(*   todo    the accesses still to come                                    *)
(*   free    the frames alloc_page can hand out                            *)
(*   pte     per virtual page, its frame (0: not present) and whether the  *)
(*           entry is a swap entry                                         *)
(*   fifo    pra_list_head, the earliest arrival first                     *)
(*   pra     per frame, page->pra_vaddr                                    *)
(*   faults  pgfault_num                                                   *)
(*   ok      no assert has failed                                          *)
(***************************************************************************)
EXTENDS Integers, Sequences, FiniteSetsExt

CHECK_VALID_PHY_PAGE_NUM == 4

CHECK_VALID_VIR_PAGE_NUM == 5

CheckFrames == 1..CHECK_VALID_PHY_PAGE_NUM

CheckPages == 1..CHECK_VALID_VIR_PAGE_NUM

(* check_content_set: pages a to d, two writes each *)
check_content_set == <<1, 1, 2, 2, 3, 3, 4, 4>>

(* _fifo_check_swap: c, a, d, b, e, b, a, b, c, d *)
_fifo_check_swap == <<3, 1, 4, 2, 5, 2, 1, 2, 3, 4>>

(* what the asserts after those writes say pgfault_num is *)
ExpectedFaults == <<1, 1, 2, 2, 3, 3, 4, 4>> \o <<4, 4, 4, 4, 5, 5, 6, 7, 8, 9>>

NotMapped == [f |-> 0, swapped |-> FALSE]

check_swap ==
    [todo   |-> check_content_set \o _fifo_check_swap,
     free   |-> CheckFrames,
     pte    |-> [v \in CheckPages |-> NotMapped],
     fifo   |-> <<>>,
     pra    |-> [f \in CheckFrames |-> 0],
     faults |-> 0,
     ok     |-> TRUE]

(* a victim taken from the wrong end of the list *)
VictimLast(c) == c.fifo[Len(c.fifo)]

_fifo_swap_out_victim(c) == Head(c.fifo)

_fifo_map_swappable(c, f) == [c EXCEPT !.fifo = Append(@, f)]

(* swap_out of one frame: the page unmapped is the one the frame's
   pra_vaddr names, and it should be the one the frame holds *)
swap_out(c, f) ==
    [c EXCEPT !.fifo = SelectSeq(@, LAMBDA g : g # f),
              !.pte[c.pra[f]] = [f |-> 0, swapped |-> TRUE],
              !.free = @ \cup {f},
              !.ok = @ /\ c.pte[c.pra[f]].f = f]

(* alloc_pages(1): swap_out(check_mm_struct, 1, 0) until a frame is free *)
WithFree(c) == IF c.free # {} THEN c ELSE swap_out(c, _fifo_swap_out_victim(c))

(* pgdir_alloc_page, which records pra_vaddr; and do_pgfault's swap_in,
   page_insert and swap_map_swappable, which do not *)
PageIn(c, v) ==
    LET f == Min(c.free)
    IN  _fifo_map_swappable(
            [c EXCEPT !.free = @ \ {f},
                      !.pte[v] = [f |-> f, swapped |-> FALSE],
                      !.pra[f] = IF c.pte[v].swapped THEN @ ELSE v], f)

Fault(c, v) == PageIn(WithFree([c EXCEPT !.faults = @ + 1]), v)

(* the assert that follows every write of the self-test *)
Asserted(c) ==
    [c EXCEPT !.ok = @ /\ c.faults = ExpectedFaults[Len(ExpectedFaults) - Len(c.todo)]]

(* one write of the self-test *)
CheckWrite(c) ==
    LET v == Head(c.todo)
        d == [c EXCEPT !.todo = Tail(@)]
    IN  Asserted(IF c.pte[v].f # 0 THEN d ELSE Fault(d, v))
=============================================================================
