-------------------------------- MODULE Pages -------------------------------
(***************************************************************************)
(* The first-fit page allocator, kern/mm/default_pmm.c, as operators on    *)
(* its free area: a record of the free list, a sequence of blocks (first   *)
(* page and length, the property field of that page), of nr_free, and of   *)
(* the set of pages whose PG_property flag is set.                         *)
(***************************************************************************)
EXTENDS Integers, SequencesExt

Block(b, n) == [base |-> b, n |-> n]
PagesOf(b) == b.base..(b.base + b.n - 1)

(* default_init() and default_init_memmap() of all pages.                    *)
InitArea(np) == [list |-> <<Block(0, np)>>, nr_free |-> np, property |-> {0}]

-----------------------------------------------------------------------------
(* default_alloc_pages(): the first block that is long enough.               *)
FirstFit(a, n) == SelectInSeq(a.list, LAMBDA b : b.n >= n)
CanAlloc(a, n) == n <= a.nr_free /\ FirstFit(a, n) # 0
AllocatedPage(a, n) == a.list[FirstFit(a, n)].base

AllocLosesRest(a, n) ==
    [list |-> RemoveAt(a.list, FirstFit(a, n)), nr_free |-> a.nr_free - n,
     property |-> a.property \ {AllocatedPage(a, n)}]

AllocKeepsFlag(a, n) ==
    LET k == FirstFit(a, n)
        b == a.list[k]
    IN  [list |-> IF b.n > n THEN [a.list EXCEPT ![k] = Block(b.base + n, b.n - n)]
                             ELSE RemoveAt(a.list, k),
         nr_free |-> a.nr_free - n,
         property |-> a.property \cup (IF b.n > n THEN {b.base + n} ELSE {})]

(* The rest of the block takes its place in the list.                        *)
AfterAlloc(a, n) ==
    LET k == FirstFit(a, n)
        b == a.list[k]
        split == b.n > n
    IN  [list |-> IF split THEN [a.list EXCEPT ![k] = Block(b.base + n, b.n - n)]
                           ELSE RemoveAt(a.list, k),
         nr_free |-> a.nr_free - n,
         property |-> (a.property \cup (IF split THEN {b.base + n} ELSE {})) \ {b.base}]

-----------------------------------------------------------------------------
MergeNextOnly(m, p) ==
    IF m.new.base + m.new.n = p.base
    THEN [m EXCEPT !.new.n = @ + p.n, !.property = @ \ {p.base}]
    ELSE [m EXCEPT !.kept = Append(@, p)]

(* The loop of default_free_pages(): one walk over the list; a block that    *)
(* ends or starts where the freed one starts or ends is unlinked and joined. *)
Merge(m, p) ==
    IF m.new.base + m.new.n = p.base
    THEN [m EXCEPT !.new.n = @ + p.n, !.property = @ \ {p.base}]
    ELSE IF p.base + p.n = m.new.base
    THEN [m EXCEPT !.property = @ \ {m.new.base}, !.new = Block(p.base, p.n + @.n)]
    ELSE [m EXCEPT !.kept = Append(@, p)]

Merged(a, base, n) ==
    FoldLeft(Merge,
             [new |-> Block(base, n), kept |-> <<>>, property |-> a.property \cup {base}],
             a.list)

(* default_list_add(): before the first block at a higher address.           *)
ListAdd(list, b) ==
    LET k == SelectInSeq(list, LAMBDA p : b.base < p.base)
    IN  IF k = 0 THEN Append(list, b) ELSE InsertAt(list, k, b)

(* Its assertions: the blocks up to that one do not overlap the new one.     *)
ListAddAsserts(list, b) ==
    \A k \in DOMAIN list :
        /\ b.base # list[k].base
        /\ b.base > list[k].base => list[k].base + list[k].n <= b.base
        /\ /\ b.base < list[k].base
           /\ \A l \in 1..(k - 1) : list[l].base < b.base
           => b.base + b.n <= list[k].base

FreeAsserts(a, base, n) ==
    LET m == Merged(a, base, n)
    IN  /\ a.property \cap PagesOf(Block(base, n)) = {}
        /\ ListAddAsserts(m.kept, m.new)

AfterFree(a, base, n) ==
    LET m == Merged(a, base, n)
    IN  [list |-> ListAdd(m.kept, m.new), nr_free |-> a.nr_free + n,
         property |-> m.property]
=============================================================================
