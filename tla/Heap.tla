-------------------------------- MODULE Heap --------------------------------
(***************************************************************************)
(* The kernel heap, kern/mm/kmalloc.c, on top of the page allocator, with  *)
(* alloc_pages() and free_pages() of kern/mm/pmm.c.                        *)
(*                                                                         *)
(* Memory is counted in SLOB units, a block header or eight bytes, U of    *)
(* them to a page.  The SLOB free list is circular, sorted by address, and *)
(* goes through the arena, a static block below all pages.  slob[b] holds  *)
(* the two fields of the free block at b.  Allocated objects keep their    *)
(* length in the header before them.                                       *)
(*                                                                         *)
(* A call runs to its end before another starts: no interrupt handler      *)
(* allocates, and the kernel is not preempted.                             *)
(***************************************************************************)
EXTENDS Pages, FiniteSetsExt, TLC

CONSTANTS
    NP,         \* number of pages
    U,          \* SLOB units per page, PAGE_SIZE / SLOB_UNIT
    Sizes,      \* the sizes the kernel asks kmalloc() for, in units
    Counts,     \* the numbers of pages it asks alloc_pages() for
    MaxLive     \* bound on the allocations outstanding at a time

Arena == -2                       \* address of the arena, one unit long
BB == 2                           \* units of a bigblock_t

(* Callers ask for at most two pages, or for four (the buffer of disk0,      *)
(* dev_disk0.c:115); find_order() would round other sizes above two pages    *)
(* down.  Nor do they ask for the sizes between the limits of __kmalloc()    *)
(* and of slob_alloc(), which differ by a header.                            *)
ASSUME HeapAssumption ==
    /\ NP \in Nat \ {0} /\ MaxLive \in Nat
    /\ U \in Nat /\ U > BB + 1
    /\ Sizes \subseteq ((1..(2 * U)) \ {U - 2}) \cup {4 * U}
    /\ Counts \subseteq 1..NP

VARIABLES
    area,       \* the free area of the page allocator
    slob,       \* the free blocks of the SLOB list
    slobfree,   \* where the next search starts
    header,     \* units in the header of each small object, by its address
    bigblocks,  \* the list of large objects
    live,       \* what callers hold: objects and runs of pages
    stopped     \* "" or why the kernel panicked

vars == <<area, slob, slobfree, header, bigblocks, live, stopped>>
heap == [slob |-> slob, free |-> slobfree]

Init ==
    /\ area = InitArea(NP)
    /\ slob = Arena :> [units |-> 1, next |-> Arena]
    /\ slobfree = Arena
    /\ header = <<>>
    /\ bigblocks = <<>>
    /\ live = {}
    /\ stopped = ""

-----------------------------------------------------------------------------
(* The free blocks in the order of a walk that starts after slobfree.        *)
Walk(h) ==
    LET n == Cardinality(DOMAIN h.slob)
        at[k \in 1..n] == h.slob[IF k = 1 THEN h.free ELSE at[k - 1]].next
    IN  at

(* slob_alloc(): next fit.                                                   *)
Fit(h, units) == SelectInSeq(Walk(h), LAMBDA b : h.slob[b].units >= units)
Found(h, units) == Walk(h)[Fit(h, units)]

AfterSlobAllocUnlinked(h, units) ==
    LET cur == Found(h, units)
    IN  [h EXCEPT !.slob = Restrict(@, DOMAIN @ \ {cur})]

(* The block found is unlinked, or its tail stays in the list.               *)
AfterSlobAlloc(h, units) ==
    LET k == Fit(h, units)
        cur == Found(h, units)
        prev == IF k = 1 THEN h.free ELSE Walk(h)[k - 1]
        b == h.slob[cur]
        rest == IF b.units = units THEN b.next ELSE cur + units
        kept == IF b.units = units THEN h.slob
                ELSE h.slob @@ (rest :> [units |-> b.units - units, next |-> b.next])
        linked == [kept EXCEPT ![prev].next = rest]
    IN  [slob |-> Restrict(linked, DOMAIN linked \ {cur}), free |-> prev]

(* The insertion point of slob_free(): the block b follows cur, or cur is    *)
(* where the list wraps around.                                              *)
Follows(h, b, cur) ==
    LET nx == h.slob[cur].next
    IN  (b > cur /\ b < nx) \/ (cur >= nx /\ (b > cur \/ b < nx))

InsertionPoint(h, b) ==
    LET path == <<h.free>> \o Walk(h)
    IN  path[SelectInSeq(path, LAMBDA c : Follows(h, b, c))]

SlobFreeUnmerged(h, b, units) ==
    LET cur == InsertionPoint(h, b)
    IN  [slob |-> [h.slob @@ (b :> [units |-> units, next |-> h.slob[cur].next])
                      EXCEPT ![cur].next = b],
         free |-> cur]

(* slob_free(): join with the next block, then with the one before.          *)
SlobFree(h, b, units) ==
    LET cur == InsertionPoint(h, b)
        c == h.slob[cur]
        up == b + units = c.next
        down == cur + c.units = b
        u2 == IF up THEN units + h.slob[c.next].units ELSE units
        n2 == IF up THEN h.slob[c.next].next ELSE c.next
        rest == Restrict(h.slob, DOMAIN h.slob \ (IF up THEN {c.next} ELSE {}))
    IN  [slob |-> IF down
                  THEN [rest EXCEPT ![cur] = [units |-> c.units + u2, next |-> n2]]
                  ELSE [rest @@ (b :> [units |-> u2, next |-> n2]) EXCEPT ![cur].next = b],
         free |-> cur]

(* slob_alloc() as a whole: when nothing fits, the heap grows by a page.     *)
(* alloc_pages(1) does not return NULL: without a free page it swaps out for *)
(* a null mm and the kernel panics.                                          *)
Grows(h, units) == Fit(h, units) = 0
Grown(h, units) ==
    IF Grows(h, units) THEN SlobFree(h, AllocatedPage(area, 1) * U, U) ELSE h
AreaGrown(units) == IF Grows(heap, units) THEN AfterAlloc(area, 1) ELSE area

SetHeap(h) == slob' = h.slob /\ slobfree' = h.free
Running == stopped = ""
Panic(why) == stopped' = why /\ UNCHANGED <<area, slob, slobfree, header, bigblocks, live>>
Object(at, len) == [kind |-> "object", at |-> at, len |-> len]
Run(page, n) == [kind |-> "pages", at |-> page * U, len |-> n * U]

(* free_pages() of a run that starts at unit at, from the area a.            *)
free_pages(a, at, n) ==
    /\ area' = AfterFree(a, at \div U, n)
    /\ stopped' = IF FreeAsserts(a, at \div U, n) THEN "" ELSE "assert"

-----------------------------------------------------------------------------
(* __kmalloc() of a size below a page: a header and the object.              *)
KmallocSmall(size) ==
    LET units == size + 1
        h == Grown(heap, units)
    IN  /\ Running /\ size < U - 1 /\ Cardinality(live) < MaxLive
        /\ Grows(heap, units) => CanAlloc(area, 1)
        /\ area' = AreaGrown(units)
        /\ SetHeap(AfterSlobAlloc(h, units))
        /\ header' = header @@ (Found(h, units) :> units)
        /\ live' = live \cup {Object(Found(h, units) + 1, size)}
        /\ UNCHANGED <<bigblocks, stopped>>

order[size \in 0..(4 * U)] == IF size <= U THEN 0 ELSE 1 + order[size \div 2]
find_order_late(size) == IF size <= 2 * U THEN 0 ELSE order[size]
find_order(size) == order[size]

(* A larger size: whole pages, remembered in a bigblock_t from the heap.  If *)
(* so many pages in a row are not to be had, the bigblock_t is given back.   *)
KmallocBig(size) ==
    LET h == Grown(heap, BB)
        bb == Found(h, BB)
        h2 == AfterSlobAlloc(h, BB)
        a == AreaGrown(BB)
        n == 2 ^ find_order(size)
    IN  /\ Running /\ size >= U - 1 /\ Cardinality(live) < MaxLive
        /\ Grows(heap, BB) => CanAlloc(area, 1)
        /\ \/ /\ CanAlloc(a, n)
              /\ area' = AfterAlloc(a, n)
              /\ SetHeap(h2)
              /\ bigblocks' = <<[order |-> find_order(size), bb |-> bb,
                                pages |-> AllocatedPage(a, n) * U]>> \o bigblocks
              /\ live' = live \cup {Object(AllocatedPage(a, n) * U, size)}
           \/ /\ ~CanAlloc(a, n) /\ n > 1
              /\ area' = a
              /\ SetHeap(SlobFree(h2, bb, BB))
              /\ UNCHANGED <<bigblocks, live>>
        /\ UNCHANGED <<header, stopped>>

(* The list of large objects is searched for a page-aligned address.         *)
BigIndex(p) ==
    IF p % U = 0 THEN SelectInSeq(bigblocks, LAMBDA b : b.pages = p) ELSE 0

(* kfree() of an object on that list.                                        *)
KfreeBig(o) ==
    LET k == BigIndex(o.at)
    IN  /\ Running /\ o \in live /\ o.kind = "object" /\ k # 0
        /\ bigblocks' = RemoveAt(bigblocks, k)
        /\ free_pages(area, o.at, 2 ^ bigblocks[k].order)
        /\ SetHeap(SlobFree(heap, bigblocks[k].bb, BB))
        /\ live' = live \ {o}
        /\ UNCHANGED header

(* kfree() of any other object: its header says how long it is.              *)
KfreeSmall(o) ==
    /\ Running /\ o \in live /\ o.kind = "object" /\ BigIndex(o.at) = 0
    /\ SetHeap(SlobFree(heap, o.at - 1, header[o.at - 1]))
    /\ header' = Restrict(header, DOMAIN header \ {o.at - 1})
    /\ live' = live \ {o}
    /\ UNCHANGED <<area, bigblocks, stopped>>

(* alloc_pages() for stacks, page tables and user pages, and free_pages().   *)
AllocPages(n) ==
    /\ Running /\ Cardinality(live) < MaxLive
    /\ CanAlloc(area, n)
    /\ area' = AfterAlloc(area, n)
    /\ live' = live \cup {Run(AllocatedPage(area, n), n)}
    /\ UNCHANGED <<slob, slobfree, header, bigblocks, stopped>>

FreePages(r) ==
    /\ Running /\ r \in live /\ r.kind = "pages"
    /\ free_pages(area, r.at, r.len \div U)
    /\ live' = live \ {r}
    /\ UNCHANGED <<slob, slobfree, header, bigblocks>>

(* A single page is asked for, by a caller or by the growing heap, and none  *)
(* is free.                                                                  *)
OutOfMemory ==
    /\ Running /\ ~CanAlloc(area, 1)
    /\ Panic("oom")

Halted == ~Running /\ UNCHANGED vars

Next ==
    \/ \E size \in Sizes : KmallocSmall(size) \/ KmallocBig(size)
    \/ \E l \in live : KfreeBig(l) \/ KfreeSmall(l) \/ FreePages(l)
    \/ \E n \in Counts : AllocPages(n)
    \/ OutOfMemory
    \/ Halted

Spec == Init /\ [][Next]_vars

-----------------------------------------------------------------------------
Memory == 0..(NP * U - 1)
Extent(l) == l.at..(l.at + l.len - 1)
Pieces == DOMAIN slob \ {Arena}
SlobUnits(b) == b..(b + slob[b].units - 1)

TypeOK ==
    /\ area.list \in Seq([base : 0..(NP - 1), n : 1..NP])
    /\ area.nr_free \in 0..NP /\ area.property \subseteq 0..(NP - 1)
    /\ slobfree \in DOMAIN slob
    /\ \A b \in DOMAIN slob : slob[b].next \in DOMAIN slob
    /\ stopped \in {"", "oom", "assert"}

(* The assertions of default_free_pages() and default_list_add(), that a     *)
(* freed page is not free already and that free blocks do not overlap, never *)
(* fail (default_pmm.c:62-79, 132-140).                                      *)
NoAssertFails == stopped # "assert"

(* The free list is sorted and every two neighbours are apart, so that one   *)
(* walk in default_free_pages() has merged all there was to merge; nr_free   *)
(* and the PG_property flags agree with it (default_pmm.c:102-163).          *)
FreeListExact ==
    /\ \A k \in 1..(Len(area.list) - 1) :
          area.list[k].base + area.list[k].n < area.list[k + 1].base
    /\ area.nr_free = FoldSeq(LAMBDA b, sum : b.n + sum, 0, area.list)
    /\ area.property = {area.list[k].base : k \in DOMAIN area.list}

(* One round of the SLOB list meets every free block once, in the order of   *)
(* addresses, and never two that touch: the search of slob_alloc() sees all  *)
(* there is, and slob_free() always finds its place (kmalloc.c:98-185).      *)
SlobListExact ==
    LET sorted == SetToSortSeq(DOMAIN slob, <)
    IN  \A k \in DOMAIN sorted :
            LET b == sorted[k]
                nx == sorted[(k % Len(sorted)) + 1]
            IN  slob[b].next = nx /\ (b < nx => b + slob[b].units < nx)

(* Every unit of memory is accounted for exactly once: in a free page, in a  *)
(* free SLOB block, in a header or a bigblock_t, or in memory that a caller  *)
(* holds, rounded up to whole pages for large objects.  Nothing leaks in the *)
(* allocators and nothing is given out twice.                                *)
MemoryAccounted ==
    LET blocks == UNION {PagesOf(area.list[k]) : k \in DOMAIN area.list}
        kinds == <<{p * U + u : p \in blocks, u \in 0..(U - 1)},
                   UNION {SlobUnits(b) : b \in Pieces},
                   UNION {b..(b + header[b] - 1) : b \in DOMAIN header},
                   UNION {bigblocks[k].bb..(bigblocks[k].bb + BB - 1) :
                             k \in DOMAIN bigblocks},
                   UNION {bigblocks[k].pages..(bigblocks[k].pages
                             + U * 2 ^ bigblocks[k].order - 1) : k \in DOMAIN bigblocks},
                   UNION {Extent(l) : l \in {r \in live : r.kind = "pages"}}>>
    IN  /\ UNION Range(kinds) = Memory
        /\ \A i, j \in DOMAIN kinds : i # j => kinds[i] \cap kinds[j] = {}

(* Both allocators together give each caller memory of its own, of the size  *)
(* asked for.                                                                *)
E == INSTANCE Extents WITH held <- {Extent(l) : l \in live}
ImplementsExtents == E!ExtentsSpec
=============================================================================
