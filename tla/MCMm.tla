-------------------------------- MODULE MCMm --------------------------------
(* Mm for TLC: a program of one data page with a hole above it, one of a text
   and a data page, and one whose segments share a page, which load_icode
   cannot map. *)
EXTENDS Mm, TLC

CONSTANTS p1, p2

MCProcs == {p1, p2}

Segment(start, end, w) == [start |-> start, end |-> end, w |-> w]

MCPrograms ==
    {<<Segment(0, 1, TRUE)>>,
     <<Segment(0, 1, FALSE), Segment(1, 2, TRUE)>>,
     <<Segment(0, 2, FALSE), Segment(1, 2, TRUE)>>}

MCArgs == {0, 2}

(* one page, two vmas or a vma and a hole, the whole stack, its top *)
MCBuffers == {<<1, 2>>, <<0, 2>>, <<2, 4>>, <<3, 4>>}

MCValues == {0, 1}

Symmetry == Permutations(MCProcs)
=============================================================================
