------------------------------- MODULE Extents ------------------------------
(***************************************************************************)
(* What the memory allocators of the kernel promise their callers: memory  *)
(* that is handed out is inside the physical memory and belongs to nobody  *)
(* else until it is given back.  Where it lies is not specified.           *)
(***************************************************************************)
EXTENDS Integers

CONSTANT Memory                   \* the units of physical memory

VARIABLE held                     \* the sets of units handed out

ExtentsInit == held = {}

HandOut(e) ==
    /\ e \notin held
    /\ e \subseteq Memory /\ e # {}
    /\ \A h \in held : e \cap h = {}
    /\ held' = held \cup {e}

GiveBack(e) == e \in held /\ held' = held \ {e}

ExtentsNext ==
    \/ \E e \in held' : HandOut(e)
    \/ \E e \in held : GiveBack(e)

ExtentsSpec == ExtentsInit /\ [][ExtentsNext]_held
=============================================================================
