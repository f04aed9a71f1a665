------------------------------- MODULE MCHeap -------------------------------
(* A small memory for TLC.                                                  *)
EXTENDS Heap
=============================================================================
