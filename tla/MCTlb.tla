-------------------------------- MODULE MCTlb -------------------------------
(* Small instances of Tlb for TLC.                                          *)
EXTENDS Tlb, TLC

CONSTANTS p1, p2

(* Three pairs, one of them with both pages in use.                          *)
LoadedSome == {0, 1, 2}
TouchSome == {<<0>>, <<1>>, <<2>>, <<4>>}
DirSymmetry == Permutations(PgDir)

(* Two pairs: code in pages 0 and 1, data in pages 2 and 3.                  *)
LoadAndStore == {<<q>> : q \in Page} \cup {<<f, q>> : f \in {0, 1}, q \in {2, 3}}
=============================================================================
