------------------------------ MODULE MCSfsIo ------------------------------
(* SFS over an image with three files: `a' needs its indirect block and    *)
(* has two names, `b' and `c' have a single block.  The blocks of `a' hold *)
(* 7: c's block and a zero; 8: a zero and c's inode; 10: an entry of the   *)
(* root and a word that is no block.                                       *)
EXTENDS SfsIo

Tree ==
  (0 :> <<[name |-> "a", real |-> 1], [name |-> "b", real |-> 2],
          [name |-> "c", real |-> 3], [name |-> "l", real |-> 1]>>)

Contents ==
  (1 :> <<16, 0, 101, 102, 103, 0, 15, 104, 105, 106, 4, 107, 108>>)
  @@ (2 :> <<201, 202, 203, 204, 205>>)
  @@ (3 :> <<301, 302, 303>>)

Names == [name \in {".", "..", "a", "b", "c", "l"} |-> IF name = "a" THEN 13 ELSE BLOCKS]
=============================================================================
