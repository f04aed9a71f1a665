------------------------------- MODULE MCProc -------------------------------
(* Instances of Proc for TLC: the user processes are interchangeable.       *)
EXTENDS Proc, TLC

UserSymmetry == Permutations(UserProc)
=============================================================================
