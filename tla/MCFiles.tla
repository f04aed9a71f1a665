------------------------------ MODULE MCFiles ------------------------------
(* Two processes over an image with a file `a' and a directory `d' in the  *)
(* root, and a directory `e' in `d'.                                       *)
EXTENDS Files

CONSTANTS p1, p2

Symm == Permutations(Procs)

Tree ==
  (0 :> <<[name |-> "a", real |-> 1], [name |-> "d", real |-> 2]>>)
  @@ (2 :> <<[name |-> "e", real |-> 3]>>)
  @@ (3 :> << >>)

Contents == (1 :> <<100>>)

Names == [name \in {".", "..", "a", "d", "e"} |-> BLOCKS]

Path(base, name) == [base |-> base, name |-> name]

Flags(acc, creat, excl, trunc, append) ==
  [acc |-> acc, creat |-> creat, excl |-> excl, trunc |-> trunc, append |-> append]

Args(path, flags) == [path |-> path, flags |-> flags]

OpenArgs ==
  {Args(Path("stdin", ""), Flags("R", FALSE, FALSE, FALSE, FALSE)),
   Args(Path("/", "a"), Flags("R", FALSE, FALSE, FALSE, FALSE)),
   Args(Path("cwd", "a"), Flags("W", TRUE, FALSE, FALSE, TRUE)),
   Args(Path("disk0", "a"), Flags("W", TRUE, TRUE, FALSE, FALSE)),
   Args(Path("cwd", ""), Flags("R", FALSE, FALSE, FALSE, FALSE))}

DirPaths == {Path("cwd", "d"), Path("cwd", "e"), Path("cwd", ".."), Path(":", "a")}

ProgramPaths == {Path(":", "a"), Path("cwd", "..")}
=============================================================================
