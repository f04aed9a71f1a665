\* Two processes and the boot-time checks; three pairs on two TLB entries.
CONSTANTS
    Boot = Boot
    p1 = p1  p2 = p2
    PgDir = {p1, p2}
    NPair = 3
    TLBN = 2
    Loaded <- LoadedSome
    Instr <- TouchSome
SYMMETRY DirSymmetry
SPECIFICATION Spec
INVARIANTS TypeOK TlbCoherent TlbPExactInChecks
