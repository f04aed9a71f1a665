SPECIFICATION Spec
CONSTANTS
    W = 4
    I = 2
    Procs <- MCProcs
    Programs <- MCPrograms
    Results <- MCResults
    ReadOnly <- MCReadOnly
INVARIANTS
    UserContextKept
    KernelContextKept
