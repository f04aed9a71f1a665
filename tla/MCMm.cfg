SPECIFICATION Spec
CONSTANTS
    p1 = p1
    p2 = p2
    Procs <- MCProcs
    NF = 16
    KSTACKPAGE = 2
    NV = 4
    PTN = 2
    Programs <- MCPrograms
    USTACK = 2
    STACKPAGES = 1
    Args <- MCArgs
    Buffers <- MCBuffers
    MaxMms = 3
    Values <- MCValues
SYMMETRY Symmetry
INVARIANTS
    TypeOK
    FramesAccounted
    OwnMemory
    NoKernelFault
    SelfTestHolds
