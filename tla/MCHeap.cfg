\* Five pages of six units; objects of one and three units, of two pages and
\* of four.
CONSTANTS
    NP = 5
    U = 6
    Sizes = {1, 3, 12, 24}
    Counts = {1, 2}
    MaxLive = 4
SPECIFICATION Spec
INVARIANTS TypeOK NoAssertFails FreeListExact SlobListExact MemoryAccounted
PROPERTY ImplementsExtents
