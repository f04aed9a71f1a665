\* One process, two pairs on two TLB entries.
CONSTANTS
    Boot = Boot
    p1 = p1  p2 = p2
    PgDir = {p1}
    NPair = 2
    TLBN = 2
    Loaded <- Page
    Instr <- LoadAndStore
SPECIFICATION Spec
INVARIANT TlbPNamesEntry
