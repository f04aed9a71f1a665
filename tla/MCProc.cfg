SPECIFICATION Spec
CONSTANTS
    UserProc = {u1, u2, u3}
    Idle = Idle
    Init0 = Init0
    MAX_PROCESS = 5
    MAX_TIME_SLICE = 1
    STDIN_BUFSIZE = 1
    MaxSleep = 2
    MaxRead = 1
SYMMETRY UserSymmetry
INVARIANTS
    TypeOK
    NoAssertFails
    RunQueueExact
    SleepersCanBeWoken
    NoDanglingStackNode
    NoLostChildWakeup
    FamilyTreeSound
PROPERTIES
    ZombieOnlyReaped
    TimersKeepTime
