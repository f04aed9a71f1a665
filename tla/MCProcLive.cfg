SPECIFICATION FairSpec
CONSTANTS
    UserProc = {u1, u2}
    Idle = Idle
    Init0 = Init0
    MAX_PROCESS = 4
    MAX_TIME_SLICE = 1
    STDIN_BUFSIZE = 1
    MaxSleep = 2
    MaxRead = 0
PROPERTIES
    NoStarvation
    SleepEnds
    OrphansReaped
