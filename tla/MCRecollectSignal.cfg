\* The lost wakeup needs neither data nor failing system calls.
CONSTANTS
    NHOSTS = 2
    WIRE = 1
    MaxBuf = 0
    MaxSockFail = 0
    ThreadMayFail = FALSE
    ClockMayFail = FALSE
    UrgentData = FALSE
SPECIFICATION FairSpec
PROPERTY
    AgentsConnected
