CONSTANTS
    NHOSTS = 2
    WIRE = 1
    MaxBuf = 1
    MaxSockFail = 0
    ThreadMayFail = FALSE
    ClockMayFail = TRUE
    UrgentData = FALSE
SPECIFICATION FairSpec
PROPERTIES
    LossNoticed
    Retried
