CONSTANTS
    NHOSTS = 2
    WIRE = 2
    MaxBuf = 2
    MaxSockFail = 1
    ThreadMayFail = TRUE
    ClockMayFail = TRUE
    UrgentData = TRUE
SPECIFICATION Spec
INVARIANTS
    TypeOK
    Accounted
    SelectsOnConnections
    NoSocketRace
    RecvNeverWaits
    RecordsAttributed
    IInv
PROPERTY
    ImplementsLinks
