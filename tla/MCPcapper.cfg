SPECIFICATION Spec
CONSTANTS
    NFD = 3
    NCONN = 2
    SNDBUF = 1
    BACKLOG = 1
    Packets <- MCPackets
    MaxPkts = 1
    MaxTicks = 1
    Stalls = {}
    LogMayFail = TRUE
    MayEnd = TRUE
INVARIANTS TypeOK SetIsOpen NoLeak OneOrder LogAgrees
PROPERTY ImplementsFeed
CHECK_DEADLOCK FALSE
