SPECIFICATION FairSpec
CONSTANTS
    NFD = 4
    NCONN = 2
    SNDBUF = 1
    BACKLOG = 2
    Packets <- MCPackets
    MaxPkts = 2
    MaxTicks = 0
    Stalls = {}
    LogMayFail = FALSE
    MayEnd = FALSE
PROPERTIES Joined Delivered
CHECK_DEADLOCK FALSE
