SPECIFICATION Spec
CONSTANTS
    Words <- MCWords
    Argvs <- MCArgvs
    atoi <- MCAtoi
    Exprs <- MCExprs
    Cut <- MCCut
    Devices = {"eth0", "eth1"}
    WAIT = 2
    S_TOT = 3
    S_IDLE = 2
    NCPU = 2
    Growth = {1, 70000}
    Garbage = {5}
    Meminfos <- MCMeminfos
    MaxRounds = 2
INVARIANTS Outcome ReportsTrue
PROPERTIES Settles
CHECK_DEADLOCK FALSE
