SPECIFICATION Spec
CONSTANTS
    Hosts = {h1, h2}
    Addresses <- MCAddresses
    IPs = {1, 2, 3}
    Values <- MCValues
    Ports = {80, 22}
    Requests <- MCRequests
    interval = 2
    Tick = 2
    MaxLines = 2
    MaxIps = 2
    MaxChunks = 2
    MaxElems = 2
    MaxPolls = 2
INVARIANTS
    TypeOK
    CountsTrue
    TotalsAgree
    UnknownTrue
    WholeAnswer
SYMMETRY Symmetry
CHECK_DEADLOCK FALSE
