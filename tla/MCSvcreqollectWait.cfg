SPECIFICATION FairSpec
CONSTANTS
    Hosts = {h1}
    Addresses <- MCAddresses
    IPs = {1, 2, 3}
    Values = {80}
    Ports = {80}
    Requests <- MCRequests
    interval = 2
    Tick = 2
    MaxLines = 1
    MaxIps = 1
    MaxChunks = 1
    MaxElems = 1
    MaxPolls = 2
PROPERTIES
    PollsAgain
CHECK_DEADLOCK FALSE
