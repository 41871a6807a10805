SPECIFICATION FairSpec
CONSTANTS
    Callers = {c1}
    Worker = worker
    Servers = {s1}
    NoServer = NoServer
    FaultKinds = {}
    MaxFaults = 0
PROPERTIES
    PlayReachesSendStart
CHECK_DEADLOCK FALSE
