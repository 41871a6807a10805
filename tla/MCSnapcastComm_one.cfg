SPECIFICATION FairSpec
CONSTANTS
    Callers = {c1}
    Worker = worker
    Servers = {s1}
    NoServer = NoServer
    FaultKinds = {"crash", "garbage", "select"}
    MaxFaults = 2
INVARIANTS
    ReceiptMatches
    Handshake
    PlaybackAgrees
PROPERTIES
    CloseTerminates
    ImplementsSyncLink
    StopCompletes
    FreshOpenCompletes
CHECK_DEADLOCK FALSE
