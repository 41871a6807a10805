SPECIFICATION Spec
CONSTANTS
    Client = client
    Server = server
    Main = main
    Worker = worker
    Servers = {a1}
    NoServer = NoServer
    Messages = {"PLAY", "STOP"}
    MayQuit = FALSE
    FaultKinds = {}
    MaxFaults = 0
INVARIANTS
    SnapcastStopped
CHECK_DEADLOCK FALSE
