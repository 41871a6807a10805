SPECIFICATION FairSpec
CONSTANTS
    Client = client
    Server = server
    Main = main
    Worker = worker
    Servers = {a1}
    NoServer = NoServer
    Messages = {"STOP"}
    MayQuit = TRUE
    FaultKinds = {}
    MaxFaults = 0
INVARIANTS
    ClientSpinFree
    IsOpenTruthful
PROPERTIES
    IdleOpenAnswered
    IdleQuitCompletes
CHECK_DEADLOCK FALSE
