SPECIFICATION Spec
CONSTANTS
    Client = client
    Server = server
    Main = main
    Worker = worker
    Servers = {a1, a2}
    NoServer = NoServer
    Messages = {"PLAY", "STOP"}
    MayQuit = FALSE
    FaultKinds = {"crash"}
    MaxFaults = 1
SYMMETRY AddressSymmetry
INVARIANTS
    TypeOK
    PlaysFromSession
    ReplyTruthful
PROPERTIES
    ImplementsSnapcastComm
CHECK_DEADLOCK FALSE
