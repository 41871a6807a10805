SPECIFICATION FairSpec
CONSTANTS
    Client = client
    Server = server
    Main = main
    Worker = worker
    Servers = {a1}
    NoServer = NoServer
    Messages = {}
    MayQuit = TRUE
    FaultKinds = {}
    MaxFaults = 0
PROPERTIES
    QuitCompletes
CHECK_DEADLOCK FALSE
