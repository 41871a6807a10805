\* Two sessions with two messages of the client thread in each, and two keys.
SPECIFICATION FairSpec
CONSTANTS
    Client = client
    Main = main
    Nobody = nobody
    DataOf <- MCDataOf
    Capacity = 3
    MaxSent = 2
    MaxKeys = 2
    MaxSessions = 2
PROPERTIES
    ImplementsFrameQueue
    NobodyStuck
CHECK_DEADLOCK FALSE
