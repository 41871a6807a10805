\* Two devices that send two frames; connections get numbers around the listener's.
SPECIFICATION FairSpec
CONSTANTS
    Peers = {p1, p2}
    NoPeer = NoPeer
    FdSetSize = 4
    WakeFd = 1
    Listener = 3
    Capacity = 3
    MaxFrames = 2
INVARIANTS
    MasterExact
PROPERTIES
    EveryoneServed
CHECK_DEADLOCK FALSE
