\* Two addresses, seven packets, the quit at any moment.
SPECIFICATION FairSpec
CONSTANTS
    Packets <- MCPackets
    Interfaces <- MCInterfaces
INVARIANTS
    TypeOK
    AnswersRight
    AdditionalComplete
    PacketReadable
    GoodbyeComplete
    FreedOnce
PROPERTIES
    Announced
    QuitEnds
CHECK_DEADLOCK FALSE
