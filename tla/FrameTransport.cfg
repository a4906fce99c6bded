SPECIFICATION FairSpec
CONSTANTS
    MaxFrames = 5
    MaxTaps = 3
    MaxConnections = 2
    MaxMessages = 2
    QueueLength = 2
INVARIANTS
    TypeOK
    Conforms
    TapsInOrder
    NoTapLostWhileConnected
PROPERTIES
    ImplementsMailbox
    ReadAnswered
