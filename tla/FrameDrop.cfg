SPECIFICATION Spec
CONSTANTS
    MaxFrames = 2
    MaxTaps = 1
    MaxConnections = 1
    MaxMessages = 2
    QueueLength = 2
INVARIANTS
    NoTapSilentlyDropped
