SPECIFICATION FairSpec
CONSTANTS
    LateTicks = 1
    Delays = {0, 2}
    MaxBatch = 2
    MaxPending = 2
    MaxTotalActions = 2
    MaxObservations = 2
    MaxClock = 3
    MaxFrames = 2
INVARIANTS
    TypeOK
    Accounted
    EvidenceMatchesKeys
    Punctual
    ObservationsFresh
PROPERTIES
    PressesInOrder
    ClosedIsFinal
    EveryActionResolved
CHECK_DEADLOCK FALSE
