SPECIFICATION FairSpec
CONSTANTS
    LateTicks = 1
    Delays = {0}
    MaxBatch = 1
    MaxPending = 1
    MaxTotalActions = 1
    MaxObservations = 1
    MaxClock = 1
    MaxFrames = 1
PROPERTIES
    NeverTypesElsewhere
CHECK_DEADLOCK FALSE
