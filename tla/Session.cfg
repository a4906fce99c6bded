SPECIFICATION FairSpec
CONSTANTS
    FinishTime = 1
    MaxClock = 2
    MaxArrivals = 2
    MaxCommands = 2
    HumanCapacity = 1
INVARIANTS
    ExitMatchesReport
    NoBackwards
PROPERTIES
    VerdictFrozen
    CompletedIsReported
