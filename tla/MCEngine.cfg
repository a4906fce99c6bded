SPECIFICATION Spec
CONSTANTS
    PerfectWindow = 1
    GoodWindow = 2
    LaneLock = 4
    CalibrationStart = 3
    CalibrationEnd = 8
    RestLength = 3
    ScoredLength = 4
    NumLanes = 2
    MaxEvents = 3
    WordSize = 16
    Charts <- MCCharts
    Times <- MCTimes
    HostReasons <- MCHostReasons
INVARIANTS
    TypeOK
    CursorsSafe
    OneHitPerNote
    LogReplays
PROPERTIES
    FrozenWhenInvalid
    ImplementsJudge
