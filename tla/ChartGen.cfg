SPECIFICATION ChartSpec
CONSTANTS
    PerfectWindow = 1
    GoodWindow = 1
    LaneLock = 4
    CalibrationStart = 1
    CalibrationEnd = 5
    RestLength = 1
    ScoredLength = 8
    NumLanes = 3
    MaxWait = 8
    Words = 8
INVARIANTS
    ChartAccepted
    Unbiased
