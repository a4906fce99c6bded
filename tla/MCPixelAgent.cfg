SPECIFICATION Spec
CONSTANTS
    Notes <- MCNotes
    PhaseStart <- MCPhaseStart
    Corrections <- MCCorrections
    Travel = 5
    Window = 3
    LateLimit = 1
    MaxGap = 2
    Error = 1
    MaxTime = 7
INVARIANTS
    OneTrackPerNote
PROPERTIES
    EarliestFirst
\* The agent has ended.
CHECK_DEADLOCK FALSE
