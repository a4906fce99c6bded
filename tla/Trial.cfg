SPECIFICATION FairSpec
CONSTANTS
    Kinds = {"tool_empty", "tool_taps", "tool_bad", "request", "error", "notice"}
    MaxEvents = 2
    MaxTrials = 1
INVARIANTS
    PublishedIsSound
    NothingLeftRunning
PROPERTIES
    ImplementsClient
    TrialEnds
\* The last trial has ended.
CHECK_DEADLOCK FALSE
