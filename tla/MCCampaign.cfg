SPECIFICATION CampaignSpec
CONSTANTS
    Kinds = {"tool_empty"}
    MaxEvents = 3
    Requested <- MCRequested
    Efforts <- MCEfforts
    Repetitions = 1
    Catalogs <- MCCatalogs
INVARIANTS
    ThreadsApart
    IndexListsEveryRun
PROPERTIES
    CampaignEnds
\* The campaign has ended.
CHECK_DEADLOCK FALSE
