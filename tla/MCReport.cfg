SPECIFICATION Spec
CONSTANTS
    Short = 2
    Long = 5
    MaxAttempts = 2
    MaxFaults = 1
    Catalog <- MCCatalog
    Recordings <- MCRecordings
INVARIANTS
    GenuinePasses
    PublishedIsGenuine
    FirstIsSelected
\* Every attempt has been made.
CHECK_DEADLOCK FALSE
