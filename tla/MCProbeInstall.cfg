CONSTANTS
    Kinds <- BothKinds
    SourceLayouts <- WithoutReceipt
    SourceAttempts <- AnyAttempt
    MaxFaults = 3
SPECIFICATION FairSpec
INVARIANTS
    EverythingNoted
    OneGeneration
PROPERTIES
    ReleasedLast
    EndsInstalledOrRefused
CHECK_DEADLOCK FALSE
