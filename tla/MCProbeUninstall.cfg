CONSTANTS
    Last = 2
    UpgradeAttempted = FALSE
    MaxFaults = 3
SPECIFICATION FairSpec
INVARIANTS
    AlwaysResumable
    HubToldTruth
PROPERTIES
    OneAuthority
    Completes
CHECK_DEADLOCK FALSE
