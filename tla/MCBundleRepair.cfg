SPECIFICATION Spec
CONSTANTS
    TargetCount = 2
    MaxGeneration = 2
    MaxFaults = 2
INVARIANTS
    RepairIsWhole
    RuntimeRunsWhole
    RestoreResumable
PROPERTIES
    LaterFailureKept
    RepairCompletes
CHECK_DEADLOCK FALSE
