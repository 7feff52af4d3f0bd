CONSTANTS
    Last = 2
    TargetCount = 3
    Metadata = 2
    MaxFaults = 4
SPECIFICATION FairSpec
INVARIANTS
    MixIsRecorded
    RepairCanFinish
    FailedBeforeActivationKeepsOld
    BackupsOutliveStart
    CompletedRepairIsActivated
PROPERTIES
    KeepsSwitch
    SwitchCompletes
CHECK_DEADLOCK FALSE
