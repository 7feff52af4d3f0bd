CONSTANTS
    Kinds = {"replacement"}
    SourceLayouts <- WithReceipt
    SourceAttempts <- WithoutAttempt
    MaxFaults = 0
SPECIFICATION FairSpec
PROPERTY ReinstallCompletes
CHECK_DEADLOCK FALSE
