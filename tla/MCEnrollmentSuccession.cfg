CONSTANTS
    Version = {v1}
    Attempt = {a1}
    Handler = {c1}
    Nothing = Nothing
    MaxEnrollments = 3
    MaxTime = 2
    EnrollmentTtl = 1
    VerificationTtl = 1
    OfflineAfter = 1
SPECIFICATION FairSpec
CONSTRAINT OneHost
INVARIANTS TypeOK LifecycleTokenIsInstalled
PROPERTIES WatchedEnrollmentEnds
CHECK_DEADLOCK FALSE
