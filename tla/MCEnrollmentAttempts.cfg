CONSTANTS
    Version = {v1, v2}
    Attempt = {a1, a2}
    Handler = {c1, c2}
    Nothing = Nothing
    MaxEnrollments = 2
    MaxTime = 1
    EnrollmentTtl = 1
    VerificationTtl = 1
    OfflineAfter = 1
SPECIFICATION Spec
SYMMETRY Symmetry
CONSTRAINT OneHost
INVARIANTS OneIdentityPerEnrollment
PROPERTIES ReadyIsProven KeepsContract
CHECK_DEADLOCK FALSE
