SPECIFICATION Spec
CONSTANTS
    Host = {h1}
    Bundle = {1, 2}
    Boot = {1, 2}
    BundleOf <- MCBundleOf
    Stage = {s1, s2}
    Generation = {g1}
    Nonce = {n1}
    Handler = {c1, c2}
    Nothing = Nothing
    MaxOperations = 1
    MaxTime = 1
    MaxStatuses = 1
    AcceptedTimeout = 1
    RunningTimeout = 1
    TokenTtl = 1
    AuthorityTtl = 1
    StableSecret = FALSE
SYMMETRY Symmetry
CONSTRAINT ForwardOnly
INVARIANTS AuthorityRecorded
PROPERTIES SuccessIsWitnessed
CHECK_DEADLOCK FALSE
