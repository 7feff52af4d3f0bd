SPECIFICATION FairSpec
CONSTANTS
    Host = {h1}
    Bundle = {1, 2}
    Boot = {}
    BundleOf <- MCBundleOf
    Stage = {s1}
    Generation = {g1}
    Nonce = {n1}
    Handler = {c1}
    Nothing = Nothing
    MaxOperations = 2
    MaxTime = 1
    MaxStatuses = 1
    AcceptedTimeout = 1
    RunningTimeout = 1
    TokenTtl = 0
    AuthorityTtl = 1
    StableSecret = FALSE
INVARIANTS OneActivePerHost
PROPERTIES ClosedIsFinal EngagedOperationsEnd
CHECK_DEADLOCK FALSE
