SPECIFICATION Spec
CONSTANTS
    Host = {h1}
    Bundle = {1, 2}
    Boot = {}
    BundleOf <- MCBundleOf
    Stage = {s1}
    Generation = {g1}
    Nonce = {n1, n2}
    Handler = {c1}
    Nothing = Nothing
    MaxOperations = 3
    MaxTime = 1
    MaxStatuses = 1
    AcceptedTimeout = 1
    RunningTimeout = 1
    TokenTtl = 1
    AuthorityTtl = 2
    StableSecret = TRUE
SYMMETRY Symmetry
CONSTRAINT ForwardOnly
INVARIANTS OpenIsLatest RepairBinding
PROPERTIES KeepsLedger
CHECK_DEADLOCK FALSE
