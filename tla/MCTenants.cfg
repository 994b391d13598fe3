CONSTANTS
    n1 = n1
    n2 = n2
    n3 = n3
    m1 = m1
    m2 = m2
    \* RouteLifecycle
    Workspace = {m1, m2}
    Known = {}
    Worker = {w1}
    Handler = {h1}
    Sealed = TRUE
    Tag = {n1, n2, n3}
    MaxFaults = 1
    MaxRequests = 2
    \* RouteCapacity
    Route = {m1, m2}
    Txn = {m1, m2}
    NoTxn = NoTxn
    ActivationLimit = 1
    FailureThreshold = 2
    Saturation = 2
    FailureActions = {"pause", "delete"}
    \* CheckerPlans
    Instances = {m1, m2}
    Proxies = {p1, p2}
    Settings = {sa, sb}
    Headers = {h1, h2}
    Nothing = Nothing
    MaxRevision = 2
    MaxGeneration = 2
    MaxLoading = 1
SYMMETRY MCSymmetry
SPECIFICATION TenantsSpec
INVARIANTS
    ProjectionExact
PROPERTIES
    KeepsNewWorkspaces
    RemovalSparesImports
    EndedLeavesPayload
    ActivationsWithinLimit
CHECK_DEADLOCK FALSE
