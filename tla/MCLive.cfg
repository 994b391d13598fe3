CONSTANTS
    \* RouteLifecycle
    Workspace = {u1}
    Known = {}
    Worker = {w1}
    Handler = {h1}
    Sealed = TRUE
    Tag = {t1, t2, t3}
    MaxRouteFaults = 1
    MaxRequests = 2
    \* StatisticsStream
    Consumer = {c1, c2}
    Stable = {c1}
    None = None
    MaxId = 1
    Poison = {}
    Doomed = {1}
    ReadBatch = 1
    PageLimit = 1
    ClaimBatch = 1
    AckBatch = 1
    RetireBatch = 1
    MaxLen = 2
    MaxFaults = 2
    MaxSaves = 0
SPECIFICATION LiveSpec
PROPERTIES
    InactiveLeaves
    EntriesLeave
CHECK_DEADLOCK FALSE
