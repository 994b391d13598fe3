CONSTANTS
    Workspace = {u1}
    Known = {u1}
    Worker = {w1}
    Handler = {}
    Sealed = TRUE
    Tag = {t1, t2, t3}
    MaxFaults = 1
    MaxRequests = 0
SPECIFICATION Spec
INVARIANTS
    MarkerMeansQueued
CHECK_DEADLOCK FALSE
