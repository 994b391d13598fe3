CONSTANTS
    Workspace = {u1}
    Known = {u1}
    Worker = {w1}
    Handler = {h1}
    Sealed = TRUE
    Tag = {t1, t2, t3}
    MaxFaults = 0
    MaxRequests = 1
SPECIFICATION Spec
PROPERTIES
    KeepsPublishedWorkspaces
CHECK_DEADLOCK FALSE
