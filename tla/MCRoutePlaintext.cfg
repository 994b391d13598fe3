CONSTANTS
    Workspace = {u1}
    Known = {u1}
    Worker = {w1}
    Handler = {h1}
    Sealed = FALSE
    Tag = {t1, t2, t3}
    MaxFaults = 0
    MaxRequests = 1
SPECIFICATION Spec
PROPERTIES
    ImportsSurviveRemoval
CHECK_DEADLOCK FALSE
