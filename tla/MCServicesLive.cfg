CONSTANTS
    \* EmailOutbox
    Mail = {m1}
    Courier = {c1, c2}
    MaxMailAttempts = 2
    MaxSlow = 1
    MaxCourierCrashes = 1
    \* RotatorListeners
    Rotator = {r1, r2}
    Port = {p1, p2}
    OwnPort = {p1}
    NoPort = NoPort
    ApiCall = {a1}
    MaxRowChanges = 3
    MaxStartFailures = 1
    \* BlacklistSync
    Node = {n1, n2}
    Refresher = n1
    Entry = {e1, e2}
    Block = {e2}
    MaxSourceEdits = 1
    MaxFaults = 1
    \* WorkerPool
    Slot = {w1, w2, w3}
    MaxThreads = 2
    FixedThreads = 0
    ItemTime = 2
    Period = 3
    MaxItems = 3
    MaxInstances = 2
    MaxTargetChanges = 2
    MaxPanics = 1
    \* InstanceHeartbeat
    Host = {h1, h2}
    Gone = Gone
    BeatEvery = 1
    BeatTTL = 2
    MaxHostFaults = 1
    \* DashboardCache
    Caller = {d1, d2}
    Routine = d2
    Missing = Missing
    MaxHealthGeneration = 1
    MaxCancels = 2
SPECIFICATION ServicesSpec
PROPERTIES
    MailDelivered
    ListenersFollow
    BlacklistsAgree
    PoolFitsLoad
    InstancesKnown
    DashboardAnswers
CHECK_DEADLOCK FALSE
