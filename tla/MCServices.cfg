CONSTANTS
    m1 = m1
    m2 = m2
    c0 = c0
    c1 = c1
    c2 = c2
    \* BrowserPool
    Page = {m1, m2, g3}
    PageSlots = 2
    MaxBrowsers = 3
    MaxFetches = 4
    \* LeaderLock
    Instance = {i1, i2}
    OneShot = {i2}
    LockTTL = 3
    RenewEvery = 1
    LockHorizon = 7
    MaxSessions = 3
    MaxLostReplies = 2
    \* Alerts
    Evaluator = {m1, m2}
    Sender = {m1, m2}
    Never = Never
    Sustain = 1
    MaxGap = 1
    StaleAfter = 0
    MaxDeliveryAttempts = 1
    HistoryKept = 0
    AlertHorizon = 3
    MaxEdits = 1
    MaxClaimTokens = 3
    \* RotatorTunnels, RotatorCursor
    Client = {m1, m2}
    TunnelLimit = 2
    SocksSlots = 1
    Routes = 3
    MaxSettings = 2
    \* ConfigSync
    Server = {m1, m2}
    Config = {c0, c1, c2}
    Default = c0
    IntervalOf <- MCIntervals
    NoConfig = NoConfig
    MaxConfigFaults = 1
    \* StatisticsAdmission
    Checker = {m1, m2}
    Writer = {w1}
    Result = {m1, m2, r3}
    NoResult = NoResult
    Policies = {"block", "drop_new", "evict_oldest"}
    StreamCap = 1
    QueueCap = 1
    MaxErrors = 1
    \* GeoLiteSync
    GeoServer = {m1, m2}
    GeoPlugins <- MCPlugins
    MaxGeoEvents = 2
    \* TrafficUsage
    Conn = {m1, m2}
    Meter = {x1, x2}
    Unmetered = Unmetered
    MaxMonth = 2
    MaxAdds = 2
    MaxFlushErrors = 1
    \* BlacklistRanges
    AddressBits = 2
    MaxListed = 4
    \* DailyCounts
    LastDay = 4
    KeepCounters = 1
    KeepRows = 1
    MaxDayChecks = 2
    Legacy = 1
    \* ScrapeQueue
    Fetcher = {m1, m2}
    Subscriber = {w1}
    Absent = Absent
    ScrapeLease = 1
    ScrapeInterval = 1
    BrowserRetryDelay = 1
    RetryAfters = {2}
    ScrapeHorizon = 3
    MaxScrapeEvents = 4
SYMMETRY MCSymmetry
SPECIFICATION ServicesSpec
INVARIANTS
    NoLeakedBrowser
    SoleActiveLeader
    IncidentsInOrder
    NoSocketOutlivesOwner
    NoRouteServedTwiceFirst
    ConfigurationSpreads
    AdmissionBounded
    InformedReadersCurrent
    TrafficMetered
    LookupExact
    ChecksCountedOnce
PROPERTIES
    RetriesAndProgress
CHECK_DEADLOCK FALSE
