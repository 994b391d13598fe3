CONSTANTS
    Member <- MCMember
    Shard <- MCShard
    Legacy = "legacy"
    Config <- MCConfig
    PopKeys <- MCPopKeys
    Target <- MCTarget
    Canonical <- MCCanonical
    Workspace = {u}
    Tag = {p}
    NoPayload = NoPayload
    LeaseTime = 2
    Worker = {w1, w2}
    Interval = {1}
    RenewMargin = 1
    MaxTime = 3
    Delay = 1
SYMMETRY MCSymmetry
SPECIFICATION Spec
INVARIANTS
    TypeOK
    HeadIndexed
    OneShard
    LeaseExclusive
PROPERTIES
    ClaimsEarliest
    LeasesKept
CHECK_DEADLOCK FALSE
