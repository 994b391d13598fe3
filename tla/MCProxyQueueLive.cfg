CONSTANTS
    Member <- MCMember
    Shard <- MCShard
    Legacy = "legacy"
    Config <- MCConfig
    PopKeys <- MCPopKeys
    Target <- MCTarget
    Canonical <- MCCanonical
    Workspace = {u}
    Tag = {p}
    NoPayload = NoPayload
    LeaseTime = 1
    Worker = {w1, w2}
    Interval = {1}
    RenewMargin = 0
    MaxTime = 3
    Delay = 0
SPECIFICATION FairSpec
PROPERTIES
    OverdueIsClaimed
CHECK_DEADLOCK FALSE
