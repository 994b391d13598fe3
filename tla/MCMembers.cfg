CONSTANTS
    n1 = n1
    n2 = n2
    n3 = n3
    m1 = m1
    m2 = m2
    \* Workspaces
    User = {n1, n2, n3}
    Job = {m1, m2}
    NoUser = NoUser
    \* Accounts
    Request = {r0, n1, n2, n3}
    Account = {a1, a2}
    Founder = r0
    NoOne = NoOne
    \* RateLimiter
    Key = {n1, n2, n3}
    WindowLimit = 1
    Window = 2
    MaxLocalEntries = 2
    LimiterBackoff = 1
    LimiterHorizon = 3
SYMMETRY MCSymmetry
SPECIFICATION MembersSpec
PROPERTIES
    LastOwnerNeedsOverlap
    PasswordChangesExact
    BlockedUntilExpiry
CHECK_DEADLOCK FALSE
