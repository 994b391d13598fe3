CONSTANTS
    Consumer = {c1, c2}
    Stable = {}
    None = None
    MaxId = 2
    Poison = {2}
    Doomed = {1}
    ReadBatch = 1
    PageLimit = 1
    ClaimBatch = 2
    AckBatch = 2
    RetireBatch = 1
    MaxLen = 1
    MaxFaults = 1
    MaxSaves = 1
SYMMETRY MCSymmetry
SPECIFICATION Spec
INVARIANTS
    CountedOnce
    NothingLost
    FloorBehindWork
    BufferTracked
PROPERTIES
    ImplementsLog
CHECK_DEADLOCK FALSE
