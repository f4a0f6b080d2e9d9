SPECIFICATION Spec
CONSTANTS
    Profiles <- KrxProfiles
    BookDepth = 2
    TradeDepth = 2
    SnapshotDepth = 2
    RingCapacity = 6
INVARIANT
    KrxGapsAreReal
CHECK_DEADLOCK FALSE
