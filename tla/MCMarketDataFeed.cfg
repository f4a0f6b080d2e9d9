SPECIFICATION Spec
CONSTANTS
    Profiles <- MCProfiles
    BookDepth = 2
    TradeDepth = 2
    SnapshotDepth = 2
    RingCapacity = 6
INVARIANTS
    WireSound
    RecoveryExact
    GapsAreReal
    TradesCountedOnce
    ViewExact
CHECK_DEADLOCK FALSE
