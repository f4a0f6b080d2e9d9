SPECIFICATION MirrorSpec
CONSTANTS
    Prices = {92, 100, 108, 115, 120}
    MaxOrderIds = 8
    Accounts = {1, 2}
    Profiles <- MCProfiles
INVARIANTS
    QuantitiesAddUp
    PositionsMatchTrades
    BookInOrder
    ShownIsExact
PROPERTIES
    TradesWithinLimits
CHECK_DEADLOCK FALSE
