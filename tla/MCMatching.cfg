SPECIFICATION Spec
CONSTANTS
    Prices = {100, 101, 102}
    MaxOrderIds = 6
    Accounts = {1, 2}
    Profiles <- MCProfiles
INVARIANTS
    TypeOK
    BooksConsistent
    QuantitiesAddUp
    NoSelfTrade
    FillsPointToResting
PROPERTIES
    PriorityKept
    EndsAsPromised
    CallReturnsAfterCancel
CHECK_DEADLOCK FALSE
