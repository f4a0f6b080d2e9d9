SPECIFICATION AuctionSpec
CONSTANTS
    Prices = {100, 101, 102}
    MaxOrderIds = 6
    Accounts = {1, 2}
    References = {0, 101}
    Profiles <- MCProfiles
INVARIANTS
    AuctionClears
PROPERTIES
    AuctionExecutes
CHECK_DEADLOCK FALSE
