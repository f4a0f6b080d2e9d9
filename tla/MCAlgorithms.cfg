CONSTANTS
    Levels <- MCLevels
    Quantities = {1, 3, 5}
    MinThreshold = 2
    FifoPct = 40
    TopPct = 50
    MmPriorityPct = 40
    Collar = 3
    Cap = 2
    Weights <- MCWeights
    ThrottleConfigs <- MCThrottles
    MaxAccounts = 2
    AccountIds = {0, 1, 2}
    MaxTime = 4
    MaxMessages = 5
    SnapshotSizes <- MCSizes
    FastMessages <- MCFast
    Nullables <- MCNullables
    FixBodies <- MCBodies
    FixBytes <- MCBytes
SPECIFICATION Spec
INVARIANTS
    PromisesKept
    RateKept
    CodecsExact
CHECK_DEADLOCK FALSE
