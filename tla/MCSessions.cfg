SPECIFICATION Spec
CONSTANTS
    Profiles <- MCProfiles
INVARIANTS
    EngineFollowsPool
    ContinuousUncrossed
    DayOrdersExpire
CHECK_DEADLOCK FALSE
