SPECIFICATION FairSpec
CONSTANTS
    Profiles <- MCProfiles
INVARIANTS
    TypeOK
    ClientsAgree
PROPERTIES
    CancelsHitOwn
    NewOrdersAnswered
CHECK_DEADLOCK FALSE
