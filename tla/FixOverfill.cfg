SPECIFICATION Spec
CONSTANTS
    Profiles <- FixProfiles
INVARIANTS
    NoOverfill
CHECK_DEADLOCK FALSE
