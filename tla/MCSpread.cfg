CONSTANTS
    Profiles <- MCProfiles
    MaxSpreadLevels = 2
SPECIFICATION Spec
INVARIANTS
    CrossedOnlyByModify
PROPERTIES
    ImpliedFillsAllLegs
    ImpliedPriceHonoured
    ImpliedInExhausted
    SpreadCallEnds
