\* Counters wrap every 8 operations, so full, empty and wrapped rings all occur.
SPECIFICATION Spec
CONSTANTS
    Items = {i1, i2}
    NoItem = none
    Capacity = 2
    Width = 8
INVARIANTS
    RingInv
    NoSharedSlot
PROPERTIES
    ImplementsFifo
