SPECIFICATION FairSpec
CONSTANTS
    a = a
    b = b
    Values = {a, b}
    NoValue = NoValue
    requested = 4
INVARIANTS
    NoSlotRace
PROPERTIES
    FifoSpec
    OldestIsRead
