CONSTANTS
    IntBits = 4
    Documents <- MCDocuments
SPECIFICATION Spec
INVARIANTS
    NumbersAreAsWritten
CHECK_DEADLOCK FALSE
