CONSTANTS
    IntBits = 6
    MantissaBits = 3
    CastOutOfRange <- MinInt
    Messages <- MCMessages
    nullopt = nullopt
SPECIFICATION ParserSpec
INVARIANTS
    SequencesAgree
    QtyIsWrittenCount
CHECK_DEADLOCK FALSE
