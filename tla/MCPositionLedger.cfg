SPECIFICATION Spec
CONSTANTS
    c1 = c1
    m1 = m1
    m2 = m2
    None = None
    ClientOrderIds = {c1}
    ExchangeOrderIds = {}
    Markets = {m1, m2}
    LedgerUpdates <- MCLedgerUpdates
    MaxFills = 4
INVARIANTS
    TypeOK
    LotsBalance
    AverageWithinFills
    PnlConserved
    TotalsAgree
\* MaxFills ends the run
CHECK_DEADLOCK FALSE
