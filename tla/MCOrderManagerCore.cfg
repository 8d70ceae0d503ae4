SPECIFICATION Spec
CONSTANTS
    c1 = c1
    c2 = c2
    c3 = c3
    e1 = e1
    e2 = e2
    m1 = m1
    None = None
    ClientOrderIds = {c1, c2, c3}
    ExchangeOrderIds = {e1, e2}
    Markets = {m1}
    GlobalRisk <- MCGlobalRisk
    PortfolioRisk <- MCPortfolioRisk
    Intents <- MCIntents
    Updates <- MCUpdates
    Snapshots <- MCSnapshots
INVARIANTS
    TypeOK
    ReferencesResolve
    AdmittedWithinLimit
    AdmittedQtyWithinLimit
PROPERTIES
    OrdersOnlyAdvance
CONSTRAINT
    MCQueueBound
