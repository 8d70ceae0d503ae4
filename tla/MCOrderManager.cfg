SPECIFICATION FairSpec
CONSTANTS
    c1 = c1
    c2 = c2
    c3 = c3
    m1 = m1
    paper = paper
    s1 = s1
    s2 = s2
    None = None
    ClientOrderIds = {c1, c2, c3}
    ExchangeOrderIds = {1, 2}
    Markets = {m1, paper}
    PaperTicker = paper
    auto_fill_on_place = TRUE
    LiveModes = {TRUE, FALSE}
    fills_in_parts = TRUE
    GlobalRisk <- MCGlobalRisk
    PortfolioRisk <- MCPortfolioRisk
    Submitters = {s1, s2}
    IntentsOf <- MCIntentsOf
    Updates <- MCUpdates
    Snapshots <- MCSnapshots
    MaxSubmits = 2
    MaxStarts <- MCMaxStarts
INVARIANTS
    LedgerMatchesExchange
PROPERTIES
    CoreSpec
    OrdersSettle
    LedgerCatchesUp
    IntentsWaitForExchangeOnly
    StopReturns
CHECK_DEADLOCK FALSE
