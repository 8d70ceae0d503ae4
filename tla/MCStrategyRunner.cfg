SPECIFICATION StrategySpec
CONSTANTS
    c1 = c1
    c2 = c2
    c3 = c3
    m1 = m1
    m2 = m2
    paper = paper
    s1 = s1
    s2 = s2
    None = None
    ClientOrderIds = {c1, c2, c3}
    ExchangeOrderIds = {1, 2, 3, 4}
    Markets = {m1, m2, paper}
    PaperTicker = paper
    auto_fill_on_place = TRUE
    LiveModes = {FALSE}
    fills_in_parts = FALSE
    GlobalRisk <- MCGlobalRisk
    PortfolioRisk <- MCPortfolioRisk
    ShardRisk <- MCShardRisk
    allowed_markets = {m1, m2}
    Submitters = {s1, s2}
    MarketsOf <- MCMarketsOf
    DecisionsOf <- MCDecisionsOf
    IntentsOf <- MCIntentsOf
    Updates = {}
    Snapshots = {}
    MaxSubmits = 6
    MaxEvents = 3
    MaxStarts <- MCMaxStarts
INVARIANTS
    PlacedAtMostOnce
    PositionWithinLimit
    MarketLimitHolds
    CancelFollowsPlace
CHECK_DEADLOCK FALSE
