-------------------------- MODULE MCStrategyRunner --------------------------
(* Two shards with a market each, for TLC.                                 *)
EXTENDS StrategyRunner, Functions

CONSTANTS c1, c2, c3, m1, m2, paper, s1, s2

MCIntent(action, id, target, market, side, qty, price) ==
    [action                   |-> action,
     client_order_id          |-> id,
     target_client_order_id   |-> target,
     target_exchange_order_id |-> None,
     market_ticker            |-> market,
     side                     |-> side,
     qty_lots                 |-> qty,
     limit_price_ticks        |-> price]

\* The first strategy places an order and replaces or cancels it, at once or
\* later; the second places one that is too large and one that is not, one in
\* the market of the first, and one that the adapter cannot build a request for.
MCDecisionsOf ==
    LET place   == MCIntent("kPlace", c1, None, m1, "kBuy", 2, 1)
        replace == MCIntent("kReplace", c3, c1, None, "kBuy", 1, 1)
        cancel  == MCIntent("kCancel", c1, None, None, "kUnknown", 0, None)
    IN  [s \in Submitters |->
            IF s = s1
            THEN {<<place, replace>>, <<replace>>, <<place, cancel>>}
            ELSE {<<MCIntent("kPlace", c2, None, None, "kSell", 4, 2)>>,
                  <<MCIntent("kPlace", c2, None, None, "kSell", 1, 2)>>,
                  <<MCIntent("kPlace", c2, None, m1, "kBuy", 1, 2)>>,
                  <<MCIntent("kPlace", c3, None, m1, "kSell", 1, None)>>}]

MCMarketsOf == [s \in Submitters |-> IF s = s1 THEN {m1} ELSE {m2, paper}]

\* what the decisions become
MCIntentsOf ==
    [s \in Submitters |->
        {WithDefaults(intent, m) :
            intent \in UNION {Range(d) : d \in DecisionsOf[s]}, m \in MarketsOf[s]}]

MCMaxStarts == [live \in BOOLEAN |-> 1]

MCGlobalRisk ==
    [max_active_orders_global       |-> 3,
     max_active_orders_per_market   |-> 1,
     max_outstanding_qty_global     |-> 0,
     max_outstanding_qty_per_market |-> 0]

MCPortfolioRisk ==
    [max_abs_net_position_per_market |-> 2,
     max_abs_position_gross_global   |-> 0,
     min_realized_pnl_ticks          |-> 0,
     enforce_realized_pnl_floor      |-> FALSE]

MCShardRisk ==
    [max_open_orders_per_market      |-> 1,
     max_working_qty_per_market      |-> 0,
     max_abs_net_position_per_market |-> 3]
=============================================================================
