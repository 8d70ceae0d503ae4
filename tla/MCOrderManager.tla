--------------------------- MODULE MCOrderManager ---------------------------
(* Small instance of OrderManager: one traded market, three client ids.      *)
EXTENDS OrderManager

CONSTANTS c1, c2, c3, m1, paper, s1, s2

MCIntent(action, id, target, market, side, qty, price) ==
    [action                   |-> action,
     client_order_id          |-> id,
     target_client_order_id   |-> target,
     target_exchange_order_id |-> None,
     market_ticker            |-> market,
     side                     |-> side,
     qty_lots                 |-> qty,
     limit_price_ticks        |-> price]

\* Two orders of which the limits admit either, one that the adapter cannot
\* build a request for, a replacement and a cancellation.  A strategy cancels
\* and replaces its own orders.
MCIntentsOf ==
    [s \in Submitters |->
        IF s = s1
        THEN {MCIntent("kPlace", c1, None, m1, "kBuy", 2, 1),
              MCIntent("kReplace", c3, c1, None, "kBuy", 1, 1),
              MCIntent("kCancel", c1, None, None, "kUnknown", 0, None)}
        ELSE {MCIntent("kPlace", c2, None, m1, "kBuy", 1, 2),
              MCIntent("kPlace", c3, None, m1, "kSell", 1, None)}]

\* Only the paper transport is started twice.
MCMaxStarts == [live \in BOOLEAN |-> IF live THEN 1 ELSE 2]

MCGlobalRisk ==
    [max_active_orders_global       |-> 2,
     max_active_orders_per_market   |-> 1,
     max_outstanding_qty_global     |-> 0,
     max_outstanding_qty_per_market |-> 0]

MCPortfolioRisk ==
    [max_abs_net_position_per_market |-> 2,
     max_abs_position_gross_global   |-> 0,
     min_realized_pnl_ticks          |-> 0,
     enforce_realized_pnl_floor      |-> FALSE]

\* The messages the exchanges can send here, and what the adapter makes of them.
MCMessages ==
    UNION {[type              : {"order_ack", "order_reject", "fill"},
            client_order_id   : {intent.client_order_id},
            exchange_order_id : (1..MaxSubmits) \cup {None},
            market_ticker     : Markets,
            qty               : 0..intent.qty_lots,
            price             : {intent.limit_price_ticks},
            side              : {SideName[intent.side], None}] : intent \in Intents}

MCUpdates ==
    {parse_update(message) : message \in {m \in MCMessages : MessageIsComplete(m)}}

MaxPosition == MaxSubmits * Max({abs_qty(intent.qty_lots) : intent \in Intents} \cup {0})

MaxPnl ==
    MaxPosition * Max(({intent.limit_price_ticks : intent \in Intents} \cup {0}) \ {None})

MCSnapshots ==
    [net_position_market      : -MaxPosition..MaxPosition,
     gross_position_global    : 0..MaxPosition,
     realized_pnl_ticks_total : -MaxPnl..MaxPnl]
=============================================================================
