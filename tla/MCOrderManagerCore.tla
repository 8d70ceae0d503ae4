------------------------- MODULE MCOrderManagerCore -------------------------
(* Small instance of OrderManagerCore: three client ids, two exchange ids.   *)
EXTENDS OrderManagerCore

CONSTANTS c1, c2, c3, e1, e2, m1

MCIntent(action, id, target, exchangeTarget, market, qty) ==
    [action                   |-> action,
     client_order_id          |-> id,
     target_client_order_id   |-> target,
     target_exchange_order_id |-> exchangeTarget,
     market_ticker            |-> market,
     side                     |-> "kBuy",
     qty_lots                 |-> qty,
     limit_price_ticks        |-> 50]

\* Two placements and one without an id, a replacement that inherits market and quantity, one that
\* names its target by exchange id, and both ways to cancel.
MCIntents ==
    {MCIntent("kPlace", c1, None, None, m1, 2),
     MCIntent("kPlace", c2, None, None, m1, 1),
     MCIntent("kPlace", None, None, None, m1, 1),
     MCIntent("kReplace", c3, c1, None, None, 0),
     MCIntent("kReplace", c2, None, e1, m1, 2),
     MCIntent("kCancel", c1, None, None, None, 0),
     MCIntent("kCancel", c3, c2, e2, None, 0)}

MCUpdate(status, id, exchangeId, data, qty) ==
    [status            |-> status,
     client_order_id   |-> id,
     exchange_order_id |-> exchangeId,
     market_ticker     |-> m1,
     data              |-> data,
     fill_qty_lots     |-> qty,
     fill_price_ticks  |-> 50,
     side              |-> "kUnknown"]

\* Every status, by client id and through an exchange id alone, with one
\* exchange id claimed by two orders.
MCUpdates ==
    {MCUpdate("kAccepted", pair[1], pair[2], "OrderAck", 0) :
        pair \in {<<c1, e1>>, <<c2, e1>>, <<c2, e2>>}}
    \cup {MCUpdate(status, None, e1, "OrderAck", 0) : status \in {"kUnknown", "kReplaced"}}
    \cup {MCUpdate("kRejected", c1, None, "OrderReject", 0),
          MCUpdate("kCanceled", c3, None, "OrderAck", 0)}
    \cup {MCUpdate(status, id, e1, "OrderFill", 1) :
        status \in {"kPartiallyFilled", "kFilled"}, id \in {c1, None}}

MCSnapshots ==
    {[net_position_market      |-> n,
      gross_position_global    |-> 2,
      realized_pnl_ticks_total |-> 0] : n \in {0, 2}}

\* Bound: at most two intents wait for their evaluation.
MCQueueBound == Cardinality(queued) <= 2

MCGlobalRisk ==
    [max_active_orders_global       |-> 2,
     max_active_orders_per_market   |-> 0,
     max_outstanding_qty_global     |-> 3,
     max_outstanding_qty_per_market |-> 0]

MCPortfolioRisk ==
    [max_abs_net_position_per_market |-> 3,
     max_abs_position_gross_global   |-> 0,
     min_realized_pnl_ticks          |-> 0,
     enforce_realized_pnl_floor      |-> FALSE]
=============================================================================
