-------------------------- MODULE MCPositionLedger --------------------------
(* Small instance of PositionLedger: fills of one to three lots at positive  *)
(* and negative prices whose averages do not divide evenly.                  *)
EXTENDS PositionLedger

CONSTANTS c1, m1, m2

MCFill(status, data, market, side, qty, price) ==
    [status            |-> status,
     client_order_id   |-> c1,
     exchange_order_id |-> None,
     market_ticker     |-> market,
     data              |-> data,
     fill_qty_lots     |-> qty,
     fill_price_ticks  |-> price,
     side              |-> side]

\* Fills of both markets, and updates the ledger ignores or refuses: other
\* statuses, no payload, no market, no lots, no side.
MCLedgerUpdates ==
    {MCFill("kFilled", "OrderFill", m1, side, qty, price) :
        side \in {"kBuy", "kSell"}, qty \in {1, 2, 3}, price \in {-2, 1, 5}}
    \cup {MCFill("kPartiallyFilled", "OrderFill", m2, side, 2, 3) :
        side \in {"kBid", "kAsk"}}
    \cup {MCFill("kAccepted", "OrderAck", m1, "kUnknown", 1, 1),
          MCFill("kFilled", "OrderReject", m1, "kBuy", 1, 1),
          MCFill("kFilled", "OrderFill", None, "kBuy", 1, 1),
          MCFill("kFilled", "OrderFill", m1, "kBuy", 0, 1),
          MCFill("kFilled", "OrderFill", m1, "kUnknown", 1, 1)}
=============================================================================
