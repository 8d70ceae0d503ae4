---------------------------- MODULE MCBookStore -----------------------------
(* Small instance of BookStore: events of one market with sequence ids 1..3, *)
(* duplicated and in any order, as the Kalshi parser lets them through.      *)
EXTENDS BookStore

CONSTANTS m1

MCEvent(type, raw, meta, data) ==
    [type |-> type, market_ticker |-> m1, raw_sequence_id |-> raw,
     meta_sequence_id |-> meta, data |-> data]

MCLevel(price, qty) == [price_ticks |-> price, qty_lots |-> qty]

MCDelta(side, price, lots) ==
    [side |-> side, price_ticks |-> price, delta_qty_lots |-> lots]

\* The second snapshot has an empty level after a good one; the parser passes
\* quantity zero.  The strict parser passes no unknown side; the store, a public
\* class, has its own branch for one.
MCEvents ==
    {MCEvent("kSnapshot", 1, 1, [bids |-> <<MCLevel(1, 2)>>, asks |-> <<MCLevel(2, 1)>>]),
     MCEvent("kSnapshot", 2, 2, [bids |-> <<MCLevel(1, 1), MCLevel(0, 0)>>,
                                 asks |-> <<MCLevel(2, 1)>>]),
     MCEvent("kSnapshot", 3, 3, [bids |-> <<MCLevel(0, 1)>>, asks |-> <<>>]),
     MCEvent("kTrade", None, 0, "trade"),
     MCEvent("kTrade", None, 2, "trade"),
     MCEvent("kHeartbeat", None, 0, None)}
      \cup {MCEvent("kDelta", seq, seq, delta) :
               seq \in 1..3,
               delta \in {MCDelta("kBid", 1, 1), MCDelta("kBid", 1, -2),
                          MCDelta("kAsk", 2, -1), MCDelta("kUnknown", 2, 1)}}
=============================================================================
