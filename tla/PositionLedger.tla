--------------------------- MODULE PositionLedger ---------------------------
(***************************************************************************)
(* PositionLedgerCore behind PositionLedger's mutex: per-market position,  *)
(* truncated average open price and realized profit, driven by the order   *)
(* manager's updates.  Every call holds the mutex, so it is one step.      *)
(*                                                                         *)
(* One exchange is configured, so a MarketKey is a market.  The counters   *)
(* of ignored and rejected updates, which nothing reads, are left out: an  *)
(* update that only counts is a stuttering step.  int64 overflow needs     *)
(* 2^63 tick-lots and is not modelled.                                     *)
(***************************************************************************)
EXTENDS OmsTypes, FiniteSetsExt

CONSTANTS
    LedgerUpdates,  \* the updates the order manager may forward
    MaxFills        \* bound on the number of fills applied

ASSUME LedgerAssumption ==
    /\ LedgerUpdates \subseteq OrderStateUpdate
    /\ MaxFills \in Nat

VARIABLES
    positions,                  \* market -> MarketPositionState, once filled
    realized_pnl_ticks_total,   \* running total over all markets
    closed_position_count,      \* times a position went flat
    history                     \* market -> what the fills amount to, exactly

ledgerVars == <<positions, realized_pnl_ticks_total, closed_position_count>>
vars == <<positions, realized_pnl_ticks_total, closed_position_count, history>>

MarketPositionState ==
    [net_qty_lots         : Int,
     avg_open_price_ticks : Int,
     has_open_price       : BOOLEAN,
     bought_qty_lots      : Nat,
     sold_qty_lots        : Nat,
     closed_qty_lots      : Nat,
     realized_pnl_ticks   : Int,
     fill_count           : Nat]

\* cash: what the fills were paid with; rounding: the most that the truncated
\* averages can have lost; low, high: the fill prices of the open position.
FillHistory == [cash : Int, rounding : Nat, low : Int, high : Int]

NoPosition ==
    [net_qty_lots |-> 0, avg_open_price_ticks |-> 0, has_open_price |-> FALSE,
     bought_qty_lots |-> 0, sold_qty_lots |-> 0, closed_qty_lots |-> 0,
     realized_pnl_ticks |-> 0, fill_count |-> 0]

NoHistory == [cash |-> 0, rounding |-> 0, low |-> 0, high |-> 0]

PositionOf(market) ==
    IF market \in DOMAIN positions THEN positions[market] ELSE NoPosition

HistoryOf(market) ==
    IF market \in DOMAIN history THEN history[market] ELSE NoHistory

\* C++ integer division: truncates towards zero, for a positive divisor.
TruncatedQuotient(a, b) == IF a >= 0 THEN a \div b ELSE -((-a) \div b)

SameDirection(net, signed) == (net > 0 /\ signed > 0) \/ (net < 0 /\ signed < 0)

-----------------------------------------------------------------------------
(* apply_fill                                                              *)

SignedFill(update) == side_to_signed_qty(update.side, update.fill_qty_lots)

\* An update that changes the ledger; every other is ignored or refused.
IsFill(update) ==
    /\ update.status \in {"kFilled", "kPartiallyFilled"}
    /\ update.data = "OrderFill"
    /\ update.market_ticker # None
    /\ update.fill_qty_lots > 0
    /\ SignedFill(update) # 0

\* Faulty variant: a flip closes more lots than were open.
ClosedQty_Uncapped(net, signed) ==
    IF net = 0 \/ SameDirection(net, signed) THEN 0 ELSE abs_qty(signed)

ClosedQty(net, signed) ==
    IF net = 0 \/ SameDirection(net, signed) THEN 0
    ELSE Min({abs_qty(net), abs_qty(signed)})

\* Faulty variant: a flip keeps the average of the position it closed.
AveragePrice_KeptOnFlip(position, signed, price) ==
    LET net      == position.net_qty_lots
        notional == position.avg_open_price_ticks * abs_qty(net) + price * abs_qty(signed)
    IN  IF SameDirection(net, signed)
        THEN TruncatedQuotient(notional, abs_qty(net) + abs_qty(signed))
        ELSE IF net = 0 THEN price
        ELSE position.avg_open_price_ticks

\* Open or flip: the fill's price.  Add: the weighted average, truncated.
\* Reduce: unchanged.
AveragePrice(position, signed, price) ==
    LET net      == position.net_qty_lots
        notional == position.avg_open_price_ticks * abs_qty(net) + price * abs_qty(signed)
    IN  IF SameDirection(net, signed)
        THEN TruncatedQuotient(notional, abs_qty(net) + abs_qty(signed))
        ELSE IF abs_qty(signed) > abs_qty(net) THEN price
        ELSE position.avg_open_price_ticks

\* Faulty variant: a short position gains when the price rises.
RealizedPnl_LongSign(position, signed, price) ==
    (price - position.avg_open_price_ticks) * ClosedQty(position.net_qty_lots, signed)

RealizedPnl(position, signed, price) ==
    LET gain == IF position.net_qty_lots > 0
                THEN price - position.avg_open_price_ticks
                ELSE position.avg_open_price_ticks - price
    IN  gain * ClosedQty(position.net_qty_lots, signed)

\* A fill that only reduces the position leaves the flag alone.
StillOpen(position, signed) ==
    LET net     == position.net_qty_lots
        reduces == ~SameDirection(net, signed) /\ abs_qty(signed) < abs_qty(net)
    IN  IF reduces THEN position.has_open_price ELSE net + signed # 0

\* Faulty variant: sold lots are counted with the sign of the fill.
FilledPosition_SignedSold(position, signed, price) ==
    [net_qty_lots         |-> position.net_qty_lots + signed,
     avg_open_price_ticks |-> AveragePrice(position, signed, price),
     has_open_price       |-> StillOpen(position, signed),
     bought_qty_lots      |-> position.bought_qty_lots + (IF signed > 0 THEN signed ELSE 0),
     sold_qty_lots        |-> position.sold_qty_lots + (IF signed > 0 THEN 0 ELSE signed),
     closed_qty_lots      |-> position.closed_qty_lots
                                + ClosedQty(position.net_qty_lots, signed),
     realized_pnl_ticks   |-> position.realized_pnl_ticks
                                + RealizedPnl(position, signed, price),
     fill_count           |-> position.fill_count + 1]

FilledPosition(position, signed, price) ==
    [net_qty_lots         |-> position.net_qty_lots + signed,
     avg_open_price_ticks |-> AveragePrice(position, signed, price),
     has_open_price       |-> StillOpen(position, signed),
     bought_qty_lots      |-> position.bought_qty_lots + (IF signed > 0 THEN signed ELSE 0),
     sold_qty_lots        |-> position.sold_qty_lots + (IF signed > 0 THEN 0 ELSE -signed),
     closed_qty_lots      |-> position.closed_qty_lots
                                + ClosedQty(position.net_qty_lots, signed),
     realized_pnl_ticks   |-> position.realized_pnl_ticks
                                + RealizedPnl(position, signed, price),
     fill_count           |-> position.fill_count + 1]

\* The history variable: exact cash, and the price range of the open position.
FilledHistory(h, net, signed, price) ==
    LET adds  == SameDirection(net, signed)
        opens == ~adds /\ abs_qty(signed) > abs_qty(net)
    IN  [cash     |-> h.cash - signed * price,
         rounding |-> h.rounding + (IF adds THEN abs_qty(net + signed) - 1 ELSE 0),
         low      |-> IF opens THEN price ELSE IF adds THEN Min({h.low, price}) ELSE h.low,
         high     |-> IF opens THEN price ELSE IF adds THEN Max({h.high, price}) ELSE h.high]

PutAt(f, key, value) ==
    [k \in DOMAIN f \cup {key} |-> IF k = key THEN value ELSE f[k]]

\* Faulty variant: only the closing of long positions reaches the total.
apply_fill_LongOnlyTotal(update) ==
    LET market   == update.market_ticker
        position == PositionOf(market)
        signed   == SignedFill(update)
        price    == update.fill_price_ticks
        net      == position.net_qty_lots
    IN  /\ positions' = PutAt(positions, market, FilledPosition(position, signed, price))
        /\ realized_pnl_ticks_total' =
               realized_pnl_ticks_total
                 + (IF net > 0 THEN RealizedPnl(position, signed, price) ELSE 0)
        /\ UNCHANGED closed_position_count
        /\ history' =
               PutAt(history, market, FilledHistory(HistoryOf(market), net, signed, price))

apply_fill(update) ==
    LET market   == update.market_ticker
        position == PositionOf(market)
        signed   == SignedFill(update)
        price    == update.fill_price_ticks
        net      == position.net_qty_lots
    IN  /\ positions' = PutAt(positions, market, FilledPosition(position, signed, price))
        /\ realized_pnl_ticks_total' =
               realized_pnl_ticks_total + RealizedPnl(position, signed, price)
        /\ closed_position_count' =
               closed_position_count + (IF net # 0 /\ net + signed = 0 THEN 1 ELSE 0)
        /\ history' =
               PutAt(history, market, FilledHistory(HistoryOf(market), net, signed, price))

on_order_update(update) == IsFill(update) /\ apply_fill(update)

-----------------------------------------------------------------------------
(* The snapshot the portfolio risk gate and the shard risk gate read       *)

portfolio_risk_snapshot(market) ==
    [net_position_market      |-> PositionOf(market).net_qty_lots,
     gross_position_global    |->
         SumFunction([m \in DOMAIN positions |-> abs_qty(positions[m].net_qty_lots)]),
     realized_pnl_ticks_total |->
         SumFunction([m \in DOMAIN positions |-> positions[m].realized_pnl_ticks])]

-----------------------------------------------------------------------------
(* The specification                                                       *)

Init ==
    /\ positions = [m \in {} |-> NoPosition]
    /\ realized_pnl_ticks_total = 0
    /\ closed_position_count = 0
    /\ history = [m \in {} |-> NoHistory]

FillsApplied == SumFunction([m \in DOMAIN positions |-> positions[m].fill_count])

Next ==
    \E update \in LedgerUpdates :
        /\ FillsApplied < MaxFills
        /\ on_order_update(update)

Spec == Init /\ [][Next]_vars

-----------------------------------------------------------------------------
(* Properties                                                              *)

\* Type invariant of the ledger and of the history variable.
TypeOK ==
    /\ DOMAIN positions \subseteq Markets
    /\ positions \in [DOMAIN positions -> MarketPositionState]
    /\ DOMAIN history = DOMAIN positions
    /\ history \in [DOMAIN positions -> FillHistory]
    /\ realized_pnl_ticks_total \in Int
    /\ closed_position_count \in Nat

\* Every lot is accounted for in every market, through opens, adds, reductions
\* and flips: the net position is what was bought less what was sold, every
\* closed lot was once bought and once sold, and there is an open price
\* exactly while there is a position.
LotsBalance ==
    \A m \in DOMAIN positions :
        LET p == positions[m]
        IN  /\ p.net_qty_lots = p.bought_qty_lots - p.sold_qty_lots
            /\ p.bought_qty_lots + p.sold_qty_lots
                   = abs_qty(p.net_qty_lots) + 2 * p.closed_qty_lots
            /\ p.has_open_price <=> p.net_qty_lots # 0

\* Conservation of money: realized profit equals the cash the fills brought
\* plus the open position at its average price, up to the truncation of the
\* average at each fill that added to a position.
PnlConserved ==
    \A m \in DOMAIN positions :
        LET p == positions[m]
        IN  abs_qty(p.realized_pnl_ticks
                      - (history[m].cash + p.avg_open_price_ticks * p.net_qty_lots))
              <= history[m].rounding

\* The average open price lies between the lowest and the highest price at
\* which the open position was built, however it was built.
AverageWithinFills ==
    \A m \in DOMAIN positions :
        positions[m].net_qty_lots # 0 =>
            /\ history[m].low <= positions[m].avg_open_price_ticks
            /\ positions[m].avg_open_price_ticks <= history[m].high

\* The running total, kept on its own, agrees with the sum over the markets
\* from which the portfolio snapshot takes the figure for the loss floor.
TotalsAgree ==
    realized_pnl_ticks_total
        = SumFunction([m \in DOMAIN positions |-> positions[m].realized_pnl_ticks])
=============================================================================
