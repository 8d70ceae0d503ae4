------------------------------ MODULE OmsTypes ------------------------------
(***************************************************************************)
(* The order-management vocabulary shared by the strategy side, the order  *)
(* manager, the exchange adapter and the position ledger: intents,         *)
(* exchange updates and the two side-to-sign conversions.                  *)
(*                                                                         *)
(* Identifiers and tickers are drawn from constant sets.  None stands for  *)
(* both an absent std::optional and an empty std::string.  Timestamps,     *)
(* request ids, time in force, liquidity and raw payloads influence no     *)
(* decision and are left out.                                              *)
(***************************************************************************)
EXTENDS Integers

CONSTANTS
    ClientOrderIds,     \* values of ClientOrderId
    ExchangeOrderIds,   \* values of ExchangeOrderId
    Markets,            \* market tickers
    None                \* std::nullopt, or the empty string

ASSUME NoneAssumption ==
    None \notin ClientOrderIds \cup ExchangeOrderIds \cup Markets \cup Int

OmsAction == {"kUnknown", "kPlace", "kCancel", "kReplace"}

Side == {"kUnknown", "kBuy", "kSell", "kBid", "kAsk"}

OmsOrderStatus ==
    {"kUnknown", "kAccepted", "kRejected", "kCanceled",
     "kPartiallyFilled", "kFilled", "kReplaced"}

OrderIntent ==
    [action                   : OmsAction,
     client_order_id          : ClientOrderIds \cup {None},
     target_client_order_id   : ClientOrderIds \cup {None},
     target_exchange_order_id : ExchangeOrderIds \cup {None},
     market_ticker            : Markets \cup {None},
     side                     : Side,
     qty_lots                 : Int,
     limit_price_ticks        : Int \cup {None}]

\* The variant OmsUpdateData is the tag "data"; the fill_* fields and side are
\* meaningful when the tag is OrderFill.
OrderStateUpdate ==
    [status            : OmsOrderStatus,
     client_order_id   : ClientOrderIds \cup {None},
     exchange_order_id : ExchangeOrderIds \cup {None},
     market_ticker     : Markets \cup {None},
     data              : {"OrderAck", "OrderReject", "OrderFill"},
     fill_qty_lots     : Int,
     fill_price_ticks  : Int,
     side              : Side]

\* Does the intent create an order (and so pass through the risk gates)?
CreatesOrder(intent) == intent.action \in {"kPlace", "kReplace"}

\* std::llabs, and the ledger's own abs_qty
abs_qty(value) == IF value >= 0 THEN value ELSE -value

side_to_signed_qty(side, qty_lots) ==
    CASE side \in {"kBuy", "kBid"}  -> qty_lots
      [] side \in {"kSell", "kAsk"} -> -qty_lots
      [] OTHER                      -> 0

signed_intent_qty(intent) ==
    IF intent.qty_lots <= 0 THEN 0
    ELSE side_to_signed_qty(intent.side, intent.qty_lots)
=============================================================================
