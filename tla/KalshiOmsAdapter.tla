-------------------------- MODULE KalshiOmsAdapter --------------------------
(***************************************************************************)
(* The Kalshi OMS adapter: which intents it supports, the request it       *)
(* builds from an intent and the update it parses from an exchange         *)
(* message.  A JSON object is the record of the fields that later code     *)
(* reads, None standing for a field that is absent.                        *)
(***************************************************************************)
EXTENDS OmsTypes

SideName ==
    [kBuy |-> "buy", kSell |-> "sell", kBid |-> "bid", kAsk |-> "ask",
     kUnknown |-> "unknown"]

\* A name that is no side ("unknown") leaves the side of the fill unknown.
side_from_string(name) ==
    IF \E side \in Side : SideName[side] = name
    THEN CHOOSE side \in Side : SideName[side] = name
    ELSE "kUnknown"

supports(intent) == intent.action # "kUnknown"

-----------------------------------------------------------------------------
(* build_request                                                           *)

HasTarget(intent) ==
    intent.target_client_order_id # None \/ intent.target_exchange_order_id # None

\* The request can be built; otherwise build_request throws.
IntentIsComplete(intent) ==
    \/ /\ intent.action = "kPlace"
       /\ intent.client_order_id # None
       /\ intent.market_ticker # None
       /\ intent.qty_lots > 0
       /\ intent.side # "kUnknown"
       /\ intent.limit_price_ticks # None
    \/ /\ intent.action = "kCancel"
       /\ intent.client_order_id # None \/ HasTarget(intent)
    \/ /\ intent.action = "kReplace"
       /\ HasTarget(intent)
       /\ intent.client_order_id # None
       /\ intent.qty_lots > 0
       /\ intent.limit_price_ticks # None

\* Only a place request names the market and the side; only the others a target.
build_request(intent) ==
    LET places == intent.action = "kPlace"
    IN  [action          |-> CASE places                      -> "place_order"
                               [] intent.action = "kCancel"   -> "cancel_order"
                               [] intent.action = "kReplace"  -> "replace_order",
         client_order_id |-> intent.client_order_id,
         target_client_order_id   |->
             IF places THEN None ELSE intent.target_client_order_id,
         target_exchange_order_id |->
             IF places THEN None ELSE intent.target_exchange_order_id,
         market_ticker   |-> IF places THEN intent.market_ticker ELSE None,
         side            |-> IF places THEN SideName[intent.side] ELSE None,
         qty             |-> IF CreatesOrder(intent) THEN intent.qty_lots ELSE None,
         limit_price     |-> IF CreatesOrder(intent) THEN intent.limit_price_ticks ELSE None]

-----------------------------------------------------------------------------
(* parse_update                                                            *)

MessageIsComplete(message) ==
    /\ message.type \in {"order_ack", "order_reject", "fill"}
    /\ message.client_order_id # None
    /\ message.type \in {"order_ack", "fill"} =>
           message.market_ticker # None /\ message.qty # None
    /\ message.type = "fill" => message.price # None

\* Every fill message reports a complete fill.
parse_update(message) ==
    [status            |-> CASE message.type = "order_ack"    -> "kAccepted"
                             [] message.type = "order_reject" -> "kRejected"
                             [] message.type = "fill"         -> "kFilled",
     client_order_id   |-> message.client_order_id,
     exchange_order_id |-> message.exchange_order_id,
     market_ticker     |-> message.market_ticker,
     data              |-> CASE message.type = "order_ack"    -> "OrderAck"
                             [] message.type = "order_reject" -> "OrderReject"
                             [] message.type = "fill"         -> "OrderFill",
     fill_qty_lots     |-> IF message.type = "fill" THEN message.qty ELSE 0,
     fill_price_ticks  |-> IF message.type = "fill" THEN message.price ELSE 0,
     side              |-> IF message.type = "fill"
                           THEN side_from_string(message.side) ELSE "kUnknown"]
=============================================================================
