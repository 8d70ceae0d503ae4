------------------------ MODULE PaperOrderTransport -------------------------
(***************************************************************************)
(* PaperOrderTransport: the simulated exchange behind the order manager.   *)
(* Each call holds the transport's mutex and is one step.  Responses wait  *)
(* in a queue that close and connect leave alone.                          *)
(***************************************************************************)
EXTENDS KalshiOmsAdapter, Sequences

CONSTANTS auto_fill_on_place, PaperTicker

VARIABLES connected, next_exchange_order_id, inbound_updates, executed, placements

Init ==
    /\ connected = FALSE
    /\ next_exchange_order_id = 1
    /\ inbound_updates = <<>>
    /\ executed = [m \in Markets |-> 0]
    /\ placements = [c \in ClientOrderIds |-> 0]

connect ==
    /\ connected' = TRUE
    /\ UNCHANGED <<next_exchange_order_id, inbound_updates, executed, placements>>

close ==
    /\ connected' = FALSE
    /\ UNCHANGED <<next_exchange_order_id, inbound_updates, executed, placements>>

Message(type, request, exchange_order_id, market_ticker) ==
    [type              |-> type,
     client_order_id   |-> request.client_order_id,
     exchange_order_id |-> exchange_order_id,
     market_ticker     |-> market_ticker,
     qty               |-> request.qty,
     price             |-> request.limit_price,
     side              |-> request.side]

\* What the exchange answers: an order is acknowledged and filled at once at
\* its limit price; every other request is refused.
Responses(request) ==
    LET id     == next_exchange_order_id
        market == request.market_ticker
    IN  IF request.action = "place_order"
        THEN <<Message("order_ack", request, id, market)>>
               \o (IF auto_fill_on_place
                   THEN <<Message("fill", request, id, market)>> ELSE <<>>)
        ELSE <<Message("order_reject", request, None,
                       IF market = None THEN PaperTicker ELSE market)>>

RequestIsValid(request) ==
    /\ request.client_order_id # None
    /\ request.action = "place_order" =>
           /\ request.market_ticker # None
           /\ request.limit_price # None
           /\ request.side # None
           /\ request.qty > 0

SendSucceeds(request) == connected /\ RequestIsValid(request)

send_text(request) ==
    LET places == request.action = "place_order"
        lots   == side_to_signed_qty(side_from_string(request.side), request.qty)
    IN  /\ SendSucceeds(request)
        /\ inbound_updates' = inbound_updates \o Responses(request)
        /\ next_exchange_order_id' = next_exchange_order_id + (IF places THEN 1 ELSE 0)
        /\ executed' = IF places /\ auto_fill_on_place
                       THEN [executed EXCEPT ![request.market_ticker] = @ + lots]
                       ELSE executed
        /\ placements' = IF places
                         THEN [placements EXCEPT ![request.client_order_id] = @ + 1]
                         ELSE placements
        /\ UNCHANGED connected

CanReceive == connected /\ inbound_updates # <<>>

recv_text ==
    /\ CanReceive
    /\ inbound_updates' = Tail(inbound_updates)
    /\ UNCHANGED <<connected, next_exchange_order_id, executed, placements>>
=============================================================================
