-------------------------- MODULE WsOrderTransport --------------------------
(***************************************************************************)
(* WsOrderTransport: the order manager's connection to the live exchange,  *)
(* which forwards every call to the websocket client (see WsTransport; the *)
(* two steps of connect() and close() are one here).                       *)
(*                                                                         *)
(* The exchange is external and known from the messages the adapter reads: *)
(* it acknowledges or refuses an order, and fills it at once or in parts,  *)
(* also before the acknowledgement.  It honours cancels and replacements.  *)
(* Messages keep their order; a connection that breaks loses the last of   *)
(* them.                                                                   *)
(***************************************************************************)
EXTENDS KalshiOmsAdapter, Sequences

CONSTANT fills_in_parts    \* the exchange may fill a part of an order

VARIABLES
    connected, next_exchange_order_id, inbound_updates, executed, placements,
    link,         \* "none", "open", or "broken": reads and writes fail
    open_orders   \* client id -> order that works at the exchange

exchangeVars == <<next_exchange_order_id, executed, placements, open_orders>>

-----------------------------------------------------------------------------
(* The transport                                                           *)

\* What the last connection still held is gone with its stream.
connect ==
    /\ connected' \in BOOLEAN
    /\ link' = IF connected' THEN "open" ELSE "none"
    /\ inbound_updates' = <<>>
    /\ UNCHANGED exchangeVars

close ==
    /\ connected' = FALSE
    /\ link' = IF link = "open" THEN "broken" ELSE link
    /\ inbound_updates' = IF connected THEN <<>> ELSE inbound_updates
    /\ UNCHANGED exchangeVars

SendSucceeds(request) == connected /\ link = "open"

\* A read returns a message, fails because the connection has ended, or waits.
CanReceive == connected /\ inbound_updates # <<>>
ReceiveFails == ~connected \/ (link # "open" /\ inbound_updates = <<>>)

recv_text ==
    /\ CanReceive
    /\ inbound_updates' = Tail(inbound_updates)
    /\ UNCHANGED <<connected, link, exchangeVars>>

-----------------------------------------------------------------------------
(* The exchange                                                            *)

\* the order a cancel or a replacement is about; None: not open
Target(request) ==
    LET named == IF request.target_client_order_id # None
                 THEN request.target_client_order_id ELSE request.client_order_id
        found == {c \in DOMAIN open_orders :
                     IF request.target_exchange_order_id # None
                     THEN open_orders[c].exchange_order_id = request.target_exchange_order_id
                     ELSE c = named}
    IN  IF found = {} THEN None ELSE CHOOSE c \in found : TRUE

Without(c) == [d \in DOMAIN open_orders \ {c} |-> open_orders[d]]

WithOrder(orders, request, market_ticker, side) ==
    [d \in DOMAIN orders \cup {request.client_order_id} |->
        IF d # request.client_order_id THEN orders[d]
        ELSE [exchange_order_id |-> next_exchange_order_id,
              acknowledged      |-> FALSE,
              market_ticker     |-> market_ticker,
              side              |-> side,
              price             |-> request.limit_price,
              qty               |-> request.qty,
              remaining         |-> request.qty]]

\* The exchange speaks while the connection lasts; the side of a fill is left out.
Say(type, c, qty) ==
    inbound_updates' =
        IF link # "open" THEN inbound_updates
        ELSE Append(inbound_updates,
                 [type              |-> type,
                  client_order_id   |-> c,
                  exchange_order_id |-> open_orders[c].exchange_order_id,
                  market_ticker     |-> open_orders[c].market_ticker,
                  qty               |-> qty,
                  price             |-> open_orders[c].price,
                  side              |-> None])

\* The text goes out over the connection as it is and the exchange, which is
\* external, receives the request.  It confirms a cancel with a message that the
\* adapter does not know.
send_text(request) ==
    LET target == Target(request)
        places == request.action = "place_order"
        adds   == places \/ (request.action = "replace_order" /\ target # None)
        others == IF places THEN open_orders ELSE Without(target)
    IN  /\ SendSucceeds(request)
        /\ open_orders' =
               IF ~adds THEN others
               ELSE IF places
               THEN WithOrder(others, request, request.market_ticker, request.side)
               ELSE WithOrder(others, request, open_orders[target].market_ticker,
                              open_orders[target].side)
        /\ next_exchange_order_id' = next_exchange_order_id + (IF adds THEN 1 ELSE 0)
        /\ placements' = IF adds
                         THEN [placements EXCEPT ![request.client_order_id] = @ + 1]
                         ELSE placements
        /\ IF request.action = "cancel_order" /\ target # None
           THEN Say("order_canceled", target, None)
           ELSE UNCHANGED inbound_updates
        /\ UNCHANGED <<connected, link, executed>>

\* open_orders with order changed; it is closed when nothing is left to do or say
Settle(c, order) ==
    open_orders' = IF order.acknowledged /\ order.remaining = 0
                   THEN Without(c) ELSE [open_orders EXCEPT ![c] = order]

Acknowledge(c) ==
    /\ ~open_orders[c].acknowledged
    /\ Say("order_ack", c, open_orders[c].qty)
    /\ Settle(c, [open_orders[c] EXCEPT !.acknowledged = TRUE])
    /\ UNCHANGED <<connected, link, next_exchange_order_id, executed, placements>>

Refuse(c) ==
    /\ ~open_orders[c].acknowledged /\ open_orders[c].remaining = open_orders[c].qty
    /\ Say("order_reject", c, None)
    /\ open_orders' = Without(c)
    /\ UNCHANGED <<connected, link, next_exchange_order_id, executed, placements>>

Fill(c, lots) ==
    LET order == open_orders[c]
    IN  /\ lots \in 1..order.remaining
        /\ fills_in_parts \/ lots = order.remaining
        /\ Say("fill", c, lots)
        /\ Settle(c, [order EXCEPT !.remaining = @ - lots])
        /\ executed' = [executed EXCEPT ![order.market_ticker] =
                           @ + side_to_signed_qty(side_from_string(order.side), lots)]
        /\ UNCHANGED <<connected, link, next_exchange_order_id, placements>>

Disconnect ==
    /\ link = "open"
    /\ link' = "broken"
    /\ \E n \in 0..Len(inbound_updates) : inbound_updates' = SubSeq(inbound_updates, 1, n)
    /\ UNCHANGED <<connected, exchangeVars>>

ExchangeStep ==
    \/ \E c \in DOMAIN open_orders :
           \/ Acknowledge(c) \/ Refuse(c)
           \/ \E lots \in 1..open_orders[c].remaining : Fill(c, lots)
    \/ Disconnect
=============================================================================
