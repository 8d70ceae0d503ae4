--------------------------- MODULE OrderTransport ---------------------------
(***************************************************************************)
(* The IOrderTransport of the order manager: PaperOrderTransport, or       *)
(* WsOrderTransport when the trader runs live (apps/trader/main.cpp).      *)
(***************************************************************************)
EXTENDS KalshiOmsAdapter, Sequences

CONSTANTS
    LiveModes,           \* the values run_live_oms may have
    auto_fill_on_place,  \* PaperOrderTransportConfig
    PaperTicker,         \* the market "paper" of a rejection that has none
    fills_in_parts       \* the live exchange may fill a part of an order

ASSUME TransportAssumption ==
    /\ LiveModes \subseteq BOOLEAN
    /\ auto_fill_on_place \in BOOLEAN
    /\ fills_in_parts \in BOOLEAN
    /\ PaperTicker \in Markets

VARIABLES
    run_live_oms,         \* the execution mode is kLive; never changes
    connected,
    next_exchange_order_id,
    inbound_updates,      \* messages the order manager has not received
    executed,             \* history: market -> signed lots the exchange filled
    placements,           \* history: client id -> orders the exchange accepted
    link,                 \* live: the state of the connection
    open_orders           \* live: the orders at the exchange

transportVars ==
    <<run_live_oms, connected, next_exchange_order_id, inbound_updates, executed,
      placements, link, open_orders>>

liveVars == <<link, open_orders>>

Paper == INSTANCE PaperOrderTransport
Live == INSTANCE WsOrderTransport

TransportInit ==
    /\ run_live_oms \in LiveModes
    /\ Paper!Init
    /\ link = "none"
    /\ open_orders = [c \in {} |-> None]

connect ==
    /\ \/ ~run_live_oms /\ Paper!connect /\ UNCHANGED liveVars
       \/ run_live_oms /\ Live!connect
    /\ UNCHANGED run_live_oms

close ==
    /\ \/ ~run_live_oms /\ Paper!close /\ UNCHANGED liveVars
       \/ run_live_oms /\ Live!close
    /\ UNCHANGED run_live_oms

SendSucceeds(request) ==
    IF run_live_oms THEN Live!SendSucceeds(request) ELSE Paper!SendSucceeds(request)

send_text(request) ==
    /\ \/ ~run_live_oms /\ Paper!send_text(request) /\ UNCHANGED liveVars
       \/ run_live_oms /\ Live!send_text(request)
    /\ UNCHANGED run_live_oms

CanReceive == IF run_live_oms THEN Live!CanReceive ELSE Paper!CanReceive

\* The paper exchange never makes the caller wait.
ReceiveFails == IF run_live_oms THEN Live!ReceiveFails ELSE ~Paper!CanReceive

recv_text ==
    /\ \/ ~run_live_oms /\ Paper!recv_text /\ UNCHANGED liveVars
       \/ run_live_oms /\ Live!recv_text
    /\ UNCHANGED run_live_oms
=============================================================================
