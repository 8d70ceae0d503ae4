---------------------------- MODULE WsTransport -----------------------------
(***************************************************************************)
(* BoostBeastWsTransport: one websocket connection, used by two threads.   *)
(* The owner connects, sends, receives and closes; another thread may call *)
(* close() at any time.  The calls are synchronous and have no timeout.    *)
(*                                                                         *)
(* The stream and the flag connected are shared without a lock.  The flag  *)
(* is modelled as one memory: a thread that stops the owner first makes an *)
(* atomic request, and the owner locks a mutex or enters the kernel        *)
(* between its store of the flag and its next look at that request.        *)
(*                                                                         *)
(* Beast, TLS, TCP and the exchange behind them are external.              *)
(***************************************************************************)
EXTENDS Naturals

VARIABLES
    endpoint_is_valid,  \* a wss:// endpoint that parse_ws_endpoint accepts; never changes
    connected,    \* impl_->connected
    stream,       \* the stream object that ws_stream owns: 0 or 1, alternating
    reachable,    \* external: the exchange accepts connections
    link          \* external: "none", "open", or "broken": reads and writes fail

socketVars == <<connected, stream>>
networkVars == <<reachable, link>>

TransportInit ==
    /\ endpoint_is_valid \in BOOLEAN
    /\ connected = FALSE
    /\ stream = 0
    /\ reachable \in BOOLEAN
    /\ link = "none"

-----------------------------------------------------------------------------
(* The calls.  connect() and close() take two steps each: up to the first  *)
(* blocking call of Beast, and its return.                                 *)

\* reset_stream(): the old stream is destroyed, and with it its connection
connect_begin ==
    /\ stream' = 1 - stream
    /\ connected' = FALSE
    /\ link' = "none"
    /\ UNCHANGED reachable

ConnectSucceeds == endpoint_is_valid /\ reachable

\* resolve, connect and the two handshakes
connect_end ==
    /\ connected' = ConnectSucceeds
    /\ link' = IF ConnectSucceeds THEN "open" ELSE "none"
    /\ UNCHANGED <<stream, reachable>>

SendSucceeds == connected /\ link = "open"

\* A read returns with a message, or fails: at once if not connected, and when
\* the connection has ended otherwise, which leaves the flag set.
CanReceive == connected /\ link = "open"
ReceiveFails == ~connected \/ link # "open"

\* close() does nothing unless connected
MustClose == connected

\* The closing handshake is over, or the connection broke under it.
close_end ==
    /\ connected' = FALSE
    /\ link' = IF link = "open" THEN "broken" ELSE link
    /\ UNCHANGED <<stream, reachable>>

-----------------------------------------------------------------------------
(* The network                                                             *)

Outage ==
    /\ reachable
    /\ reachable' = FALSE
    /\ link' = IF link = "open" THEN "broken" ELSE link
    /\ UNCHANGED socketVars

Disconnect ==
    /\ link = "open"
    /\ link' = "broken"
    /\ UNCHANGED <<socketVars, reachable>>

Recovery ==
    /\ ~reachable
    /\ reachable' = TRUE
    /\ UNCHANGED <<socketVars, link>>
=============================================================================
