---------------------------- MODULE WsFeedRunner ----------------------------
(***************************************************************************)
(* WsFeedRunner over WsSession and the websocket transport: the worker     *)
(* connects, subscribes to every channel, receives until the connection    *)
(* fails and starts over; another thread starts and stops it.              *)
(*                                                                         *)
(* A step is what a thread does up to its next look at the stop token or   *)
(* at the transport's flag, or its next blocking call.  Counters and error *)
(* texts are left out.                                                     *)
(***************************************************************************)
EXTENDS WsTransport

CONSTANTS
    NumChannels,        \* config_.channels.size()
    MaxFaults           \* bound on the failures of the network

ASSUME FeedAssumption ==
    NumChannels \in Nat /\ MaxFaults \in Nat

VARIABLES
    worker,           \* where the worker is; "none": not joinable
    stop_requested,   \* its stop token
    controller,       \* where the caller of start() and stop() is
    running,          \* running_
    in_close,         \* the threads inside ws_stream->close
    subscribed,       \* channels asked for on this connection
    credentials_sign, \* build_connect_request does not throw; never changes
    faults            \* failures so far, for the bound

threadVars == <<worker, stop_requested, controller, running>>
setupVars == <<credentials_sign, endpoint_is_valid>>
allButWorker ==
    <<stop_requested, controller, running, in_close, subscribed, faults, setupVars,
      socketVars, networkVars>>
feedVars ==
    <<threadVars, in_close, subscribed, faults, setupVars, socketVars, networkVars>>

\* Where the worker goes on after each of its calls of close(): the one at the
\* head of connect(), the two after a failure, and the last one of run().
AfterClose ==
    [connect         |-> "reset",
     close_subscribe |-> "backoff",
     close_receive   |-> "check",
     close_leave     |-> "done"]

-----------------------------------------------------------------------------
(* start() and stop()                                                      *)

Start ==
    /\ controller = "idle" /\ worker = "none"
    /\ worker' = "check"
    /\ stop_requested' = FALSE
    /\ running' = TRUE
    /\ UNCHANGED <<controller, in_close, subscribed, faults, setupVars, socketVars,
                   networkVars>>

\* Faulty variant: the connection is closed and the worker not asked to stop.
StopRequest_OnlyCloses ==
    /\ controller = "idle" /\ worker # "none"
    /\ controller' = "close"
    /\ UNCHANGED <<worker, stop_requested, running, in_close, subscribed, faults,
                   setupVars, socketVars, networkVars>>

StopRequest ==
    /\ controller = "idle" /\ worker # "none"
    /\ stop_requested' = TRUE
    /\ controller' = "close"
    /\ UNCHANGED <<worker, running, in_close, subscribed, faults, setupVars,
                   socketVars, networkVars>>

StopClose ==
    /\ controller = "close" /\ "controller" \notin in_close
    /\ IF MustClose THEN /\ in_close' = in_close \cup {"controller"}
                         /\ UNCHANGED controller
       ELSE /\ controller' = "join"
            /\ UNCHANGED in_close
    /\ UNCHANGED <<worker, stop_requested, running, subscribed, faults, setupVars,
                   socketVars, networkVars>>

StopCloseEnd ==
    /\ "controller" \in in_close
    /\ close_end
    /\ in_close' = in_close \ {"controller"}
    /\ controller' = "join"
    /\ UNCHANGED <<worker, stop_requested, running, subscribed, faults, setupVars>>

StopJoin ==
    /\ controller = "join" /\ worker = "done"
    /\ worker' = "none"
    /\ running' = FALSE
    /\ controller' = "idle"
    /\ UNCHANGED <<stop_requested, in_close, subscribed, faults, setupVars, socketVars,
                   networkVars>>

-----------------------------------------------------------------------------
(* run()                                                                   *)

\* the condition of the outer loop
CheckStop ==
    /\ worker = "check"
    /\ worker' = IF stop_requested THEN "close_leave" ELSE "build"
    /\ UNCHANGED allButWorker

\* WsSession::connect: the signed request
BuildRequest ==
    /\ worker = "build"
    /\ worker' = IF credentials_sign THEN "connect" ELSE "backoff"
    /\ UNCHANGED allButWorker

CloseBegin ==
    /\ worker \in DOMAIN AfterClose /\ "worker" \notin in_close
    /\ IF MustClose
       THEN /\ in_close' = in_close \cup {"worker"}
            /\ UNCHANGED <<worker, running>>
       ELSE /\ worker' = AfterClose[worker]
            /\ running' = (running /\ worker' # "done")
            /\ UNCHANGED in_close
    /\ UNCHANGED <<stop_requested, controller, subscribed, faults, setupVars,
                   socketVars, networkVars>>

CloseEnd ==
    /\ "worker" \in in_close
    /\ close_end
    /\ in_close' = in_close \ {"worker"}
    /\ worker' = AfterClose[worker]
    /\ running' = (running /\ worker' # "done")
    /\ UNCHANGED <<stop_requested, controller, subscribed, faults, setupVars>>

ConnectBegin ==
    /\ worker = "reset"
    /\ connect_begin
    /\ worker' = "handshake"
    /\ subscribed' = 0
    /\ UNCHANGED <<stop_requested, controller, running, in_close, faults, setupVars>>

ConnectEnd ==
    /\ worker = "handshake"
    /\ connect_end
    /\ worker' = IF ConnectSucceeds THEN "subscribe" ELSE "backoff"
    /\ UNCHANGED <<stop_requested, controller, running, in_close, subscribed, faults,
                   setupVars>>

\* Faulty variant: a channel that cannot be subscribed to is passed over.
Subscribe_IgnoresFailure ==
    /\ worker = "subscribe"
    /\ worker' = "receive"
    /\ subscribed' = IF SendSucceeds THEN NumChannels ELSE subscribed
    /\ UNCHANGED <<stop_requested, controller, running, in_close, faults, setupVars,
                   socketVars, networkVars>>

\* One turn of the loop over the channels, or its end.
Subscribe ==
    /\ worker = "subscribe"
    /\ \/ /\ subscribed = NumChannels
          /\ worker' = "checkInner"
          /\ UNCHANGED subscribed
       \/ /\ subscribed < NumChannels /\ SendSucceeds
          /\ subscribed' = subscribed + 1
          /\ UNCHANGED worker
       \/ /\ subscribed < NumChannels /\ ~SendSucceeds
          /\ worker' = "close_subscribe"
          /\ UNCHANGED subscribed
    /\ UNCHANGED <<stop_requested, controller, running, in_close, faults, setupVars,
                   socketVars, networkVars>>

\* the sleep before the next attempt
Backoff ==
    /\ worker = "backoff"
    /\ worker' = "check"
    /\ UNCHANGED allButWorker

\* the condition of the inner loop; leaving it, the outer one is evaluated
CheckStopInner ==
    /\ worker = "checkInner"
    /\ worker' = IF stop_requested THEN "check" ELSE "receive"
    /\ UNCHANGED allButWorker

\* A message arrives and is pushed into the sink.
ReceiveMessage ==
    /\ worker = "receive" /\ CanReceive
    /\ worker' = "checkInner"
    /\ UNCHANGED allButWorker

\* Faulty variant: after a failed read the worker receives again.
ReceiveNothing_ReceivesAgain ==
    /\ worker = "receive"
    /\ ReceiveFails \/ "controller" \in in_close
    /\ worker' = "checkInner"
    /\ UNCHANGED allButWorker

\* The read fails; while another thread is closing, it may fail at any moment.
ReceiveNothing ==
    /\ worker = "receive"
    /\ ReceiveFails \/ "controller" \in in_close
    /\ worker' = "close_receive"
    /\ UNCHANGED allButWorker

-----------------------------------------------------------------------------
(* The specification                                                       *)

Fault ==
    /\ faults < MaxFaults
    /\ faults' = faults + 1
    /\ Outage \/ Disconnect
    /\ UNCHANGED <<threadVars, in_close, subscribed, setupVars>>

Recover ==
    /\ Recovery
    /\ UNCHANGED <<threadVars, in_close, subscribed, faults, setupVars>>

FeedInit ==
    /\ TransportInit
    /\ worker = "none" /\ controller = "idle"
    /\ stop_requested = FALSE /\ running = FALSE
    /\ in_close = {}
    /\ subscribed = 0
    /\ credentials_sign \in BOOLEAN
    /\ faults = 0

Stop == StopClose \/ StopCloseEnd \/ StopJoin

Run ==
    \/ CheckStop \/ BuildRequest \/ CloseBegin \/ CloseEnd
    \/ ConnectBegin \/ ConnectEnd \/ Subscribe \/ Backoff
    \/ CheckStopInner \/ ReceiveNothing

FeedNext == Start \/ StopRequest \/ Stop \/ Run \/ ReceiveMessage \/ Fault \/ Recover

FeedSpec == FeedInit /\ [][FeedNext]_feedVars

-----------------------------------------------------------------------------
(* Properties                                                              *)

\* connect() destroys the stream and makes a new one.  It never does so while
\* the thread that called stop() is inside close() of that stream, although
\* nothing locks the stream: the stop request made before the close keeps the
\* worker from connecting again.
StreamOutlivesClose == [][stream' # stream => in_close = {}]_feedVars

\* The worker only receives on a connection on which every channel has been
\* subscribed to, whatever failed before: a subscription that fails half-way
\* gives the connection up, and a new connection starts with none.
ReceivesAllChannels == worker = "receive" => subscribed = NumChannels
=============================================================================
