----------------------- MODULE OrderManagerDataProofs -----------------------
(***************************************************************************)
(* Proofs about the data of the order manager, for any number of threads,  *)
(* intents and submissions: the updates, orders and positions it keeps are *)
(* typed, and its threads implement the specification of the core.         *)
(***************************************************************************)
EXTENDS OrderManagerProofs

-----------------------------------------------------------------------------
(* The data the manager handles, for its refinement of the core: what the   *)
(* exchange says is an update of the declared type.                         *)

\* The core's specification without bounds: any update, any snapshot, and an
\* exchange that does not run out of order ids.
Unbounded ==
    /\ Updates = OrderStateUpdate
    /\ Snapshots = [net_position_market : Int, gross_position_global : Int,
                    realized_pnl_ticks_total : Int]
    /\ Nat \ {0} \subseteq ExchangeOrderIds

SideNames == {SideName[side] : side \in Side}

ExchangeMessage ==
    [type              : {"order_ack", "order_reject", "fill", "order_canceled"},
     client_order_id   : ClientOrderIds,
     exchange_order_id : ExchangeOrderIds \cup {None},
     market_ticker     : Markets \cup {None},
     qty               : Int \cup {None},
     price             : Int \cup {None},
     side              : SideNames \cup {None}]

OpenOrder ==
    [exchange_order_id : ExchangeOrderIds,
     acknowledged      : BOOLEAN,
     market_ticker     : Markets,
     side              : SideNames,
     price             : Int,
     qty               : Int,
     remaining         : Int]

ExchangeInv ==
    /\ inbound_updates \in Seq(ExchangeMessage)
    /\ next_exchange_order_id \in Nat \ {0}
    /\ DOMAIN open_orders \subseteq ClientOrderIds
    /\ \A c \in DOMAIN open_orders : open_orders[c] \in OpenOrder

\* The adapter reads an update from every complete message.
LEMMA ParsedUpdateType ==
    ASSUME NEW message \in ExchangeMessage, MessageIsComplete(message)
    PROVE  parse_update(message) \in OrderStateUpdate
<1>1. \A name : side_from_string(name) \in Side
  BY Zenon DEF side_from_string, Side
<1>2. /\ message.type \in {"order_ack", "order_reject", "fill"}
      /\ message.type = "fill" => message.qty \in Int /\ message.price \in Int
  BY Zenon DEF MessageIsComplete, ExchangeMessage
<1>3. (IF message.type = "fill" THEN side_from_string(message.side) ELSE "kUnknown") \in Side
  BY Zenon, <1>1 DEF Side
<1>. QED
  BY <1>2, <1>3 DEF parse_update, OrderStateUpdate, ExchangeMessage, OmsOrderStatus

\* The request of a complete intent carries what the intent does.
LEMMA RequestType ==
    ASSUME NEW intent \in Intents, IntentIsComplete(intent)
    PROVE  LET request == build_request(intent)
           IN  /\ request.action \in {"place_order", "cancel_order", "replace_order"}
               /\ request.client_order_id \in ClientOrderIds \cup {None}
               /\ request.market_ticker \in Markets \cup {None}
               /\ request.qty \in Int \cup {None}
               /\ request.limit_price \in Int \cup {None}
               /\ request.side \in SideNames \cup {None}
               /\ request.action = "place_order" =>
                      request.market_ticker \in Markets /\ request.side \in SideNames
               /\ request.action # "cancel_order" =>
                      /\ request.client_order_id \in ClientOrderIds
                      /\ request.qty \in Int /\ request.limit_price \in Int
<1>1. intent \in OrderIntent
  BY Zenon, ManagerAssumption
<1>2. SideName[intent.side] \in SideNames
  BY Zenon, <1>1 DEF SideNames, OrderIntent
<1>3. CASE intent.action = "kPlace"
  BY Zenon, <1>1, <1>2, <1>3 DEF build_request, IntentIsComplete, OrderIntent, CreatesOrder
<1>4. CASE intent.action = "kCancel"
  BY Zenon, <1>1, <1>4 DEF build_request, OrderIntent, CreatesOrder
<1>5. CASE intent.action = "kReplace"
  BY Zenon, <1>1, <1>5 DEF build_request, IntentIsComplete, OrderIntent, CreatesOrder
<1>. QED
  BY Zenon, <1>3, <1>4, <1>5 DEF IntentIsComplete

\* The paper exchange's answers are messages.
LEMMA PaperSendKeepsExchange ==
    ASSUME Unbounded, ExchangeInv, NEW intent \in Intents, IntentIsComplete(intent),
           Paper!send_text(build_request(intent)), UNCHANGED liveVars
    PROVE  ExchangeInv'
<1> DEFINE request == build_request(intent)
<1>1. /\ request.action \in {"place_order", "cancel_order", "replace_order"}
      /\ request.client_order_id \in ClientOrderIds
      /\ request.market_ticker \in Markets \cup {None}
      /\ request.qty \in Int \cup {None}
      /\ request.limit_price \in Int \cup {None}
      /\ request.side \in SideNames \cup {None}
  BY Zenon, RequestType DEF Paper!send_text, Paper!SendSucceeds, Paper!RequestIsValid
<1>2. /\ inbound_updates' = inbound_updates \o Paper!Responses(request)
      /\ next_exchange_order_id' =
             next_exchange_order_id + (IF request.action = "place_order" THEN 1 ELSE 0)
  BY Zenon DEF Paper!send_text
<1>3. next_exchange_order_id \in ExchangeOrderIds /\ next_exchange_order_id' \in Nat \ {0}
  BY <1>2 DEF Unbounded, ExchangeInv
<1> HIDE DEF request
<1>4. \A t \in {"order_ack", "order_reject", "fill"}, e \in ExchangeOrderIds \cup {None},
         m \in Markets \cup {None} : Paper!Message(t, request, e, m) \in ExchangeMessage
  BY Zenon, <1>1 DEF Paper!Message, ExchangeMessage
<1>5. Paper!Responses(request) \in Seq(ExchangeMessage)
  <2>1. \A m1 \in ExchangeMessage, m2 \in ExchangeMessage :
            /\ <<m1>> \in Seq(ExchangeMessage)
            /\ <<m1>> \o <<m2>> \in Seq(ExchangeMessage)
            /\ <<m1>> \o <<>> \in Seq(ExchangeMessage)
    BY ConcatProperties, EmptySeq
  <2>. QED
    BY Zenon, <1>1, <1>3, <1>4, <2>1, TransportAssumption DEF Paper!Responses
<1>6. inbound_updates' \in Seq(ExchangeMessage)
  BY Zenon, <1>2, <1>5, ConcatProperties DEF ExchangeInv
<1>. QED
  BY Zenon, <1>3, <1>6 DEF ExchangeInv, liveVars

\* A message of the live exchange about one of its orders.
LEMMA SaySaysMessage ==
    ASSUME ExchangeInv, NEW c \in DOMAIN open_orders, NEW qty \in Int \cup {None},
           NEW type \in {"order_ack", "order_reject", "fill", "order_canceled"},
           Live!Say(type, c, qty)
    PROVE  inbound_updates' \in Seq(ExchangeMessage)
<1> DEFINE message == [type              |-> type,
                       client_order_id   |-> c,
                       exchange_order_id |-> open_orders[c].exchange_order_id,
                       market_ticker     |-> open_orders[c].market_ticker,
                       qty               |-> qty,
                       price             |-> open_orders[c].price,
                       side              |-> None]
<1>1. c \in ClientOrderIds /\ open_orders[c] \in OpenOrder
  BY Zenon DEF ExchangeInv
<1>2. message \in ExchangeMessage
  BY Zenon, <1>1 DEF ExchangeMessage, OpenOrder
<1>3. inbound_updates' = inbound_updates \/ inbound_updates' = Append(inbound_updates, message)
  BY Zenon DEF Live!Say
<1>. QED
  BY <1>2, <1>3, AppendProperties DEF ExchangeInv

\* The live exchange's orders and messages after a request.
LEMMA LiveSendKeepsExchange ==
    ASSUME Unbounded, ExchangeInv, NEW intent \in Intents, IntentIsComplete(intent),
           Live!send_text(build_request(intent))
    PROVE  ExchangeInv'
<1> DEFINE request == build_request(intent)
           target == Live!Target(request)
           places == request.action = "place_order"
           adds == places \/ (request.action = "replace_order" /\ target # None)
           market == IF places THEN request.market_ticker ELSE open_orders[target].market_ticker
           side == IF places THEN request.side ELSE open_orders[target].side
<1>1. /\ request.action \in {"place_order", "cancel_order", "replace_order"}
      /\ places => request.market_ticker \in Markets /\ request.side \in SideNames
      /\ request.action # "cancel_order" =>
             /\ request.client_order_id \in ClientOrderIds
             /\ request.qty \in Int /\ request.limit_price \in Int
  BY Zenon, RequestType
<1>2. target # None => target \in DOMAIN open_orders
  BY Zenon DEF Live!Target
<1>3. /\ next_exchange_order_id' = next_exchange_order_id + (IF adds THEN 1 ELSE 0)
      /\ \/ UNCHANGED inbound_updates
         \/ target # None /\ Live!Say("order_canceled", target, None)
      /\ ~adds => open_orders' = open_orders \/ open_orders' = Live!Without(target)
      /\ adds => \/ open_orders' = Live!WithOrder(open_orders, request, market, side)
                 \/ open_orders' = Live!WithOrder(Live!Without(target), request, market, side)
  BY Zenon DEF Live!send_text
<1>4. inbound_updates' \in Seq(ExchangeMessage)
  BY Zenon, <1>2, <1>3, SaySaysMessage DEF ExchangeInv
<1>5. next_exchange_order_id \in ExchangeOrderIds /\ next_exchange_order_id' \in Nat \ {0}
  BY <1>3 DEF Unbounded, ExchangeInv
<1>6. adds => market \in Markets /\ side \in SideNames
  BY Zenon, <1>1, <1>2 DEF ExchangeInv, OpenOrder
<1> HIDE DEF request, target, market, side
<1>7. /\ DOMAIN Live!Without(target) \subseteq ClientOrderIds
      /\ \A c \in DOMAIN Live!Without(target) : Live!Without(target)[c] \in OpenOrder
  BY Zenon DEF Live!Without, ExchangeInv
<1>8. ASSUME adds, NEW orders, DOMAIN orders \subseteq ClientOrderIds,
             \A c \in DOMAIN orders : orders[c] \in OpenOrder,
             open_orders' = Live!WithOrder(orders, request, market, side)
      PROVE  /\ DOMAIN open_orders' \subseteq ClientOrderIds
             /\ \A c \in DOMAIN open_orders' : open_orders'[c] \in OpenOrder
  <2>1. [exchange_order_id |-> next_exchange_order_id,
         acknowledged      |-> FALSE,
         market_ticker     |-> market,
         side              |-> side,
         price             |-> request.limit_price,
         qty               |-> request.qty,
         remaining         |-> request.qty] \in OpenOrder
    BY Zenon, <1>1, <1>5, <1>6, <1>8 DEF OpenOrder
  <2>2. request.client_order_id \in ClientOrderIds
    BY Zenon, <1>1, <1>8
  <2>. QED
    BY Zenon, <1>8, <2>1, <2>2 DEF Live!WithOrder
<1>9. /\ DOMAIN open_orders' \subseteq ClientOrderIds
      /\ \A c \in DOMAIN open_orders' : open_orders'[c] \in OpenOrder
  <2>1. CASE adds
    BY Zenon, <1>3, <1>7, <1>8, <2>1 DEF ExchangeInv
  <2>2. CASE ~adds
    BY Zenon, <1>3, <1>7, <2>2 DEF ExchangeInv
  <2>. QED
    BY Zenon, <2>1, <2>2
<1>. QED
  BY Zenon, <1>4, <1>5, <1>9 DEF ExchangeInv

\* What the live exchange does on its own.
LEMMA ExchangeStepKeepsExchange ==
    ASSUME ExchangeInv, Live!ExchangeStep
    PROVE  ExchangeInv'
<1>1. ASSUME NEW c \in DOMAIN open_orders, NEW order \in OpenOrder, Live!Settle(c, order)
      PROVE  /\ DOMAIN open_orders' \subseteq ClientOrderIds
             /\ \A d \in DOMAIN open_orders' : open_orders'[d] \in OpenOrder
  BY Zenon, <1>1 DEF Live!Settle, Live!Without, ExchangeInv
<1>2. ASSUME NEW c \in DOMAIN open_orders, Live!Acknowledge(c) PROVE ExchangeInv'
  <2>1. open_orders[c] \in OpenOrder /\ open_orders[c].qty \in Int
    BY Zenon DEF ExchangeInv, OpenOrder
  <2>2. [open_orders[c] EXCEPT !.acknowledged = TRUE] \in OpenOrder
    BY Zenon, <2>1 DEF OpenOrder
  <2>3. inbound_updates' \in Seq(ExchangeMessage)
    BY Zenon, <1>2, <2>1, SaySaysMessage DEF Live!Acknowledge
  <2>. QED
    BY Zenon, <1>1, <1>2, <2>2, <2>3 DEF Live!Acknowledge, ExchangeInv
<1>3. ASSUME NEW c \in DOMAIN open_orders, Live!Refuse(c) PROVE ExchangeInv'
  <2>1. inbound_updates' \in Seq(ExchangeMessage)
    BY Zenon, <1>3, SaySaysMessage DEF Live!Refuse
  <2>. QED
    BY Zenon, <1>3, <2>1 DEF Live!Refuse, Live!Without, ExchangeInv
<1>4. ASSUME NEW c \in DOMAIN open_orders, NEW lots \in 1..open_orders[c].remaining,
             Live!Fill(c, lots)
      PROVE  ExchangeInv'
  <2>1. open_orders[c] \in OpenOrder /\ open_orders[c].remaining \in Int
    BY Zenon DEF ExchangeInv, OpenOrder
  <2>2. [open_orders[c] EXCEPT !.remaining = @ - lots] \in OpenOrder
    BY <2>1 DEF OpenOrder
  <2>3. inbound_updates' \in Seq(ExchangeMessage)
    BY <1>4, <2>1, SaySaysMessage DEF Live!Fill
  <2>. QED
    BY Zenon, <1>1, <1>4, <2>2, <2>3 DEF Live!Fill, ExchangeInv
<1>5. CASE Live!Disconnect
  <2>1. PICK n \in 0..Len(inbound_updates) : inbound_updates' = SubSeq(inbound_updates, 1, n)
    BY Zenon, <1>5 DEF Live!Disconnect
  <2>2. inbound_updates' \in Seq(ExchangeMessage)
    BY <2>1, SubSeqProperties DEF ExchangeInv
  <2>. QED
    BY Zenon, <1>5, <2>2 DEF Live!Disconnect, Live!exchangeVars, ExchangeInv
<1>. QED
  BY Zenon, <1>2, <1>3, <1>4, <1>5 DEF Live!ExchangeStep

\* Connections, reads and everything else the manager does to the transport.
LEMMA TransportKeepsExchange ==
    ASSUME ExchangeInv, connect \/ close \/ recv_text \/ UNCHANGED transportVars
    PROVE  ExchangeInv'
<1>1. CASE connect \/ close
  BY Zenon, <1>1, EmptySeq DEF connect, close, Paper!connect, Live!connect, Paper!close, Live!close,
     Live!exchangeVars, liveVars, ExchangeInv
<1>2. CASE recv_text
  <2>1. inbound_updates # <<>> /\ inbound_updates' = Tail(inbound_updates)
    BY Zenon, <1>2 DEF recv_text, Paper!recv_text, Live!recv_text, Paper!CanReceive, Live!CanReceive
  <2>2. inbound_updates' \in Seq(ExchangeMessage)
    BY Zenon, <2>1, HeadTailProperties DEF ExchangeInv
  <2>. QED
    BY Zenon, <1>2, <2>2 DEF recv_text, Paper!recv_text, Live!recv_text, Live!exchangeVars, liveVars,
       ExchangeInv
<1>3. CASE UNCHANGED transportVars
  BY Zenon, <1>3 DEF transportVars, ExchangeInv
<1>. QED
  BY Zenon, <1>1, <1>2, <1>3

\* Every step keeps the exchange's orders and messages well-formed.
LEMMA ExchangeIsInductive ==
    ASSUME Unbounded, PhaseInv, HoldingsInv, ExchangeInv, [Next]_vars
    PROVE  ExchangeInv'
<1>1. CASE SendIntent
  <2> DEFINE intent == Head(local_intents)
  <2>1. intent \in Intents
    BY Zenon, <1>1, HeadTailProperties DEF SendIntent, PhaseInv, Draining, HoldingsInv
  <2>2. \/ IntentIsComplete(intent) /\ send_text(build_request(intent))
        \/ UNCHANGED transportVars
    BY Zenon, <1>1 DEF SendIntent
  <2>. QED
    BY Zenon, <2>1, <2>2, PaperSendKeepsExchange, LiveSendKeepsExchange, TransportKeepsExchange
       DEF send_text
<1>2. CASE Exchange
  BY Zenon, <1>2, ExchangeStepKeepsExchange DEF Exchange
<1>3. CASE \E s \in Submitters : Submit(s) \/ \E intent \in IntentsOf[s] : SubmitCheck(s, intent)
  BY Zenon, <1>3, TransportKeepsExchange DEF Submit, SubmitCheck, SubmitTrack, SubmitRefuse,
     SubmitEnqueue
<1>4. CASE StartReset \/ StartWorker \/ Stop \/ CheckStop \/ Leave \/ SwapQueue
  BY Zenon, <1>4, TransportKeepsExchange DEF StartReset, StartWorker, Stop, StopRequest, StopClose,
     StopJoin, CheckStop, Leave, SwapQueue
<1>5. CASE EvaluateGlobalRisk \/ EvaluatePortfolioRisk \/ Receive \/ ApplyUpdate \/ NotifySink
  <2>1. recv_text \/ UNCHANGED transportVars
    BY Zenon, <1>5 DEF EvaluateGlobalRisk, EvaluatePortfolioRisk, Receive, ApplyUpdate, NotifySink
  <2>. QED
    BY Zenon, <2>1, TransportKeepsExchange
<1>6. CASE UNCHANGED vars
  BY Zenon, <1>6, TransportKeepsExchange DEF vars
<1>. QED
  BY Zenon, <1>1, <1>2, <1>3, <1>4, <1>5, <1>6 DEF Next, Run

-----------------------------------------------------------------------------
(* The update the worker holds.                                             *)

\* Every tracked order has a side, known or not.
SidesInv == \A c \in Tracked : in_flight_orders[c].side \in Side

PendingInv == worker \in {"apply", "sink"} => pending_update \in OrderStateUpdate

DataInv == ExchangeInv /\ SidesInv /\ PendingInv

\* An update takes its side to the order, or leaves the order's.
LEMMA UpdateKeepsSides ==
    ASSUME SidesInv, NEW update, update.side \in Side, Core!apply_update_transition(update)
    PROVE  SidesInv'
<1> DEFINE id == Core!UpdatedOrderId(update)
<1>1. /\ id \in Tracked
      /\ in_flight_orders' =
             [in_flight_orders EXCEPT ![id] = Core!UpdatedOrder(in_flight_orders[id], update)]
  BY Zenon DEF Core!apply_update_transition, Core!UpdateApplies, Core!Tracked, Tracked
<1>2. Core!UpdatedOrder(in_flight_orders[id], update).side \in Side
  BY Zenon, <1>1 DEF SidesInv, Core!UpdatedOrder
<1> HIDE DEF id
<1>. QED
  BY Zenon, <1>1, <1>2 DEF SidesInv, Tracked

\* Every step leaves the tracked orders with a side.
LEMMA SidesAreInductive ==
    ASSUME PhaseInv, HoldingsInv, SidesInv, PendingInv, [Next]_vars
    PROVE  SidesInv'
<1>1. CASE UNCHANGED coreVars
  BY Zenon, <1>1 DEF SidesInv, Tracked, coreVars
<1>2. ASSUME NEW s \in Submitters, SubmitTrack(s) PROVE SidesInv'
  <2> DEFINE e == submitter[s].intent
  <2>1. e \in OrderIntent /\ Core!validate_and_track_submission(e)
    BY Zenon, <1>2, SubmitterStep, ManagerAssumption DEF SubmitTrack
  <2>2. CASE ~CreatesOrder(e)
    BY Zenon, <2>1, <2>2 DEF Core!validate_and_track_submission, Core!CreatesOrder, CreatesOrder,
       SidesInv, Tracked
  <2>3. CASE CreatesOrder(e)
    <3>1. e.action = "kReplace" => Core!resolved_target_id(e) \in Tracked
      BY Zenon, <2>1 DEF Core!validate_and_track_submission, Core!SubmissionIsValid,
         Core!TargetIsLive, Core!Active, Core!Tracked, Tracked
    <3>2. Core!NewOrder(e).side \in Side
      BY Zenon, <2>1, <3>1 DEF Core!NewOrder, SidesInv, OrderIntent
    <3>3. in_flight_orders' = Core!Put(in_flight_orders, e.client_order_id, Core!NewOrder(e))
      BY Zenon, <2>1, <2>3 DEF Core!validate_and_track_submission, Core!CreatesOrder, CreatesOrder
    <3>. QED
      BY Zenon, <3>2, <3>3 DEF Core!Put, SidesInv, Tracked
  <2>. QED
    BY Zenon, <2>2, <2>3
<1>3. CASE EvaluateGlobalRisk \/ EvaluatePortfolioRisk
  <2>1. UNCHANGED coreVars \/ Core!ApplyRiskReject(Head(local_intents))
    BY Zenon, <1>3 DEF EvaluateGlobalRisk, EvaluatePortfolioRisk
  <2>2. Core!make_risk_reject_update(Head(local_intents)).side \in Side
    BY Zenon DEF Core!make_risk_reject_update, Side
  <2>. QED
    BY Zenon, <1>1, <2>1, <2>2, UpdateKeepsSides DEF Core!ApplyRiskReject, Core!coreVars, coreVars
<1>4. CASE ApplyUpdate
  <2>1. UNCHANGED coreVars \/ Core!apply_update_transition(pending_update)
    BY Zenon, <1>4 DEF ApplyUpdate
  <2>2. pending_update.side \in Side
    BY Zenon, <1>4 DEF ApplyUpdate, PendingInv, OrderStateUpdate
  <2>. QED
    BY Zenon, <1>1, <2>1, <2>2, UpdateKeepsSides
<1>5. CASE StartReset
  BY Zenon, <1>5 DEF StartReset, SidesInv, Tracked
<1>6. CASE \E s \in Submitters : \/ SubmitRefuse(s) \/ SubmitEnqueue(s)
                                 \/ \E intent \in IntentsOf[s] : SubmitCheck(s, intent)
  BY Zenon, <1>1, <1>6 DEF SubmitCheck, SubmitRefuse, SubmitEnqueue
<1>7. CASE StartWorker \/ Stop \/ CheckStop \/ Leave \/ SwapQueue \/ SendIntent \/ Receive
             \/ NotifySink \/ Exchange
  BY Zenon, <1>1, <1>7 DEF StartWorker, Stop, StopRequest, StopClose, StopJoin, CheckStop, Leave,
     SwapQueue, SendIntent, Receive, NotifySink, Exchange
<1>8. CASE UNCHANGED vars
  BY Zenon, <1>1, <1>8 DEF vars
<1>. QED
  BY Zenon, <1>2, <1>3, <1>4, <1>5, <1>6, <1>7, <1>8 DEF Next, Run, Submit

\* The worker holds an update from its receipt to the sink.
LEMMA PendingIsInductive ==
    ASSUME PhaseInv, HoldingsInv, ExchangeInv, SidesInv, PendingInv, [Next]_vars
    PROVE  PendingInv'
<1>1. CASE Receive
  <2>1. CASE CanReceive /\ MessageIsComplete(Head(inbound_updates))
    <3>1. Head(inbound_updates) \in ExchangeMessage
      BY Zenon, <2>1, HeadTailProperties
         DEF CanReceive, Paper!CanReceive, Live!CanReceive, ExchangeInv
    <3>2. pending_update' = parse_update(Head(inbound_updates))
      BY Zenon, <1>1, <2>1 DEF Receive
    <3>. QED
      BY Zenon, <2>1, <3>1, <3>2, ParsedUpdateType DEF PendingInv
  <2>2. CASE ~(CanReceive /\ MessageIsComplete(Head(inbound_updates)))
    BY Zenon, <1>1, <2>2 DEF Receive, PendingInv
  <2>. QED
    BY Zenon, <2>1, <2>2
<1>2. CASE ApplyUpdate
  <2>1. CASE Core!UpdateApplies(pending_update)
    <3>1. pending_update \in OrderStateUpdate
      BY Zenon, <1>2 DEF ApplyUpdate, PendingInv
    <3>2. in_flight_orders[Core!UpdatedOrderId(pending_update)].side \in Side
      BY Zenon, <2>1 DEF Core!UpdateApplies, Core!Tracked, Tracked, SidesInv
    <3>3. Core!EnrichedUpdate(pending_update) \in OrderStateUpdate
      BY Zenon, <3>1, <3>2 DEF Core!EnrichedUpdate, OrderStateUpdate
    <3>. QED
      BY Zenon, <1>2, <2>1, <3>3 DEF ApplyUpdate, PendingInv
  <2>2. CASE ~Core!UpdateApplies(pending_update)
    BY Zenon, <1>2, <2>2 DEF ApplyUpdate, PendingInv
  <2>. QED
    BY Zenon, <2>1, <2>2
<1>3. CASE \/ worker' \notin {"apply", "sink"}
           \/ worker' = worker /\ pending_update' = pending_update
  BY Zenon, <1>3 DEF PendingInv
<1>4. CASE \E s \in Submitters : Submit(s) \/ \E intent \in IntentsOf[s] : SubmitCheck(s, intent)
  BY Zenon, <1>3, <1>4 DEF Submit, SubmitCheck, SubmitTrack, SubmitRefuse, SubmitEnqueue, workerVars
<1>5. CASE StartReset \/ StartWorker \/ Stop \/ CheckStop \/ Leave \/ SwapQueue
  BY Zenon, <1>3, <1>5 DEF StartReset, StartWorker, Stop, StopRequest, StopClose, StopJoin, CheckStop,
     Leave, SwapQueue, workerVars
<1>6. CASE EvaluateGlobalRisk \/ EvaluatePortfolioRisk \/ SendIntent \/ NotifySink
  <2>1. worker' \in {"portfolio", "send", "evaluate", "receive", "check"}
    BY Zenon, <1>6 DEF EvaluateGlobalRisk, EvaluatePortfolioRisk, SendIntent, NotifySink, NextIntent
  <2>. QED
    BY Zenon, <1>3, <2>1
<1>7. CASE Exchange \/ UNCHANGED vars
  BY Zenon, <1>3, <1>7 DEF Exchange, vars, workerVars
<1>. QED
  BY Zenon, <1>1, <1>2, <1>4, <1>5, <1>6, <1>7 DEF Next, Run

\* The data stay well-formed: what the exchange says parses into updates of the
\* declared type, and that is what the worker passes on.
THEOREM DataInvariance ==
    ASSUME Unbounded
    PROVE  Spec => []DataInv
<1>1. Init => DataInv
  <2>1. SUFFICES ASSUME Init PROVE DataInv
    BY Zenon
  <2>2. ExchangeInv
    BY <2>1, EmptySeq DEF Init, TransportInit, Paper!Init, ExchangeInv
  <2>3. SidesInv /\ PendingInv
    BY Zenon, <2>1 DEF Init, SidesInv, PendingInv, Tracked
  <2>. QED
    BY Zenon, <2>2, <2>3 DEF DataInv
<1>2. ManagerInv /\ DataInv /\ [Next]_vars => DataInv'
  BY Zenon, ExchangeIsInductive, SidesAreInductive, PendingIsInductive
     DEF ManagerInv, DataInv
<1>. QED
  BY <1>1, <1>2, ManagerInvariance, PTL DEF Spec

-----------------------------------------------------------------------------
(* The manager implements its core: the intents that wait for their         *)
(* evaluation are the queued ones, and the worker has at most one between   *)
(* the two gates.                                                           *)

\* What is queued changes only with what waits.
LEMMA QueuedFollows ==
    /\ \A e : Unevaluated' = Unevaluated \cup {e} =>
           queued' = IF CreatesOrder(e) THEN queued \cup {e} ELSE queued
    /\ Unevaluated' = Unevaluated => queued' = queued
    /\ \A e : (Unevaluated' \cup {e} = Unevaluated) =>
           /\ queued' \in {queued, queued \ {e}}
           /\ ~CreatesOrder(e) => queued' = queued
BY Zenon DEF queued, CreatesOrder

\* The intent between the gates.
LEMMA CheckedIs ==
    checked = IF worker = "portfolio" /\ CreatesOrder(local_intents[1])
              THEN {local_intents[1]} ELSE {}
BY Zenon DEF checked

\* The same after a step.
LEMMA CheckedIsNext ==
    checked' = IF worker' = "portfolio" /\ CreatesOrder(local_intents'[1])
               THEN {local_intents'[1]} ELSE {}
BY Zenon DEF checked, CreatesOrder

\* submit() adds its intent when it tracks it, and not again when it queues it.
LEMMA SubmitMovesUnevaluated ==
    ASSUME HoldingsInv, NEW s \in Submitters,
           \/ \E intent \in IntentsOf[s] : SubmitCheck(s, intent)
           \/ SubmitTrack(s) \/ SubmitRefuse(s) \/ SubmitEnqueue(s)
    PROVE  /\ SubmitTrack(s) => Unevaluated' = Unevaluated \cup {submitter[s].intent}
           /\ ~SubmitTrack(s) => Unevaluated' = Unevaluated
<1> DEFINE Others == {submitter[t].intent : t \in {u \in Submitters \ {s} : InSubmit(u)}}
           Queue == {outbound_queue[i] : i \in 1..Len(outbound_queue)}
           Batch == {local_intents[i] : i \in
                        (IF worker = "evaluate" THEN 1 ELSE 2)..Len(local_intents)}
           e == submitter[s].intent
<1>1. UNCHANGED workerVars
  BY Zenon DEF SubmitCheck, SubmitTrack, SubmitRefuse, SubmitEnqueue
<1>2. /\ \A t \in Submitters \ {s} : submitter'[t] = submitter[t]
      /\ InSubmit(s)' <=> SubmitTrack(s)
      /\ SubmitTrack(s) => submitter'[s].intent = e
      /\ SubmitEnqueue(s) => InSubmit(s)
  BY Zenon, SubmitterStep
<1>3. ~SubmitEnqueue(s) => ~InSubmit(s) /\ outbound_queue' = outbound_queue
  BY Zenon DEF SubmitCheck, SubmitTrack, SubmitRefuse, InSubmit
<1>4. Unevaluated = Queue \cup Batch \cup Others \cup (IF InSubmit(s) THEN {e} ELSE {})
  BY Zenon DEF Unevaluated, InSubmit
<1>5. Others' = Others /\ Batch' = Batch
  BY Zenon, <1>1, <1>2 DEF workerVars, InSubmit
<1>6. Unevaluated' = Queue' \cup Batch \cup Others
                       \cup (IF InSubmit(s)' THEN {submitter'[s].intent} ELSE {})
  <2>1. Unevaluated' = Queue' \cup Batch' \cup Others'
                         \cup (IF InSubmit(s)' THEN {submitter'[s].intent} ELSE {})
    BY Zenon DEF Unevaluated, InSubmit
  <2>. QED
    BY Zenon, <1>5, <2>1
<1>7. SubmitEnqueue(s) => Queue' = Queue \cup {e}
  <2>1. SUFFICES ASSUME SubmitEnqueue(s) PROVE Queue' = Queue \cup {e}
    BY Zenon
  <2>2. /\ e \in Intents /\ outbound_queue \in Seq(Intents)
        /\ outbound_queue' = Append(outbound_queue, e)
    BY Zenon, <2>1 DEF SubmitEnqueue, HoldingsInv, Submission
  <2>3. /\ Len(outbound_queue) \in Nat
        /\ Len(outbound_queue') = Len(outbound_queue) + 1
        /\ \A i \in 1..Len(outbound_queue) : outbound_queue'[i] = outbound_queue[i]
        /\ outbound_queue'[Len(outbound_queue) + 1] = e
    BY <2>2, AppendProperties, LenProperties
  <2>4. \A i \in 1..Len(outbound_queue') :
            i \in 1..Len(outbound_queue) \/ i = Len(outbound_queue) + 1
    BY <2>3
  <2>5. Len(outbound_queue) + 1 \in 1..Len(outbound_queue')
        /\ 1..Len(outbound_queue) \subseteq 1..Len(outbound_queue')
    BY <2>3
  <2> HIDE DEF e
  <2>. QED
    BY Zenon, <2>3, <2>4, <2>5
<1>8. SubmitEnqueue(s) => ~SubmitTrack(s)
  BY Zenon DEF SubmitEnqueue, SubmitTrack
<1> HIDE DEF Queue, Batch, Others, e
<1>9. CASE SubmitEnqueue(s)
  BY Zenon, <1>2, <1>4, <1>6, <1>7, <1>8, <1>9
<1>10. CASE ~SubmitEnqueue(s)
  <2>1. Queue' = Queue
    BY Zenon, <1>3, <1>10 DEF Queue
  <2>. QED
    BY Zenon, <1>2, <1>3, <1>4, <1>6, <1>10, <2>1 DEF e
<1>. QED
  BY Zenon, <1>9, <1>10

\* The worker takes intents out of the line one by one.
LEMMA WorkerMovesUnevaluated ==
    ASSUME PhaseInv, HoldingsInv, UNCHANGED submitter
    PROVE  /\ SwapQueue => Unevaluated' = Unevaluated
           /\ (local_intents = <<>> /\ UNCHANGED <<local_intents, outbound_queue>>) =>
                  Unevaluated' = Unevaluated
           /\ (UNCHANGED <<local_intents, outbound_queue>> /\ worker \in Draining
                 /\ worker' \in {"portfolio", "send"}) =>
                  Unevaluated' \cup (IF worker = "evaluate" THEN {local_intents[1]} ELSE {})
                      = Unevaluated
           /\ (NextIntent /\ UNCHANGED outbound_queue /\ worker \in Draining) =>
                  Unevaluated' \cup (IF worker = "evaluate" THEN {local_intents[1]} ELSE {})
                      = Unevaluated
<1> DEFINE Queue == {outbound_queue[i] : i \in 1..Len(outbound_queue)}
           Batch(n) == {local_intents[i] : i \in n..Len(local_intents)}
           Others == {submitter[s].intent : s \in {t \in Submitters : InSubmit(t)}}
           first == IF worker = "evaluate" THEN 1 ELSE 2
<1>1. Unevaluated = Queue \cup Batch(first) \cup Others
  BY Zenon DEF Unevaluated, InSubmit
<1>2. Unevaluated' = Queue' \cup Batch(first)' \cup Others
  <2>1. Unevaluated' = Queue' \cup Batch(first)' \cup Others'
    BY Zenon DEF Unevaluated, InSubmit
  <2>2. Others' = Others
    BY Zenon DEF InSubmit
  <2>. QED
    BY Zenon, <2>1, <2>2
<1>3. ASSUME local_intents = <<>> PROVE Batch(1) = {} /\ Batch(2) = {}
  <2>1. Len(local_intents) = 0
    BY Zenon, <1>3, EmptySeq
  <2>. QED
    BY <2>1
<1>4. ASSUME local_intents # <<>> PROVE Batch(1) = Batch(2) \cup {local_intents[1]}
  <2>1. Len(local_intents) \in Nat \ {0}
    BY Zenon, <1>4, EmptySeq, LenProperties DEF HoldingsInv
  <2>2. 1..Len(local_intents) = (2..Len(local_intents)) \cup {1}
    BY <2>1
  <2>. QED
    BY Zenon, <2>2
<1>5. SwapQueue => Unevaluated' = Unevaluated
  <2>1. SUFFICES ASSUME SwapQueue PROVE Unevaluated' = Unevaluated
    BY Zenon
  <2>2. local_intents = <<>> /\ worker # "evaluate"
    BY Zenon, <2>1 DEF SwapQueue, PhaseInv, Draining
  <2>3. local_intents' = outbound_queue /\ outbound_queue' = <<>>
    BY Zenon, <2>1 DEF SwapQueue
  <2>4. Queue' = {} /\ Batch(first) = {}
    <3>1. Len(outbound_queue') = 0
      BY Zenon, <2>3, EmptySeq
    <3>. QED
      BY Zenon, <1>3, <2>2, <3>1
  <2>5. Batch(first)' = Queue
    <3>1. CASE outbound_queue = <<>>
      <4>1. Len(outbound_queue) = 0 /\ Len(local_intents') = 0
        BY Zenon, <2>3, <3>1, EmptySeq
      <4>. QED
        BY <4>1
    <3>2. CASE outbound_queue # <<>>
      BY Zenon, <2>1, <2>3, <3>2 DEF SwapQueue
    <3>. QED
      BY Zenon, <3>1, <3>2
  <2>. QED
    BY Zenon, <1>1, <1>2, <2>4, <2>5
<1>6. (local_intents = <<>> /\ UNCHANGED <<local_intents, outbound_queue>>) =>
          Unevaluated' = Unevaluated
  <2>1. SUFFICES ASSUME local_intents = <<>>, UNCHANGED <<local_intents, outbound_queue>>
                 PROVE  Unevaluated' = Unevaluated
    BY Zenon
  <2>2. Queue' = Queue /\ Batch(first) = {} /\ Batch(first)' = {}
    <3>1. Len(local_intents) = 0 /\ Len(local_intents') = 0
      BY Zenon, <2>1, EmptySeq
    <3>. QED
      BY <2>1, <3>1
  <2>. QED
    BY Zenon, <1>1, <1>2, <2>2
<1>7. ASSUME UNCHANGED <<local_intents, outbound_queue>>, worker \in Draining,
             worker' \in {"portfolio", "send"}
      PROVE  Unevaluated' \cup (IF worker = "evaluate" THEN {local_intents[1]} ELSE {})
                 = Unevaluated
  <2>1. Queue' = Queue /\ Batch(first)' = Batch(2)
    BY Zenon, <1>7
  <2>2. Batch(1) = Batch(2) \cup {local_intents[1]}
    BY Zenon, <1>4, <1>7 DEF PhaseInv
  <2> HIDE DEF Queue, Batch, Others
  <2>. QED
    BY Zenon, <1>1, <1>2, <2>1, <2>2
<1>8. ASSUME NextIntent, UNCHANGED outbound_queue, worker \in Draining
      PROVE  Unevaluated' \cup (IF worker = "evaluate" THEN {local_intents[1]} ELSE {})
                 = Unevaluated
  <2>1. /\ local_intents # <<>> /\ local_intents' = Tail(local_intents)
        /\ local_intents' # <<>> => worker' = "evaluate"
    BY Zenon, <1>8 DEF PhaseInv, NextIntent
  <2>2. /\ Len(local_intents) \in Nat \ {0}
        /\ Len(local_intents') = Len(local_intents) - 1
        /\ \A i \in 1..Len(local_intents') : local_intents'[i] = local_intents[i + 1]
    BY Zenon, <2>1, HeadTailProperties, EmptySeq DEF HoldingsInv
  <2>3. Queue' = Queue
    BY Zenon, <1>8
  <2>4. Batch(first)' = Batch(2)
    <3>1. CASE local_intents' = <<>>
      <4>0. Len(local_intents') = 0
        BY Zenon, <3>1, EmptySeq
      <4>1. Len(local_intents') = 0 /\ Len(local_intents) = 1
        BY <2>2, <4>0
      <4>. QED
        BY <4>1
    <3>2. CASE local_intents' # <<>>
      <4>1. Batch(first)' = {local_intents'[i] : i \in 1..Len(local_intents')}
        BY Zenon, <2>1, <3>2
      <4>2. \A i \in 1..Len(local_intents') :
                i + 1 \in 2..Len(local_intents) /\ local_intents'[i] = local_intents[i + 1]
        BY <2>2
      <4>3. \A j \in 2..Len(local_intents) :
                j - 1 \in 1..Len(local_intents') /\ local_intents'[j - 1] = local_intents[j]
        BY <2>2
      <4>4. {local_intents'[i] : i \in 1..Len(local_intents')} \subseteq Batch(2)
        BY Zenon, <4>2
      <4>5. Batch(2) \subseteq {local_intents'[i] : i \in 1..Len(local_intents')}
        BY Zenon, <4>3
      <4> HIDE DEF Batch
      <4>. QED
        BY Zenon, <4>1, <4>4, <4>5
    <3>. QED
      BY Zenon, <3>1, <3>2
  <2>5. Batch(1) = Batch(2) \cup {local_intents[1]}
    BY Zenon, <1>4, <2>1
  <2> HIDE DEF Queue, Batch, Others
  <2>. QED
    BY Zenon, <1>1, <1>2, <2>3, <2>4, <2>5
<1>. QED
  BY Zenon, <1>5, <1>6, <1>7, <1>8

\* Nothing waits before the first start().
LEMMA CoreInitially == Init => Core!Init
<1>1. SUFFICES ASSUME Init PROVE Core!Init
  BY Zenon
<1>2. Unevaluated = {}
  <2>1. Len(outbound_queue) = 0 /\ Len(local_intents) = 0
    BY Zenon, <1>1, EmptySeq DEF Init
  <2>. QED
    BY <1>1, <2>1 DEF Init, Unevaluated
<1>3. checked = {}
  BY Zenon, <1>1, CheckedIs DEF Init
<1>. QED
  BY Zenon, <1>1, <1>2, <1>3 DEF Init, Core!Init, queued

\* What the portfolio gate reads from the ledger is a snapshot of the declared type.
SnapshotsTyped == \A market : Ledger!portfolio_risk_snapshot(market) \in Snapshots

\* Every step of the manager is a step of the core, or the core does not see it.
LEMMA StepIsCoreStep ==
    ASSUME Unbounded, PhaseInv, HoldingsInv, DataInv, SnapshotsTyped, [Next]_vars
    PROVE  [Core!Next]_(Core!vars)
<1>1. ASSUME UNCHANGED <<coreVars, queued, checked, admitted>> PROVE UNCHANGED Core!vars
  BY Zenon, <1>1 DEF Core!vars, coreVars
<1>2. ASSUME NEW s \in Submitters,
             \/ \E intent \in IntentsOf[s] : SubmitCheck(s, intent)
             \/ SubmitTrack(s) \/ SubmitRefuse(s) \/ SubmitEnqueue(s)
      PROVE  [Core!Next]_(Core!vars)
  <2> DEFINE e == submitter[s].intent
  <2>1. UNCHANGED <<worker, local_intents, admitted>>
    BY Zenon, <1>2 DEF SubmitCheck, SubmitTrack, SubmitRefuse, SubmitEnqueue, workerVars, historyVars
  <2>2. checked' = checked
    BY Zenon, <2>1, CheckedIs, CheckedIsNext
  <2>3. CASE SubmitTrack(s)
    <3>1. e \in Intents /\ Core!validate_and_track_submission(e)
      BY Zenon, <2>3, SubmitterStep DEF SubmitTrack
    <3>2. queued' = IF CreatesOrder(e) THEN queued \cup {e} ELSE queued
      BY Zenon, <2>3, SubmitMovesUnevaluated, QueuedFollows
    <3>3. Core!Submit(e)
      BY Zenon, <2>1, <2>2, <3>1, <3>2 DEF Core!Submit, Core!CreatesOrder, CreatesOrder
    <3>. QED
      BY Zenon, <3>1, <3>3 DEF Core!Next
  <2>4. CASE ~SubmitTrack(s)
    <3>1. queued' = queued
      BY Zenon, <1>2, <2>4, SubmitMovesUnevaluated, QueuedFollows
    <3>2. UNCHANGED coreVars
      BY Zenon, <1>2, <2>4 DEF SubmitCheck, SubmitRefuse, SubmitEnqueue
    <3>. QED
      BY Zenon, <1>1, <2>1, <2>2, <3>1, <3>2
  <2>. QED
    BY Zenon, <2>3, <2>4
<1>3. CASE StartReset
  <2>1. UNCHANGED <<worker, local_intents, outbound_queue, submitter>> /\ worker = "none"
    BY Zenon, <1>3 DEF StartReset, workerVars, submitVars
  <2>2. checked = {} /\ checked' = {}
    BY Zenon, <2>1, CheckedIs, CheckedIsNext
  <2>3. queued' = queued
    BY Zenon, <2>1 DEF queued, Unevaluated, CreatesOrder
  <2>. QED
    BY Zenon, <1>3, <2>2, <2>3 DEF StartReset, Core!reset, Core!Next
<1>4. ASSUME local_intents = <<>>,
             UNCHANGED <<local_intents, outbound_queue, submitter, admitted>>,
             worker # "portfolio", worker' # "portfolio"
      PROVE  UNCHANGED <<queued, checked, admitted>>
  BY Zenon, <1>4, WorkerMovesUnevaluated, QueuedFollows, CheckedIs, CheckedIsNext
<1>5. CASE StartWorker \/ Stop \/ CheckStop \/ Leave \/ Receive \/ NotifySink
  <2>1. /\ local_intents = <<>> \/ worker' = worker
        /\ UNCHANGED <<local_intents, outbound_queue, submitter, admitted, coreVars>>
        /\ worker' \in Draining => worker' = worker
    BY Zenon, <1>5 DEF StartWorker, Stop, StopRequest, StopClose, StopJoin, CheckStop, Leave, Receive,
       NotifySink, workerVars, submitVars, historyVars, PhaseInv, Draining
  <2>2. CASE worker' = worker
    <3>1. UNCHANGED <<queued, checked>>
      BY Zenon, <2>1, <2>2 DEF queued, checked, Unevaluated, CreatesOrder
    <3>. QED
      BY Zenon, <1>1, <2>1, <3>1
  <2>3. CASE worker' # worker
    BY Zenon, <1>1, <1>4, <2>1, <2>3 DEF PhaseInv, Draining
  <2>. QED
    BY Zenon, <2>2, <2>3
<1>6. CASE SwapQueue
  <2>1. UNCHANGED <<coreVars, submitter, admitted>>
    BY Zenon, <1>6 DEF SwapQueue, historyVars
  <2>2. checked = {} /\ checked' = {}
    BY Zenon, <1>6, CheckedIs, CheckedIsNext DEF SwapQueue
  <2>. QED
    BY Zenon, <1>1, <1>6, <2>1, <2>2, WorkerMovesUnevaluated, QueuedFollows
<1>7. CASE ApplyUpdate
  <2>1. /\ local_intents = <<>>
        /\ UNCHANGED <<local_intents, outbound_queue, submitter, admitted>>
        /\ worker # "portfolio" /\ worker' # "portfolio"
    BY Zenon, <1>7 DEF ApplyUpdate, PhaseInv, Draining, submitVars, historyVars
  <2>2. UNCHANGED <<queued, checked, admitted>>
    BY Zenon, <1>4, <2>1
  <2>3. pending_update \in Updates
    BY Zenon, <1>7 DEF ApplyUpdate, DataInv, PendingInv, Unbounded
  <2>4. UNCHANGED coreVars \/ Core!apply_update_transition(pending_update)
    BY Zenon, <1>7 DEF ApplyUpdate
  <2>. QED
    BY Zenon, <1>1, <2>2, <2>3, <2>4 DEF Core!ExchangeUpdate, Core!Next
<1>8. ASSUME worker \in Draining
      PROVE  local_intents # <<>> /\ Head(local_intents) = local_intents[1]
  BY <1>8 DEF PhaseInv
<1>9. CASE EvaluateGlobalRisk
  <2> DEFINE e == local_intents[1]
  <2>1. /\ worker = "evaluate" /\ Head(local_intents) = e
        /\ UNCHANGED <<outbound_queue, submitter>>
    BY Zenon, <1>8, <1>9 DEF EvaluateGlobalRisk, Draining, submitVars
  <2>2. Unevaluated' \cup {e} = Unevaluated /\ e \in Unevaluated
    <3>1. \/ UNCHANGED local_intents /\ worker' = "portfolio"
          \/ NextIntent
      BY Zenon, <1>9 DEF EvaluateGlobalRisk
    <3>. QED
      BY Zenon, <2>1, <3>1, WorkerMovesUnevaluated DEF Draining
  <2>3. /\ queued' \in {queued, queued \ {e}}
        /\ ~CreatesOrder(e) => queued' = queued
        /\ CreatesOrder(e) => e \in queued
    BY Zenon, <2>2, QueuedFollows DEF queued
  <2>4. checked = {}
    BY Zenon, <2>1, CheckedIs
  <2>5. CASE Core!evaluate_global_risk(e)
    <3>1. /\ worker' = "portfolio" /\ UNCHANGED <<coreVars, local_intents>>
          /\ admitted' = IF CreatesOrder(e) /\ e.client_order_id \in DOMAIN in_flight_orders
                         THEN Core!Put(admitted, e.client_order_id,
                                       clamp_non_negative(e.qty_lots))
                         ELSE admitted
      BY Zenon, <1>9, <2>1, <2>5 DEF EvaluateGlobalRisk
    <3>2. checked' = IF CreatesOrder(e) THEN {e} ELSE {}
      BY Zenon, <3>1, CheckedIsNext
    <3> HIDE DEF e
    <3>3. CASE CreatesOrder(e)
      <4>1. Core!GlobalRiskAllow(e)
        BY Zenon, <2>3, <2>4, <2>5, <3>1, <3>2, <3>3
           DEF Core!GlobalRiskAllow, Core!Take, Core!Tracked, Core!coreVars, coreVars,
               Core!clamp_non_negative, clamp_non_negative
      <4>. QED
        BY Zenon, <2>3, <3>3, <4>1 DEF Core!Next
    <3>4. CASE ~CreatesOrder(e)
      BY Zenon, <1>1, <2>3, <2>4, <3>1, <3>2, <3>4
    <3>. QED
      BY Zenon, <3>3, <3>4
  <2>6. CASE ~Core!evaluate_global_risk(e)
    <3>1. /\ NextIntent /\ Core!ApplyRiskReject(e) /\ UNCHANGED admitted
      BY Zenon, <1>9, <2>1, <2>6 DEF EvaluateGlobalRisk
    <3>2. checked' = {}
      BY Zenon, <3>1, CheckedIsNext DEF NextIntent
    <3>3. CreatesOrder(e)
      BY Zenon, <2>6 DEF Core!evaluate_global_risk, Core!GlobalRiskAllows, Core!CreatesOrder,
         CreatesOrder
    <3> HIDE DEF e
    <3>4. Core!GlobalRiskReject(e)
      BY Zenon, <2>3, <2>4, <2>6, <3>1, <3>2, <3>3 DEF Core!GlobalRiskReject, Core!Take
    <3>. QED
      BY Zenon, <2>3, <3>3, <3>4 DEF Core!Next
  <2>. QED
    BY Zenon, <2>5, <2>6
<1>10. CASE EvaluatePortfolioRisk
  <2> DEFINE e == local_intents[1]
             snapshot == Ledger!portfolio_risk_snapshot(e.market_ticker)
  <2>1. /\ worker = "portfolio" /\ Head(local_intents) = e
        /\ UNCHANGED <<outbound_queue, submitter, admitted>>
    BY Zenon, <1>8, <1>10 DEF EvaluatePortfolioRisk, Draining, submitVars, historyVars
  <2>2. queued' = queued
    <3>1. \/ UNCHANGED local_intents /\ worker' = "send"
          \/ NextIntent
      BY Zenon, <1>10 DEF EvaluatePortfolioRisk
    <3>2. Unevaluated' = Unevaluated
      BY ZenonT(30), <2>1, <3>1, WorkerMovesUnevaluated DEF Draining
    <3>. QED
      BY Zenon, <3>2, QueuedFollows
  <2>3. /\ checked = (IF CreatesOrder(e) THEN {e} ELSE {})
        /\ checked' = {}
    BY Zenon, <1>10, <2>1, CheckedIs, CheckedIsNext DEF EvaluatePortfolioRisk, NextIntent
  <2>4. snapshot \in Snapshots
    BY Zenon DEF SnapshotsTyped
  <2>5. \/ Core!evaluate_portfolio_risk(e, snapshot) /\ UNCHANGED coreVars
        \/ ~Core!evaluate_portfolio_risk(e, snapshot) /\ Core!ApplyRiskReject(e)
    BY Zenon, <1>10, <2>1 DEF EvaluatePortfolioRisk
  <2> HIDE DEF e, snapshot
  <2>6. CASE CreatesOrder(e)
    <3>1. e \in checked /\ checked' = checked \ {e}
      BY Zenon, <2>3, <2>6
    <3>2. Core!PortfolioRiskAllow(e, snapshot) \/ Core!PortfolioRiskReject(e, snapshot)
      BY Zenon, <2>1, <2>2, <2>5, <3>1
         DEF Core!PortfolioRiskAllow, Core!PortfolioRiskReject, coreVars
    <3>. QED
      BY Zenon, <2>4, <3>1, <3>2 DEF Core!Next
  <2>7. CASE ~CreatesOrder(e)
    <3>1. UNCHANGED coreVars
      BY Zenon, <2>5, <2>7 DEF Core!evaluate_portfolio_risk, Core!PortfolioRiskAllows,
         Core!CreatesOrder, CreatesOrder
    <3>. QED
      BY Zenon, <1>1, <2>1, <2>2, <2>3, <2>7, <3>1
  <2>. QED
    BY Zenon, <2>6, <2>7
<1>11. CASE SendIntent
  <2>1. /\ worker = "send" /\ NextIntent
        /\ UNCHANGED <<coreVars, outbound_queue, submitter, admitted>>
    BY Zenon, <1>11 DEF SendIntent, submitVars
  <2>2. Unevaluated' = Unevaluated
    BY Zenon, <2>1, WorkerMovesUnevaluated DEF Draining
  <2>3. checked = {} /\ checked' = {}
    BY Zenon, <2>1, CheckedIs, CheckedIsNext DEF NextIntent
  <2>. QED
    BY Zenon, <1>1, <2>1, <2>2, <2>3, QueuedFollows
<1>12. CASE Exchange \/ UNCHANGED vars
  <2>1. UNCHANGED <<coreVars, workerVars, submitVars, admitted>>
    BY <1>12 DEF Exchange, vars, historyVars
  <2>2. UNCHANGED <<queued, checked>>
    BY Zenon, <2>1 DEF workerVars, submitVars, queued, checked, Unevaluated, CreatesOrder
  <2>. QED
    BY Zenon, <1>1, <2>1, <2>2
<1>. QED
  BY Zenon, <1>2, <1>3, <1>5, <1>6, <1>7, <1>9, <1>10, <1>11, <1>12 DEF Next, Run, Submit

=============================================================================
