-------------------------- MODULE OrderManagerCore --------------------------
(***************************************************************************)
(* OrderManagerCore: the in-flight order table of the order manager, the   *)
(* exchange-id index, the submission policy, the status transition         *)
(* relation and the two risk evaluations.                                  *)
(*                                                                         *)
(* The core is a passive object whose owner calls it under one mutex, so   *)
(* every call is one step.  The specification lets the owner submit any    *)
(* intent of Intents, evaluate accepted intents in any order, and deliver  *)
(* any update of Updates at any time: duplicated, reordered, for the wrong *)
(* order or for none.  OrderManager refines it.                            *)
(*                                                                         *)
(* The statistics counters, which no code path reads, are left out; a call *)
(* that only counts a rejection is a stuttering step here.                 *)
(***************************************************************************)
EXTENDS RiskGates, FiniteSetsExt

CONSTANTS
    GlobalRisk,       \* GlobalRiskConfig of the gate
    PortfolioRisk,    \* PortfolioRiskConfig of the gate
    Intents,          \* the intents the strategies may submit
    Updates,          \* the updates the exchange may send
    Snapshots         \* the portfolio snapshots the ledger may report

ASSUME CoreAssumption ==
    /\ GlobalRisk \in GlobalRiskConfig
    /\ PortfolioRisk \in PortfolioRiskConfig
    /\ Intents \subseteq OrderIntent
    /\ Updates \subseteq OrderStateUpdate

VARIABLES
    in_flight_orders,    \* client id -> InFlightOrder (tracked ids only)
    exchange_to_client,  \* exchange id -> client id (known ids only)
    queued,              \* accepted order-creating intents not yet evaluated
    checked,             \* those past the global gate, before the portfolio one
    admitted             \* history: client id -> quantity the global gate passed

coreVars == <<in_flight_orders, exchange_to_client>>
vars == <<in_flight_orders, exchange_to_client, queued, checked, admitted>>

-----------------------------------------------------------------------------
(* Order status                                                            *)

InFlightStatus ==
    {"kPending", "kAccepted", "kPartiallyFilled", "kFilled",
     "kCanceled", "kRejected", "kReplaced"}

InFlightOrder ==
    [status                         : InFlightStatus,
     exchange_order_id              : ExchangeOrderIds \cup {None},
     replace_target_client_order_id : ClientOrderIds \cup {None},
     market_ticker                  : Markets \cup {None},
     side                           : Side,
     requested_qty_lots             : Int,
     filled_qty_lots                : Int]

is_terminal_state(status) == status \in {"kFilled", "kCanceled", "kRejected"}

\* Faulty variant: a late rejection reopens a filled order.
can_transition_LateReject(current, next) ==
    \/ current = next
    \/ current \in {"kPending", "kReplaced", "kAccepted", "kPartiallyFilled", "kFilled"}
         /\ next \notin {"kPending", "kUnknown"}

\* Faulty variant: a repeated status is refused.
can_transition_NoRepeat(current, next) ==
    \/ /\ current \in {"kPending", "kReplaced"}
       /\ next \in {"kAccepted", "kPartiallyFilled", "kFilled", "kCanceled", "kRejected"}
    \/ /\ current = "kAccepted"
       /\ next \in {"kPartiallyFilled", "kFilled", "kCanceled", "kRejected", "kReplaced"}
    \/ /\ current = "kPartiallyFilled"
       /\ next \in {"kFilled", "kCanceled", "kRejected", "kReplaced"}

\* A repeated status is always accepted, also a terminal one.
can_transition(current, next) ==
    \/ current = next
    \/ /\ current \in {"kPending", "kReplaced"}
       /\ next \in {"kAccepted", "kPartiallyFilled", "kFilled", "kCanceled", "kRejected"}
    \/ /\ current = "kAccepted"
       /\ next \in {"kPartiallyFilled", "kFilled", "kCanceled", "kRejected", "kReplaced"}
    \/ /\ current = "kPartiallyFilled"
       /\ next \in {"kFilled", "kCanceled", "kRejected", "kReplaced"}

outstanding_qty(order) ==
    IF order.requested_qty_lots <= 0 THEN 0
    ELSE clamp_non_negative(order.requested_qty_lots
                              - clamp_non_negative(order.filled_qty_lots))

Tracked == DOMAIN in_flight_orders

Active == {c \in Tracked : ~is_terminal_state(in_flight_orders[c].status)}

\* f with key mapped to value, inserted or overwritten
Put(f, key, value) ==
    [k \in DOMAIN f \cup {key} |-> IF k = key THEN value ELSE f[k]]

-----------------------------------------------------------------------------
(* validate_and_track_submission                                           *)

\* A cancel without a target cancels the order of its own client id.
target_by_client_id(intent) ==
    IF intent.target_client_order_id = None /\ intent.action = "kCancel"
    THEN intent.client_order_id
    ELSE intent.target_client_order_id

target_by_exchange_id(intent) ==
    IF intent.target_exchange_order_id \in DOMAIN exchange_to_client
    THEN exchange_to_client[intent.target_exchange_order_id]
    ELSE None

resolved_target_id(intent) ==
    IF target_by_client_id(intent) # None
    THEN target_by_client_id(intent)
    ELSE target_by_exchange_id(intent)

TargetIsLive(intent) ==
    LET by_client   == target_by_client_id(intent)
        by_exchange == target_by_exchange_id(intent)
    IN  /\ intent.target_exchange_order_id # None => by_exchange # None
        /\ (by_client # None /\ by_exchange # None) => by_client = by_exchange
        /\ resolved_target_id(intent) \in Active

ReplaceIsFresh(intent) ==
    LET target_market == in_flight_orders[resolved_target_id(intent)].market_ticker
    IN  /\ intent.client_order_id \notin Tracked
        /\ (intent.market_ticker # None /\ target_market # None) =>
               intent.market_ticker = target_market

\* Faulty variant: the empty client id is not refused.
SubmissionIsValid_EmptyId(intent) ==
    \/ intent.action = "kPlace" /\ intent.client_order_id \notin Tracked
    \/ intent.action = "kCancel" /\ TargetIsLive(intent)
    \/ intent.action = "kReplace" /\ TargetIsLive(intent) /\ ReplaceIsFresh(intent)

SubmissionIsValid(intent) ==
    /\ intent.client_order_id # None
    /\ \/ intent.action = "kPlace" /\ intent.client_order_id \notin Tracked
       \/ intent.action = "kCancel" /\ TargetIsLive(intent)
       \/ intent.action = "kReplace" /\ TargetIsLive(intent) /\ ReplaceIsFresh(intent)

\* A replacement inherits what its intent leaves open from its target.
NewOrder(intent) ==
    LET target == in_flight_orders[resolved_target_id(intent)]
        Inherits(isOpen) == intent.action = "kReplace" /\ isOpen
    IN  [status                         |-> "kPending",
         exchange_order_id              |-> None,
         replace_target_client_order_id |->
             IF intent.action = "kReplace" THEN resolved_target_id(intent) ELSE None,
         market_ticker                  |->
             IF Inherits(intent.market_ticker = None)
             THEN target.market_ticker ELSE intent.market_ticker,
         side                           |->
             IF Inherits(intent.side = "kUnknown")
             THEN target.side ELSE intent.side,
         requested_qty_lots             |->
             IF Inherits(intent.qty_lots <= 0)
             THEN target.requested_qty_lots ELSE intent.qty_lots,
         filled_qty_lots                |-> 0]

\* A cancel is validated but not tracked.
validate_and_track_submission(intent) ==
    /\ SubmissionIsValid(intent)
    /\ in_flight_orders' =
           IF CreatesOrder(intent)
           THEN Put(in_flight_orders, intent.client_order_id, NewOrder(intent))
           ELSE in_flight_orders
    /\ UNCHANGED exchange_to_client

-----------------------------------------------------------------------------
(* apply_update_transition                                                 *)

\* The order an update is about: by client id, else through the index.
UpdatedOrderId(update) ==
    IF update.client_order_id \notin Tracked
         /\ update.exchange_order_id \in DOMAIN exchange_to_client
    THEN exchange_to_client[update.exchange_order_id]
    ELSE update.client_order_id

UpdateApplies(update) ==
    /\ update.status # "kUnknown"
    /\ UpdatedOrderId(update) \in Tracked
    /\ can_transition(in_flight_orders[UpdatedOrderId(update)].status, update.status)

\* A fill without a side takes the order's; the event sink sees this update.
EnrichedUpdate(update) ==
    IF update.data = "OrderFill" /\ update.side = "kUnknown"
    THEN [update EXCEPT !.side = in_flight_orders[UpdatedOrderId(update)].side]
    ELSE update

FilledQty(order, update) ==
    IF update.data # "OrderFill" THEN order.filled_qty_lots
    ELSE IF update.status = "kFilled" /\ order.requested_qty_lots > 0
    THEN order.requested_qty_lots
    ELSE IF update.fill_qty_lots > order.filled_qty_lots
    THEN update.fill_qty_lots
    ELSE order.filled_qty_lots

UpdatedOrder(order, update) ==
    [status |-> update.status,
     exchange_order_id |->
         IF update.exchange_order_id # None
         THEN update.exchange_order_id ELSE order.exchange_order_id,
     replace_target_client_order_id |-> order.replace_target_client_order_id,
     market_ticker |->
         IF update.market_ticker # None
         THEN update.market_ticker ELSE order.market_ticker,
     side |->
         IF update.data = "OrderFill" /\ order.side = "kUnknown"
         THEN update.side ELSE order.side,
     requested_qty_lots |-> order.requested_qty_lots,
     filled_qty_lots |-> FilledQty(order, update)]

\* Faulty variant: the index is fed from the update's own client id.
apply_update_transition_RawId(update) ==
    LET id == UpdatedOrderId(update)
    IN  /\ UpdateApplies(update)
        /\ in_flight_orders' =
               [in_flight_orders EXCEPT ![id] = UpdatedOrder(@, update)]
        /\ exchange_to_client' =
               IF update.exchange_order_id # None
               THEN Put(exchange_to_client, update.exchange_order_id, update.client_order_id)
               ELSE exchange_to_client

apply_update_transition(update) ==
    LET id == UpdatedOrderId(update)
    IN  /\ UpdateApplies(update)
        /\ in_flight_orders' =
               [in_flight_orders EXCEPT ![id] = UpdatedOrder(@, update)]
        /\ exchange_to_client' =
               IF update.exchange_order_id # None
               THEN Put(exchange_to_client, update.exchange_order_id, id)
               ELSE exchange_to_client

-----------------------------------------------------------------------------
(* Risk evaluation                                                         *)

OutstandingOf(ids) ==
    SumFunction([c \in ids |-> outstanding_qty(in_flight_orders[c])])

\* Faulty variant: orders without an acknowledgement do not count.
build_risk_snapshot_AckedOnly(market_ticker, skip_client_order_id) ==
    LET others == {c \in Active \ {skip_client_order_id} :
                      in_flight_orders[c].status # "kPending"}
        market == {c \in others : in_flight_orders[c].market_ticker = market_ticker}
    IN  [active_orders_global   |-> Cardinality(others),
         active_orders_market   |-> Cardinality(market),
         outstanding_qty_global |-> OutstandingOf(others),
         outstanding_qty_market |-> OutstandingOf(market)]

\* Every tracked live order but the one being evaluated counts, also those
\* still waiting for their own evaluation.
build_risk_snapshot(market_ticker, skip_client_order_id) ==
    LET others == Active \ {skip_client_order_id}
        market == {c \in others : /\ market_ticker # None
                                  /\ in_flight_orders[c].market_ticker = market_ticker}
    IN  [active_orders_global   |-> Cardinality(others),
         active_orders_market   |-> Cardinality(market),
         outstanding_qty_global |-> OutstandingOf(others),
         outstanding_qty_market |-> OutstandingOf(market)]

evaluate_global_risk(intent) ==
    GlobalRiskAllows(GlobalRisk, intent,
        build_risk_snapshot(intent.market_ticker, intent.client_order_id))

evaluate_portfolio_risk(intent, snapshot) ==
    PortfolioRiskAllows(PortfolioRisk, intent, snapshot)

make_risk_reject_update(intent) ==
    [status            |-> "kRejected",
     client_order_id   |-> intent.client_order_id,
     exchange_order_id |-> None,
     market_ticker     |-> intent.market_ticker,
     data              |-> "OrderReject",
     fill_qty_lots     |-> 0,
     fill_price_ticks  |-> 0,
     side              |-> "kUnknown"]

\* A risk rejection is applied like an update of the exchange; when the
\* transition is refused the update is dropped.
ApplyRiskReject(intent) ==
    LET update == make_risk_reject_update(intent)
    IN  IF UpdateApplies(update)
        THEN apply_update_transition(update)
        ELSE UNCHANGED coreVars

-----------------------------------------------------------------------------
(* The specification                                                       *)

Init ==
    /\ in_flight_orders = [c \in {} |-> None]
    /\ exchange_to_client = [e \in {} |-> None]
    /\ queued = {}
    /\ checked = {}
    /\ admitted = [c \in {} |-> 0]

Submit(intent) ==
    /\ validate_and_track_submission(intent)
    /\ queued' = IF CreatesOrder(intent) THEN queued \cup {intent} ELSE queued
    /\ UNCHANGED <<checked, admitted>>

\* The owner's one worker takes an intent from the queue once it is done with
\* the one before.  Equal intents of two sessions can be queued together, so
\* one may be left.
Take(intent) ==
    /\ checked = {}
    /\ intent \in queued
    /\ queued' \in {queued, queued \ {intent}}

GlobalRiskAllow(intent) ==
    /\ Take(intent)
    /\ evaluate_global_risk(intent)
    /\ checked' = checked \cup {intent}
    /\ admitted' = IF intent.client_order_id \in Tracked
                   THEN Put(admitted, intent.client_order_id,
                            clamp_non_negative(intent.qty_lots))
                   ELSE admitted
    /\ UNCHANGED coreVars

GlobalRiskReject(intent) ==
    /\ Take(intent)
    /\ ~evaluate_global_risk(intent)
    /\ ApplyRiskReject(intent)
    /\ UNCHANGED <<checked, admitted>>

PortfolioRiskAllow(intent, snapshot) ==
    /\ intent \in checked
    /\ evaluate_portfolio_risk(intent, snapshot)
    /\ checked' = checked \ {intent}
    /\ UNCHANGED <<in_flight_orders, exchange_to_client, queued, admitted>>

PortfolioRiskReject(intent, snapshot) ==
    /\ intent \in checked
    /\ ~evaluate_portfolio_risk(intent, snapshot)
    /\ ApplyRiskReject(intent)
    /\ checked' = checked \ {intent}
    /\ UNCHANGED <<queued, admitted>>

ExchangeUpdate(update) ==
    /\ apply_update_transition(update)
    /\ UNCHANGED <<queued, checked, admitted>>

\* The owner resets the core when it starts a session.  Intents still queued
\* from the session before stay queued, and their orders are forgotten.
reset ==
    /\ checked = {}
    /\ in_flight_orders' = [c \in {} |-> None]
    /\ exchange_to_client' = [e \in {} |-> None]
    /\ admitted' = [c \in {} |-> 0]
    /\ UNCHANGED <<queued, checked>>

Next ==
    \/ \E intent \in Intents : Submit(intent)
    \/ \E intent \in queued : GlobalRiskAllow(intent) \/ GlobalRiskReject(intent)
    \/ \E intent \in checked, snapshot \in Snapshots :
          PortfolioRiskAllow(intent, snapshot) \/ PortfolioRiskReject(intent, snapshot)
    \/ \E update \in Updates : ExchangeUpdate(update)
    \/ reset

Spec == Init /\ [][Next]_vars

-----------------------------------------------------------------------------
(* Properties                                                              *)

\* Type invariant of the order table, the index and the history variables.
TypeOK ==
    /\ Tracked \subseteq ClientOrderIds
    /\ in_flight_orders \in [Tracked -> InFlightOrder]
    /\ DOMAIN exchange_to_client \subseteq ExchangeOrderIds
    /\ exchange_to_client \in [DOMAIN exchange_to_client -> ClientOrderIds]
    /\ queued \subseteq Intents
    /\ checked \subseteq Intents
    /\ admitted \in [DOMAIN admitted -> Nat]

\* Every id the core stores leads to a tracked order: whatever updates arrive,
\* an index entry never dangles, an order that knows its exchange id can be
\* found by it, and a replacement's target is still there to be looked up.
ReferencesResolve ==
    /\ \A e \in DOMAIN exchange_to_client : exchange_to_client[e] \in Tracked
    /\ \A c \in Tracked :
          /\ in_flight_orders[c].exchange_order_id # None =>
                 in_flight_orders[c].exchange_order_id \in DOMAIN exchange_to_client
          /\ in_flight_orders[c].replace_target_client_order_id # None =>
                 in_flight_orders[c].replace_target_client_order_id \in Tracked \ {c}

AdmittedActive == DOMAIN admitted \cap Active

\* The number of live orders that passed the global gate never exceeds
\* max_active_orders_global, although submissions, evaluations and exchange
\* updates interleave freely between one evaluation and the next.
AdmittedWithinLimit ==
    GlobalRisk.max_active_orders_global > 0 =>
        Cardinality(AdmittedActive) <= GlobalRisk.max_active_orders_global

\* What those orders can still be filled for, as far as the gate was told of
\* it, stays within max_outstanding_qty_global across partial fills,
\* replacements and intents left over from an earlier session.  (The gate is
\* not told the quantity a replacement inherits from its target.)
AdmittedQtyWithinLimit ==
    GlobalRisk.max_outstanding_qty_global > 0 =>
        SumFunction([c \in AdmittedActive |->
                        Min({outstanding_qty(in_flight_orders[c]), admitted[c]})])
            <= GlobalRisk.max_outstanding_qty_global

\* order c survives the step, and moves forward if it moves
Advances(c) ==
    /\ c \in DOMAIN in_flight_orders'
    /\ is_terminal_state(in_flight_orders[c].status) =>
           in_flight_orders'[c].status = in_flight_orders[c].status
    /\ outstanding_qty(in_flight_orders'[c]) <= outstanding_qty(in_flight_orders[c])

\* Outside a reset, no call forgets an order, a terminal order keeps its status
\* for ever, and the quantity an order can still be filled for never grows
\* back: what the risk snapshot has released is never taken again.
OrdersOnlyAdvance == [][reset \/ \A c \in Tracked : Advances(c)]_vars
=============================================================================
