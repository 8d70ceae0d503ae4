---------------------------- MODULE OrderManager ----------------------------
(***************************************************************************)
(* The order manager composed with its core, the Kalshi adapter, the paper *)
(* or the live transport and the position ledger, as apps/trader wires     *)
(* them: the ledger is both the event sink and the portfolio snapshot      *)
(* provider.                                                               *)
(*                                                                         *)
(* Threads: any number of submitters call submit(), one worker runs        *)
(* run(), one controller calls start() and stop().  A step is what a       *)
(* thread does up to its next lock, atomic or blocking call.  The ledger   *)
(* is written by the worker alone, so reading the snapshot and evaluating  *)
(* it is one step.  Statistics and error texts are left out.               *)
(***************************************************************************)
EXTENDS OrderTransport, RiskGates, FiniteSetsExt

CONSTANTS
    GlobalRisk, PortfolioRisk,  \* the configurations of the gates
    Submitters,                 \* threads that call submit(): one per shard
    IntentsOf,                  \* submitter -> the intents of its strategy
    Updates, Snapshots,         \* what the core may be told, for its specification
    MaxSubmits,                 \* bound on the number of submissions
    MaxStarts                   \* bound on the number of calls of start(), paper and live

Intents == UNION {IntentsOf[s] : s \in Submitters}

\* a call of submit() past its first checks
Submission == [stage : {"validate", "tracked"}, intent : Intents]

ASSUME ManagerAssumption ==
    /\ GlobalRisk \in GlobalRiskConfig
    /\ PortfolioRisk \in PortfolioRiskConfig
    /\ Intents \subseteq OrderIntent
    /\ None \notin Submission
    /\ Updates \subseteq OrderStateUpdate
    /\ MaxSubmits \in Nat
    /\ MaxStarts \in [BOOLEAN -> Nat]

VARIABLES
    in_flight_orders, exchange_to_client,              \* core_
    positions, realized_pnl_ticks_total,
    closed_position_count, history,                    \* the ledger
    running,           \* running_
    outbound_queue,    \* accepted intents, oldest first
    submitter,         \* thread -> the submission it is in, or None
    worker,            \* where the worker is; "none": not joinable
    local_intents,     \* the batch the worker is draining
    pending_update,    \* the message or update the worker is handling
    stop_requested,    \* the worker's stop token
    controller,        \* where start() or stop() is
    starts, submits,   \* calls so far, for the bounds
    admitted,          \* history of the core: what passed the global gate
    unsent             \* history: orders that passed the gates but were not sent

coreVars == <<in_flight_orders, exchange_to_client>>
ledgerVars == <<positions, realized_pnl_ticks_total, closed_position_count, history>>
workerVars == <<worker, local_intents, pending_update>>
callerVars == <<running, stop_requested, controller, starts>>
submitVars == <<outbound_queue, submitter, submits>>
historyVars == <<admitted, unsent>>
vars == <<coreVars, ledgerVars, transportVars, workerVars, callerVars, submitVars,
          historyVars>>

-----------------------------------------------------------------------------
(* The components, and what the core's owner holds: the intents that wait  *)
(* for their evaluation, and the one past the global gate.                 *)

Unevaluated ==
    {outbound_queue[i] : i \in 1..Len(outbound_queue)}
      \cup {local_intents[i] : i \in
               (IF worker = "evaluate" THEN 1 ELSE 2)..Len(local_intents)}
      \cup {submitter[s].intent : s \in {t \in Submitters :
               submitter[t] # None /\ submitter[t].stage = "tracked"}}

queued == {intent \in Unevaluated : CreatesOrder(intent)}

checked == {intent \in {local_intents[1] : i \in {j \in {1} : worker = "portfolio"}} :
               CreatesOrder(intent)}

LedgerUpdates == Updates

MaxFills == MaxSubmits

Core == INSTANCE OrderManagerCore
Ledger == INSTANCE PositionLedger

-----------------------------------------------------------------------------
(* submit()                                                                *)

\* running() and supports(); a call that fails either returns at once
SubmitCheck(s, intent) ==
    /\ submitter[s] = None
    /\ submits < MaxSubmits
    /\ running
    /\ supports(intent)
    /\ submits' = submits + 1
    /\ submitter' = [submitter EXCEPT ![s] = [stage |-> "validate", intent |-> intent]]
    /\ UNCHANGED <<coreVars, ledgerVars, transportVars, workerVars, callerVars,
                   historyVars, outbound_queue>>

\* under core_mutex_
SubmitTrack(s) ==
    /\ submitter[s] # None /\ submitter[s].stage = "validate"
    /\ Core!validate_and_track_submission(submitter[s].intent)
    /\ submitter' = [submitter EXCEPT ![s].stage = "tracked"]
    /\ UNCHANGED <<ledgerVars, transportVars, workerVars, callerVars, historyVars,
                   outbound_queue, submits>>

SubmitRefuse(s) ==
    /\ submitter[s] # None /\ submitter[s].stage = "validate"
    /\ ~Core!SubmissionIsValid(submitter[s].intent)
    /\ submitter' = [submitter EXCEPT ![s] = None]
    /\ UNCHANGED <<coreVars, ledgerVars, transportVars, workerVars, callerVars,
                   historyVars, outbound_queue, submits>>

\* Faulty variant: the newest intent goes first.
SubmitEnqueue_Front(s) ==
    /\ submitter[s] # None /\ submitter[s].stage = "tracked"
    /\ outbound_queue' = <<submitter[s].intent>> \o outbound_queue
    /\ submitter' = [submitter EXCEPT ![s] = None]
    /\ UNCHANGED <<coreVars, ledgerVars, transportVars, workerVars, callerVars,
                   historyVars, submits>>

\* under queue_mutex_
SubmitEnqueue(s) ==
    /\ submitter[s] # None /\ submitter[s].stage = "tracked"
    /\ outbound_queue' = Append(outbound_queue, submitter[s].intent)
    /\ submitter' = [submitter EXCEPT ![s] = None]
    /\ UNCHANGED <<coreVars, ledgerVars, transportVars, workerVars, callerVars,
                   historyVars, submits>>

-----------------------------------------------------------------------------
(* start() and stop()                                                      *)

\* Faulty variant: the exchange-id index survives the reset.
StartReset_KeepsIndex ==
    /\ controller = "idle" /\ worker = "none" /\ starts < MaxStarts[run_live_oms]
    /\ in_flight_orders' = [c \in {} |-> None]
    /\ admitted' = [c \in {} |-> 0]
    /\ starts' = starts + 1
    /\ controller' = "connecting"
    /\ UNCHANGED <<ledgerVars, transportVars, workerVars, submitVars, running,
                   stop_requested, unsent, exchange_to_client>>

\* The core is reset; the queue of intents is not.
StartReset ==
    /\ controller = "idle" /\ worker = "none" /\ starts < MaxStarts[run_live_oms]
    /\ in_flight_orders' = [c \in {} |-> None]
    /\ exchange_to_client' = [e \in {} |-> None]
    /\ admitted' = [c \in {} |-> 0]
    /\ starts' = starts + 1
    /\ controller' = "connecting"
    /\ UNCHANGED <<ledgerVars, transportVars, workerVars, submitVars, running,
                   stop_requested, unsent>>

\* The worker starts if the transport connects; otherwise start() fails.
StartWorker ==
    /\ controller = "connecting"
    /\ connect
    /\ IF connected' THEN /\ running' = TRUE
                          /\ stop_requested' = FALSE
                          /\ worker' = "check"
       ELSE UNCHANGED <<running, stop_requested, worker>>
    /\ controller' = "idle"
    /\ UNCHANGED <<coreVars, ledgerVars, submitVars, historyVars, local_intents,
                   pending_update, starts>>

StopRequest ==
    /\ controller = "idle" /\ worker # "none"
    /\ stop_requested' = TRUE
    /\ controller' = "closing"
    /\ UNCHANGED <<coreVars, ledgerVars, transportVars, workerVars, submitVars,
                   historyVars, running, starts>>

\* Faulty variant: the transport is left to the worker.
StopClose_LeavesIt ==
    /\ controller = "closing"
    /\ controller' = "joining"
    /\ UNCHANGED <<coreVars, ledgerVars, transportVars, workerVars, submitVars,
                   historyVars, running, stop_requested, starts>>

StopClose ==
    /\ controller = "closing"
    /\ close
    /\ controller' = "joining"
    /\ UNCHANGED <<coreVars, ledgerVars, workerVars, submitVars, historyVars, running,
                   stop_requested, starts>>

StopJoin ==
    /\ controller = "joining" /\ worker = "done"
    /\ worker' = "none"
    /\ running' = FALSE
    /\ controller' = "idle"
    /\ UNCHANGED <<coreVars, ledgerVars, transportVars, submitVars, historyVars,
                   local_intents, pending_update, stop_requested, starts>>

-----------------------------------------------------------------------------
(* run()                                                                   *)

CheckStop ==
    /\ worker = "check"
    /\ worker' = IF stop_requested THEN "closing" ELSE "drain"
    /\ UNCHANGED <<coreVars, ledgerVars, transportVars, callerVars, submitVars,
                   historyVars, local_intents, pending_update>>

Leave ==
    /\ worker = "closing"
    /\ close
    /\ running' = FALSE
    /\ worker' = "done"
    /\ UNCHANGED <<coreVars, ledgerVars, submitVars, historyVars, local_intents,
                   pending_update, stop_requested, controller, starts>>

-----------------------------------------------------------------------------
(* drain_outbound_intents()                                                *)

\* Faulty variant: the queue is copied instead of swapped.
SwapQueue_Copies ==
    /\ worker = "drain"
    /\ local_intents' = outbound_queue
    /\ worker' = IF outbound_queue = <<>> THEN "receive" ELSE "evaluate"
    /\ UNCHANGED <<coreVars, ledgerVars, transportVars, callerVars, historyVars,
                   pending_update, outbound_queue, submitter, submits>>

\* Faulty variant: without intents the loop starts over and receives nothing.
SwapQueue_SkipsReceive ==
    /\ worker = "drain"
    /\ local_intents' = outbound_queue
    /\ outbound_queue' = <<>>
    /\ worker' = IF outbound_queue = <<>> THEN "check" ELSE "evaluate"
    /\ UNCHANGED <<coreVars, ledgerVars, transportVars, callerVars, historyVars,
                   pending_update, submitter, submits>>

\* under queue_mutex_
SwapQueue ==
    /\ worker = "drain"
    /\ local_intents' = outbound_queue
    /\ outbound_queue' = <<>>
    /\ worker' = IF outbound_queue = <<>> THEN "receive" ELSE "evaluate"
    /\ UNCHANGED <<coreVars, ledgerVars, transportVars, callerVars, historyVars,
                   pending_update, submitter, submits>>

\* Done with the intent at the head of the batch.
NextIntent ==
    /\ local_intents' = Tail(local_intents)
    /\ worker' = IF Tail(local_intents) = <<>> THEN "receive" ELSE "evaluate"

\* under core_mutex_
EvaluateGlobalRisk ==
    LET intent == Head(local_intents)
        id     == intent.client_order_id
    IN  /\ worker = "evaluate"
        /\ IF Core!evaluate_global_risk(intent)
           THEN /\ worker' = "portfolio"
                /\ admitted' = IF CreatesOrder(intent) /\ id \in DOMAIN in_flight_orders
                               THEN Core!Put(admitted, id,
                                             clamp_non_negative(intent.qty_lots))
                               ELSE admitted
                /\ UNCHANGED <<coreVars, local_intents>>
           ELSE /\ Core!ApplyRiskReject(intent)
                /\ NextIntent
                /\ UNCHANGED admitted
        /\ UNCHANGED <<ledgerVars, transportVars, callerVars, submitVars,
                       pending_update, unsent>>

\* Faulty variant: the core is not told of a portfolio rejection.
EvaluatePortfolioRisk_Untold ==
    LET intent   == Head(local_intents)
        snapshot == Ledger!portfolio_risk_snapshot(intent.market_ticker)
    IN  /\ worker = "portfolio"
        /\ IF Core!evaluate_portfolio_risk(intent, snapshot)
           THEN /\ worker' = "send"
                /\ UNCHANGED local_intents
           ELSE NextIntent
        /\ UNCHANGED <<coreVars, ledgerVars, transportVars, callerVars, submitVars,
                       historyVars, pending_update>>

\* the ledger's snapshot, then under core_mutex_
EvaluatePortfolioRisk ==
    LET intent   == Head(local_intents)
        snapshot == Ledger!portfolio_risk_snapshot(intent.market_ticker)
    IN  /\ worker = "portfolio"
        /\ IF Core!evaluate_portfolio_risk(intent, snapshot)
           THEN /\ worker' = "send"
                /\ UNCHANGED <<coreVars, local_intents>>
           ELSE /\ Core!ApplyRiskReject(intent)
                /\ NextIntent
        /\ UNCHANGED <<ledgerVars, transportVars, callerVars, submitVars, historyVars,
                       pending_update>>

\* A request that cannot be built or sent is counted and forgotten: its order
\* stays as it is.
SendIntent ==
    LET intent  == Head(local_intents)
        request == build_request(intent)
        id      == intent.client_order_id
    IN  /\ worker = "send"
        /\ NextIntent
        /\ IF IntentIsComplete(intent) /\ SendSucceeds(request)
           THEN /\ send_text(request)
                /\ UNCHANGED unsent
           ELSE /\ unsent' = unsent \cup {id}
                /\ UNCHANGED transportVars
        /\ UNCHANGED <<coreVars, ledgerVars, callerVars, submitVars, pending_update,
                       admitted>>

-----------------------------------------------------------------------------
(* pump_incoming_update()                                                  *)

\* Faulty variant: the worker does not leave without a message.
Receive_UntilMessage ==
    /\ worker = "receive"
    /\ CanReceive
    /\ recv_text
    /\ LET message == Head(inbound_updates)
       IN  IF MessageIsComplete(message)
           THEN pending_update' = parse_update(message) /\ worker' = "apply"
           ELSE worker' = "check" /\ UNCHANGED pending_update
    /\ UNCHANGED <<coreVars, ledgerVars, callerVars, submitVars, historyVars, local_intents>>

\* A message that does not parse is counted and dropped.  The live transport
\* makes the worker wait for one.
Receive ==
    /\ worker = "receive"
    /\ IF CanReceive
       THEN LET message == Head(inbound_updates)
            IN  /\ recv_text
                /\ pending_update' =
                       IF MessageIsComplete(message) THEN parse_update(message) ELSE None
                /\ worker' = IF MessageIsComplete(message) THEN "apply" ELSE "check"
       ELSE /\ ReceiveFails
            /\ worker' = "check"
            /\ UNCHANGED <<transportVars, pending_update>>
    /\ UNCHANGED <<coreVars, ledgerVars, callerVars, submitVars, historyVars, local_intents>>

\* under core_mutex_
ApplyUpdate ==
    /\ worker = "apply"
    /\ IF Core!UpdateApplies(pending_update)
       THEN /\ Core!apply_update_transition(pending_update)
            /\ pending_update' = Core!EnrichedUpdate(pending_update)
            /\ worker' = "sink"
       ELSE /\ pending_update' = None
            /\ worker' = "check"
            /\ UNCHANGED coreVars
    /\ UNCHANGED <<ledgerVars, transportVars, callerVars, submitVars, historyVars,
                   local_intents>>

\* the event sink is the ledger, under its mutex
NotifySink ==
    /\ worker = "sink"
    /\ IF Ledger!IsFill(pending_update)
       THEN Ledger!apply_fill(pending_update)
       ELSE UNCHANGED ledgerVars
    /\ pending_update' = None
    /\ worker' = "check"
    /\ UNCHANGED <<coreVars, transportVars, callerVars, submitVars, historyVars,
                   local_intents>>

-----------------------------------------------------------------------------
(* The specification                                                       *)

Init ==
    /\ in_flight_orders = [c \in {} |-> None]
    /\ exchange_to_client = [e \in {} |-> None]
    /\ Ledger!Init
    /\ TransportInit
    /\ running = FALSE
    /\ outbound_queue = <<>>
    /\ submitter = [s \in Submitters |-> None]
    /\ worker = "none"
    /\ local_intents = <<>>
    /\ pending_update = None
    /\ stop_requested = FALSE
    /\ controller = "idle"
    /\ starts = 0
    /\ submits = 0
    /\ admitted = [c \in {} |-> 0]
    /\ unsent = {}

Submit(s) == SubmitTrack(s) \/ SubmitRefuse(s) \/ SubmitEnqueue(s)

Stop == StopRequest \/ StopClose \/ StopJoin

Run ==
    \/ CheckStop \/ Leave
    \/ SwapQueue \/ EvaluateGlobalRisk \/ EvaluatePortfolioRisk \/ SendIntent
    \/ Receive \/ ApplyUpdate \/ NotifySink

\* The live exchange moves on its own.
Exchange ==
    /\ run_live_oms
    /\ Live!ExchangeStep
    /\ UNCHANGED <<run_live_oms, coreVars, ledgerVars, workerVars, callerVars, submitVars,
                   historyVars>>

Next ==
    \/ \E s \in Submitters : Submit(s) \/ \E intent \in IntentsOf[s] : SubmitCheck(s, intent)
    \/ StartReset \/ StartWorker
    \/ Stop
    \/ Run
    \/ Exchange

Spec == Init /\ [][Next]_vars

\* A thread that is inside a call is scheduled again; nobody is obliged to
\* call submit(), start() or stop().
Fairness ==
    /\ WF_vars(Run)
    /\ WF_vars(StopClose \/ StopJoin)
    /\ \A s \in Submitters : WF_vars(Submit(s))

FairSpec == Spec /\ Fairness

-----------------------------------------------------------------------------
(* Properties                                                              *)

\* The order manager implements OrderManagerCore: whatever its threads do, the
\* core only sees submissions, gate evaluations of queued intents, updates and
\* resets, in an order the core's specification allows.
CoreSpec == Core!Spec

\* lots of market m that the exchange has filled and the ledger has not seen
InTransit(m) ==
    LET SideOf(update) ==
            IF update.side = "kUnknown" /\ update.client_order_id \in DOMAIN in_flight_orders
            THEN in_flight_orders[update.client_order_id].side ELSE update.side
        FillLots(update) ==
            IF update.data = "OrderFill" /\ update.market_ticker = m
            THEN side_to_signed_qty(SideOf(update), update.fill_qty_lots) ELSE 0
    IN  (IF pending_update = None THEN 0 ELSE FillLots(pending_update))
          + SumFunction([i \in {j \in 1..Len(inbound_updates) :
                                   MessageIsComplete(inbound_updates[j])} |->
                            FillLots(parse_update(inbound_updates[i]))])

\* During one session no fill is lost or counted twice between the exchange
\* and the ledger, whatever is submitted and whenever stop() is called; live,
\* as long as the connection lasts.  An order may be filled in parts, before or
\* after its acknowledgement: the adapter reports every part as kFilled, and the
\* core lets a repeated terminal status through to the ledger.
LedgerMatchesExchange ==
    (starts <= 1 /\ link # "broken") =>
        \A m \in Markets :
            Ledger!PositionOf(m).net_qty_lots + InTransit(m) = executed[m]

\* During one session, with one live order per market, the position at the
\* exchange never exceeds max_abs_net_position_per_market: the portfolio gate
\* projects the ledger, and the global gate keeps out a second order until the
\* first has reached it.  (An exchange that fills in parts is left out: after
\* the first part the core takes the order for filled and forgets the rest.)
PositionWithinLimit ==
    (/\ starts <= 1
     /\ ~(run_live_oms /\ fills_in_parts)
     /\ GlobalRisk.max_active_orders_per_market = 1
     /\ PortfolioRisk.max_abs_net_position_per_market > 0) =>
        \A m \in Markets :
            abs_qty(executed[m]) <= PortfolioRisk.max_abs_net_position_per_market

\* During one session the exchange accepts at most one order under a client id.
PlacedAtMostOnce ==
    starts <= 1 => \A c \in ClientOrderIds : placements[c] <= 1

\* An order the core tracks reaches a terminal status, unless the manager is
\* stopped first or its request could not be sent (such an order stays kPending
\* until the next start()).  The paper exchange fills at once.
OrdersSettle ==
    (auto_fill_on_place /\ ~run_live_oms) =>
        \A c \in ClientOrderIds :
            c \in Core!Active ~> (c \notin Core!Active \/ stop_requested \/ c \in unsent)

\* While the manager runs, the ledger catches up with what the exchange filled.
\* (A fill received after a restart belongs to no tracked order and is dropped;
\* a live connection that breaks is not made again.)
LedgerCatchesUp ==
    \A m \in Markets :
        starts <= 1 /\ executed[m] # Ledger!PositionOf(m).net_qty_lots
          ~> \/ executed[m] = Ledger!PositionOf(m).net_qty_lots
             \/ stop_requested \/ link = "broken"

\* An intent in the queue is taken out, unless the manager is stopped first or
\* the worker waits in recv_text() for an exchange that has nothing to say: the
\* live transport's read blocks, and the queue waits behind it.
IntentsWaitForExchangeOnly ==
    outbound_queue # <<>>
        ~> \/ outbound_queue = <<>> \/ stop_requested
           \/ worker = "receive" /\ link = "open" /\ inbound_updates = <<>>

\* stop() returns, and leaves the manager not running and the transport closed,
\* wherever the worker and the submitters are when it is called.
StopReturns ==
    controller = "closing" ~> (controller = "idle" /\ ~running /\ ~connected)
=============================================================================
