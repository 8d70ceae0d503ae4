--------------------------- MODULE StrategyRunner ---------------------------
(***************************************************************************)
(* The strategy side in front of the order manager: on every shard thread  *)
(* a MarketFilterEventHandler and a StrategyRunner with its shard risk     *)
(* gate, all shards sharing one OrderManagerIntentSink.                    *)
(*                                                                         *)
(* The strategies are external: an event may make one return any of its    *)
(* decisions.  An event of a filtered market, and one on which the         *)
(* strategy throws, change nothing.                                        *)
(***************************************************************************)
EXTENDS OrderManager

CONSTANTS
    ShardRisk,        \* ShardRiskConfig
    allowed_markets,  \* the configured tickers; none: every market
    MarketsOf,        \* submitter -> the markets the router sends to its shard
    DecisionsOf,      \* submitter -> the decisions of its strategy: sequences of intents
    MaxEvents         \* bound on the number of events

\* Faulty variant: the market is left open.
WithDefaults_MarketLeftOpen(intent, market_ticker) == intent

\* An intent that leaves its market open is about the event's.
WithDefaults(intent, market_ticker) ==
    IF intent.market_ticker = None
    THEN [intent EXCEPT !.market_ticker = market_ticker]
    ELSE intent

ASSUME StrategyAssumption ==
    /\ ShardRisk \in ShardRiskConfig
    /\ MaxEvents \in Nat
    /\ allowed_markets \subseteq Markets
    /\ \A s \in Submitters :
           /\ MarketsOf[s] \subseteq Markets
           /\ DecisionsOf[s] \subseteq Seq(OrderIntent)
           /\ \A m \in MarketsOf[s], d \in DecisionsOf[s] :
                 \A i \in 1..Len(d) : WithDefaults(d[i], m) \in IntentsOf[s]
           /\ MaxEvents * Max({Len(d) : d \in DecisionsOf[s]}) <= MaxSubmits

\* The strategies are external; they cancel and replace the orders of their own
\* thread only: no other strategy's client ids are known to them.
ASSUME OwnTargets ==
    \A s, t \in Submitters : s # t =>
        \A a \in IntentsOf[s], b \in IntentsOf[t] :
            (a.action # "kPlace" /\ CreatesOrder(b)) =>
                Core!target_by_client_id(a) # b.client_order_id

VARIABLES
    handling,    \* submitter -> the event's market and the intents still to be handled
    events       \* events so far, for the bound

runnerVars == <<handling, events>>
strategyVars == <<vars, runnerVars>>

-----------------------------------------------------------------------------

\* MarketFilterEventHandler::on_event
IsAllowed(market_ticker) == allowed_markets = {} \/ market_ticker \in allowed_markets

\* LedgerShardRiskSnapshotProvider: orders that work at the exchange are not
\* in the ledger and are reported as none.
snapshot_for(market_ticker) ==
    [open_orders_market  |-> 0,
     working_qty_market  |-> 0,
     net_position_market |-> Ledger!PositionOf(market_ticker).net_qty_lots]

\* StrategyRunner::on_event up to the strategy's decision
OnEvent(s, market_ticker, decision) ==
    /\ events < MaxEvents
    /\ submitter[s] = None /\ handling[s].intents = <<>>
    /\ IsAllowed(market_ticker)
    /\ events' = events + 1
    /\ handling' = [handling EXCEPT ![s] =
                       [market_ticker |-> market_ticker, intents |-> decision]]
    /\ UNCHANGED vars

\* One turn of the loop over the decision's intents, up to submit()'s first
\* lock.  An intent that the gate or submit() refuses is passed over.
HandleIntent(s) ==
    LET intent == WithDefaults(Head(handling[s].intents), handling[s].market_ticker)
    IN  /\ submitter[s] = None /\ handling[s].intents # <<>>
        /\ handling' = [handling EXCEPT ![s].intents = Tail(@)]
        /\ IF /\ ShardRiskAllows(ShardRisk, intent, snapshot_for(intent.market_ticker))
              /\ running /\ supports(intent)
           THEN SubmitCheck(s, intent)
           ELSE UNCHANGED vars
        /\ UNCHANGED events

-----------------------------------------------------------------------------
(* The specification                                                       *)

StrategyInit ==
    /\ Init
    /\ handling = [s \in Submitters |-> [market_ticker |-> None, intents |-> <<>>]]
    /\ events = 0

\* The order manager's own steps.
ManagerStep ==
    /\ \/ \E s \in Submitters : Submit(s)
       \/ StartReset \/ StartWorker \/ Stop \/ Run \/ Exchange
    /\ UNCHANGED runnerVars

StrategyNext ==
    \/ \E s \in Submitters :
           \/ \E m \in MarketsOf[s], d \in DecisionsOf[s] : OnEvent(s, m, d)
           \/ HandleIntent(s)
    \/ ManagerStep

StrategySpec == StrategyInit /\ [][StrategyNext]_strategyVars

-----------------------------------------------------------------------------
(* Properties                                                              *)

\* The live orders of a market that passed the global gate stay within
\* max_active_orders_per_market, replacements included.  The gate itself counts
\* by the market the intent names, and a replacement may name none
\* (build_risk_snapshot): the limit holds because the runner fills the event's
\* market in before it submits.  (In the first session: afterwards an intent
\* left in the queue may be evaluated for an order of another market that took
\* its client id.)
MarketLimitHolds ==
    (starts <= 1 /\ GlobalRisk.max_active_orders_per_market > 0) =>
        \A m \in Markets :
            Cardinality({c \in Core!Active \cap DOMAIN admitted :
                            in_flight_orders[c].market_ticker = m})
              <= GlobalRisk.max_active_orders_per_market

\* A cancel or a replacement never goes to the exchange ahead of the order it
\* is about: while it waits for the worker, no intent that creates its target
\* waits behind it or is still on its way into the queue.  (In the first session:
\* start() forgets the orders and keeps the queue.)  An order is tracked,
\* and can be named by a cancel, before it is queued (submit() takes two locks);
\* the order is kept because the strategy that knows the order runs on the
\* thread that submits it.
CancelFollowsPlace ==
    LET waiting == local_intents \o outbound_queue
        Creates(intent, c) == CreatesOrder(intent) /\ intent.client_order_id = c
    IN  starts <= 1 => \A i \in 1..Len(waiting) :
            LET target == IF waiting[i].action = "kPlace" THEN None
                          ELSE Core!target_by_client_id(waiting[i])
            IN  /\ \A j \in i + 1..Len(waiting) : ~Creates(waiting[j], target)
                /\ \A s \in Submitters :
                       (submitter[s] # None /\ submitter[s].stage = "tracked") =>
                           ~Creates(submitter[s].intent, target)
=============================================================================
