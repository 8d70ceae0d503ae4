------------------------------ MODULE RiskGates -----------------------------
(***************************************************************************)
(* The stateless risk gates of the order manager and of the strategies:    *)
(* does the gate allow an intent, given its configuration and a snapshot?  *)
(* The order in which the code tries its limits only selects the wording   *)
(* of the rejection, so a gate is the conjunction of its checks. A limit   *)
(* of 0 disables a check.                                                  *)
(***************************************************************************)
EXTENDS OmsTypes

GlobalRiskConfig ==
    [max_active_orders_global       : Nat,
     max_active_orders_per_market   : Nat,
     max_outstanding_qty_global     : Int,
     max_outstanding_qty_per_market : Int]

PortfolioRiskConfig ==
    [max_abs_net_position_per_market : Int,
     max_abs_position_gross_global   : Int,
     min_realized_pnl_ticks          : Int,
     enforce_realized_pnl_floor      : BOOLEAN]

ShardRiskConfig ==
    [max_open_orders_per_market      : Nat,
     max_working_qty_per_market      : Int,
     max_abs_net_position_per_market : Int]

clamp_non_negative(value) == IF value > 0 THEN value ELSE 0

\* "max > 0 && value > max" is a rejection
Within(value, max) == max > 0 => value <= max

-----------------------------------------------------------------------------

\* Faulty variant: the quantity limits ignore the intent's own quantity.
GlobalRiskAllows_OwnQtyIgnored(config, intent, snapshot) ==
    CreatesOrder(intent) =>
        /\ Within(snapshot.active_orders_global + 1, config.max_active_orders_global)
        /\ Within(snapshot.active_orders_market + 1, config.max_active_orders_per_market)
        /\ Within(snapshot.outstanding_qty_global, config.max_outstanding_qty_global)
        /\ Within(snapshot.outstanding_qty_market, config.max_outstanding_qty_per_market)

\* GlobalRiskGate::evaluate.  An action that creates no order is allowed.
GlobalRiskAllows(config, intent, snapshot) ==
    CreatesOrder(intent) =>
        LET intent_qty == clamp_non_negative(intent.qty_lots)
        IN  /\ Within(snapshot.active_orders_global + 1,
                      config.max_active_orders_global)
            /\ Within(snapshot.active_orders_market + 1,
                      config.max_active_orders_per_market)
            /\ Within(snapshot.outstanding_qty_global + intent_qty,
                      config.max_outstanding_qty_global)
            /\ Within(snapshot.outstanding_qty_market + intent_qty,
                      config.max_outstanding_qty_per_market)

\* PortfolioRiskGate::evaluate.  It projects the ledger's position by the
\* intent alone: orders already at the exchange are not part of the snapshot.
PortfolioRiskAllows(config, intent, snapshot) ==
    CreatesOrder(intent) =>
        LET net       == snapshot.net_position_market
            projected == net + signed_intent_qty(intent)
            gross     == snapshot.gross_position_global
                           - abs_qty(net) + abs_qty(projected)
        IN  /\ config.enforce_realized_pnl_floor =>
                   snapshot.realized_pnl_ticks_total >= config.min_realized_pnl_ticks
            /\ signed_intent_qty(intent) # 0
            /\ Within(abs_qty(projected), config.max_abs_net_position_per_market)
            /\ Within(gross, config.max_abs_position_gross_global)

\* ShardRiskGate::evaluate, before an intent leaves its shard.  Cancels pass;
\* an action that is none of the three does not.
ShardRiskAllows(config, intent, snapshot) ==
    \/ intent.action = "kCancel"
    \/ /\ CreatesOrder(intent)
       /\ signed_intent_qty(intent) # 0
       /\ Within(snapshot.open_orders_market + 1, config.max_open_orders_per_market)
       /\ Within(snapshot.working_qty_market + intent.qty_lots,
                 config.max_working_qty_per_market)
       /\ Within(abs_qty(snapshot.net_position_market + signed_intent_qty(intent)),
                 config.max_abs_net_position_per_market)
=============================================================================
