---------------------- MODULE OrderManagerRefinement ------------------------
(***************************************************************************)
(* The ledger and the core inside the running order manager: the manager   *)
(* keeps the ledger's books and implements the core's specification, so    *)
(* what is proved of either alone holds of it there.                       *)
(***************************************************************************)
EXTENDS OrderManagerDataProofs

-----------------------------------------------------------------------------
(* The ledger, which the worker writes and reads.                          *)

LedgerP == INSTANCE PositionLedgerProofs

\* The ledger's own assumptions hold here.
LEMMA LedgerPremises == Updates \subseteq LedgerP!OrderStateUpdate /\ MaxSubmits \in Nat
BY ZenonT(30), ManagerAssumption DEF OrderStateUpdate, LedgerP!OrderStateUpdate, OmsOrderStatus,
   LedgerP!OmsOrderStatus, Side, LedgerP!Side

\* The ledger is written with the updates the core let through, one by one.
LEMMA LedgerIsInductive ==
    ASSUME PendingInv, LedgerP!IInv, [Next]_vars
    PROVE  LedgerP!IInv'
<1>1. CASE NotifySink /\ Ledger!IsFill(pending_update)
  <2>1. pending_update \in OrderStateUpdate /\ Ledger!apply_fill(pending_update)
    BY ZenonT(30), <1>1 DEF NotifySink, PendingInv
  <2>2. LedgerP!IsFill(pending_update)
    BY ZenonT(30), <1>1 DEF Ledger!IsFill, LedgerP!IsFill, Ledger!SignedFill, LedgerP!SignedFill,
       Ledger!side_to_signed_qty, LedgerP!side_to_signed_qty
  <2>3. LedgerP!apply_fill(pending_update)
    BY ZenonT(30), <2>1 DEF Ledger!apply_fill, LedgerP!apply_fill, Ledger!SignedFill, LedgerP!SignedFill,
       Ledger!side_to_signed_qty, LedgerP!side_to_signed_qty, Ledger!PositionOf,
       LedgerP!PositionOf, Ledger!NoPosition, LedgerP!NoPosition, Ledger!HistoryOf,
       LedgerP!HistoryOf, Ledger!NoHistory, LedgerP!NoHistory, Ledger!PutAt, LedgerP!PutAt,
       Ledger!FilledPosition, LedgerP!FilledPosition, Ledger!AveragePrice,
       LedgerP!AveragePrice, Ledger!SameDirection, LedgerP!SameDirection,
       Ledger!TruncatedQuotient, LedgerP!TruncatedQuotient, Ledger!StillOpen,
       LedgerP!StillOpen, Ledger!ClosedQty, LedgerP!ClosedQty, Ledger!RealizedPnl,
       LedgerP!RealizedPnl, Ledger!FilledHistory, LedgerP!FilledHistory, Ledger!abs_qty,
       LedgerP!abs_qty, Ledger!Min, LedgerP!Min, Ledger!Max, LedgerP!Max
  <2>4. pending_update \in LedgerP!OrderStateUpdate
    BY ZenonT(30), <2>1 DEF OrderStateUpdate, LedgerP!OrderStateUpdate, OmsOrderStatus,
       LedgerP!OmsOrderStatus, Side, LedgerP!Side
  <2>. QED
    BY ZenonT(30), <2>2, <2>3, <2>4, LedgerP!FillKeepsInvariant, LedgerPremises, NoneAssumption
       DEF LedgerUpdates, MaxFills
<1>2. UNCHANGED ledgerVars \/ (NotifySink /\ Ledger!IsFill(pending_update))
  BY ZenonT(30) DEF Next, Run, Submit, SubmitCheck, SubmitTrack, SubmitRefuse, SubmitEnqueue, StartReset,
     StartWorker, Stop, StopRequest, StopClose, StopJoin, CheckStop, Leave, SwapQueue,
     EvaluateGlobalRisk, EvaluatePortfolioRisk, SendIntent, Receive, ApplyUpdate, NotifySink,
     Exchange, vars
<1>3. CASE UNCHANGED ledgerVars
  BY ZenonT(30), <1>3, LedgerP!InvariantWhenQuiet, LedgerPremises, NoneAssumption
     DEF ledgerVars, LedgerP!vars, LedgerUpdates, MaxFills
<1>. QED
  BY ZenonT(30), <1>1, <1>2, <1>3

\* The ledger's inductive invariant, with the updates that the worker takes from
\* the transport.
THEOREM LedgerInvariance ==
    ASSUME Unbounded
    PROVE  Spec => []LedgerP!IInv
<1>1. Init => LedgerP!IInv
  <2>1. SUFFICES ASSUME Init PROVE LedgerP!IInv
    BY ZenonT(30)
  <2>2. LedgerP!Init
    BY ZenonT(30), <2>1 DEF Init, Ledger!Init, LedgerP!Init, Ledger!NoPosition, LedgerP!NoPosition,
       Ledger!NoHistory, LedgerP!NoHistory
  <2>. QED
    BY ZenonT(30), <2>2, LedgerP!InvariantInitially, LedgerPremises, NoneAssumption
       DEF LedgerUpdates, MaxFills
<1>2. DataInv /\ LedgerP!IInv /\ [Next]_vars => LedgerP!IInv'
  BY ZenonT(30), LedgerIsInductive DEF DataInv
<1>. QED
  BY <1>1, <1>2, DataInvariance, PTL DEF Spec

\* The positions of the running manager: they hold exactly the lots filled, at
\* average prices within the prices paid, no profit is made or lost but by the
\* trades, and the totals agree with the markets.
THEOREM LedgerKeepsPromises ==
    ASSUME Unbounded
    PROVE  Spec => [](/\ LedgerP!LotsBalance
                      /\ LedgerP!AverageWithinFills
                      /\ LedgerP!PnlConserved
                      /\ LedgerP!TotalsAgree)
<1>1. LedgerP!IInv => /\ LedgerP!LotsBalance
                      /\ LedgerP!AverageWithinFills
                      /\ LedgerP!PnlConserved
                      /\ LedgerP!TotalsAgree
  BY ZenonT(30) DEF LedgerP!IInv
<1>. QED
  BY <1>1, LedgerInvariance, PTL

\* The ledger's sums, under its two names here.
LEMMA SameSum == \A f : Ledger!SumFunction(f) = LedgerP!SumFunction(f)
BY ZenonT(30) DEF Ledger!SumFunction, LedgerP!SumFunction, Ledger!SumFunctionOnSet,
   LedgerP!SumFunctionOnSet, Ledger!FoldFunctionOnSet, LedgerP!FoldFunctionOnSet,
   Ledger!MapThenFoldSet, LedgerP!MapThenFoldSet

\* The portfolio gate reads integers.
LEMMA SnapshotsAreTyped ==
    ASSUME Unbounded, LedgerP!IInv
    PROVE  SnapshotsTyped
<1>1. \A market : LedgerP!portfolio_risk_snapshot(market) \in Snapshots
  BY ZenonT(30), LedgerP!SnapshotType, LedgerPremises, NoneAssumption
     DEF Unbounded, LedgerUpdates, MaxFills
<1>2. \A market : Ledger!portfolio_risk_snapshot(market) = LedgerP!portfolio_risk_snapshot(market)
  BY ZenonT(30), SameSum DEF Ledger!portfolio_risk_snapshot, LedgerP!portfolio_risk_snapshot,
     Ledger!PositionOf, LedgerP!PositionOf, Ledger!NoPosition, LedgerP!NoPosition,
     Ledger!abs_qty, LedgerP!abs_qty
<1>. QED
  BY ZenonT(30), <1>1, <1>2 DEF SnapshotsTyped

-----------------------------------------------------------------------------
(* The core.                                                               *)

\* CoreSpec: the order manager, with any number of submitting threads, the worker
\* and the controller, implements OrderManagerCore.  What is proved of the core
\* alone holds of the core inside the manager.
THEOREM ManagerImplementsCore ==
    ASSUME Unbounded
    PROVE  Spec => CoreSpec
<1>1. ManagerInv /\ DataInv /\ LedgerP!IInv /\ [Next]_vars => [Core!Next]_(Core!vars)
  BY ZenonT(30), StepIsCoreStep, SnapshotsAreTyped DEF ManagerInv
<1>. QED
  BY <1>1, CoreInitially, ManagerInvariance, DataInvariance, LedgerInvariance, PTL
     DEF Spec, CoreSpec, Core!Spec

CoreP == INSTANCE OrderManagerCoreProofs

\* The core's own assumptions hold here.
LEMMA CorePremises ==
    /\ GlobalRisk \in CoreP!GlobalRiskConfig
    /\ PortfolioRisk \in CoreP!PortfolioRiskConfig
    /\ Intents \subseteq CoreP!OrderIntent
    /\ Updates \subseteq CoreP!OrderStateUpdate
BY ZenonT(30), ManagerAssumption DEF GlobalRiskConfig, CoreP!GlobalRiskConfig, PortfolioRiskConfig,
   CoreP!PortfolioRiskConfig, OrderIntent, CoreP!OrderIntent, OmsAction, CoreP!OmsAction, Side,
   CoreP!Side, OrderStateUpdate, CoreP!OrderStateUpdate, OmsOrderStatus, CoreP!OmsOrderStatus

\* The core has two names here: as the manager's component, and with its proofs.
LEMMA SameCore ==
    /\ Core!Init => CoreP!Init
    /\ [Core!Next]_(Core!vars) => [CoreP!Next]_(CoreP!vars)
<1>1. \A intent : Core!validate_and_track_submission(intent)
                    <=> CoreP!validate_and_track_submission(intent)
  BY ZenonT(30) DEF Core!validate_and_track_submission, CoreP!validate_and_track_submission,
     Core!SubmissionIsValid, CoreP!SubmissionIsValid, Core!TargetIsLive, CoreP!TargetIsLive,
     Core!ReplaceIsFresh, CoreP!ReplaceIsFresh, Core!resolved_target_id,
     CoreP!resolved_target_id, Core!target_by_client_id, CoreP!target_by_client_id,
     Core!target_by_exchange_id, CoreP!target_by_exchange_id, Core!Active, CoreP!Active,
     Core!Tracked, CoreP!Tracked, Core!is_terminal_state, CoreP!is_terminal_state,
     Core!NewOrder, CoreP!NewOrder, Core!CreatesOrder, CoreP!CreatesOrder, Core!Put,
     CoreP!Put
<1>2. \A update : Core!apply_update_transition(update) <=> CoreP!apply_update_transition(update)
  BY ZenonT(30) DEF Core!apply_update_transition, CoreP!apply_update_transition, Core!UpdateApplies,
     CoreP!UpdateApplies, Core!UpdatedOrderId, CoreP!UpdatedOrderId, Core!UpdatedOrder,
     CoreP!UpdatedOrder, Core!FilledQty, CoreP!FilledQty, Core!can_transition,
     CoreP!can_transition, Core!Tracked, CoreP!Tracked, Core!Put, CoreP!Put
<1>3. \A intent : Core!ApplyRiskReject(intent) <=> CoreP!ApplyRiskReject(intent)
  <2>1. \A intent : Core!make_risk_reject_update(intent) = CoreP!make_risk_reject_update(intent)
    BY ZenonT(30) DEF Core!make_risk_reject_update, CoreP!make_risk_reject_update
  <2>2. \A update : Core!UpdateApplies(update) <=> CoreP!UpdateApplies(update)
    BY ZenonT(30) DEF Core!UpdateApplies, CoreP!UpdateApplies, Core!UpdatedOrderId, CoreP!UpdatedOrderId,
       Core!can_transition, CoreP!can_transition, Core!Tracked, CoreP!Tracked
  <2>. QED
    BY ZenonT(30), <1>2, <2>1, <2>2 DEF Core!ApplyRiskReject, CoreP!ApplyRiskReject, Core!coreVars,
       CoreP!coreVars
<1>4. \A f : Core!SumFunction(f) = CoreP!SumFunction(f)
  BY ZenonT(30) DEF Core!SumFunction, CoreP!SumFunction, Core!SumFunctionOnSet, CoreP!SumFunctionOnSet,
     Core!FoldFunctionOnSet, CoreP!FoldFunctionOnSet, Core!MapThenFoldSet,
     CoreP!MapThenFoldSet
<1>5. \A intent : Core!evaluate_global_risk(intent) <=> CoreP!evaluate_global_risk(intent)
  <2>1. \A m, c : Core!build_risk_snapshot(m, c) = CoreP!build_risk_snapshot(m, c)
    <3>1. Core!Active = CoreP!Active
      BY ZenonT(30) DEF Core!Active, CoreP!Active, Core!Tracked, CoreP!Tracked, Core!is_terminal_state,
         CoreP!is_terminal_state
    <3>2. \A ids : Core!OutstandingOf(ids) = CoreP!OutstandingOf(ids)
      BY ZenonT(30), <1>4 DEF Core!OutstandingOf, CoreP!OutstandingOf, Core!outstanding_qty,
         CoreP!outstanding_qty, Core!clamp_non_negative, CoreP!clamp_non_negative
    <3>3. \A S : Core!Cardinality(S) = CoreP!Cardinality(S)
      BY ZenonT(30) DEF Core!Cardinality, CoreP!Cardinality
    <3>. QED
      BY ZenonT(30), <3>1, <3>2, <3>3 DEF Core!build_risk_snapshot, CoreP!build_risk_snapshot
  <2>. QED
    BY ZenonT(30), <2>1 DEF Core!evaluate_global_risk, CoreP!evaluate_global_risk, Core!GlobalRiskAllows,
       CoreP!GlobalRiskAllows, Core!Within, CoreP!Within, Core!clamp_non_negative,
       CoreP!clamp_non_negative, Core!CreatesOrder, CoreP!CreatesOrder
<1>6. \A intent, snapshot : Core!evaluate_portfolio_risk(intent, snapshot)
                              <=> CoreP!evaluate_portfolio_risk(intent, snapshot)
  BY ZenonT(30) DEF Core!evaluate_portfolio_risk, CoreP!evaluate_portfolio_risk,
     Core!PortfolioRiskAllows, CoreP!PortfolioRiskAllows, Core!Within, CoreP!Within,
     Core!signed_intent_qty, CoreP!signed_intent_qty, Core!side_to_signed_qty,
     CoreP!side_to_signed_qty, Core!abs_qty, CoreP!abs_qty, Core!CreatesOrder,
     CoreP!CreatesOrder
<1>7. Core!Next => CoreP!Next
  <2>1. \A intent : Core!Submit(intent) => CoreP!Submit(intent)
    BY ZenonT(30), <1>1 DEF Core!Submit, CoreP!Submit, Core!CreatesOrder, CoreP!CreatesOrder
  <2>2. \A intent : Core!GlobalRiskAllow(intent) => CoreP!GlobalRiskAllow(intent)
    BY ZenonT(30), <1>5 DEF Core!GlobalRiskAllow, CoreP!GlobalRiskAllow, Core!Take, CoreP!Take, Core!Put,
       CoreP!Put, Core!Tracked, CoreP!Tracked, Core!clamp_non_negative,
       CoreP!clamp_non_negative, Core!coreVars, CoreP!coreVars
  <2>3. \A intent : Core!GlobalRiskReject(intent) => CoreP!GlobalRiskReject(intent)
    BY ZenonT(30), <1>3, <1>5 DEF Core!GlobalRiskReject, CoreP!GlobalRiskReject, Core!Take, CoreP!Take
  <2>4. \A intent, snapshot :
            /\ Core!PortfolioRiskAllow(intent, snapshot) =>
                   CoreP!PortfolioRiskAllow(intent, snapshot)
            /\ Core!PortfolioRiskReject(intent, snapshot) =>
                   CoreP!PortfolioRiskReject(intent, snapshot)
    BY ZenonT(30), <1>3, <1>6 DEF Core!PortfolioRiskAllow, CoreP!PortfolioRiskAllow, Core!PortfolioRiskReject,
       CoreP!PortfolioRiskReject
  <2>5. \A update : Core!ExchangeUpdate(update) => CoreP!ExchangeUpdate(update)
    BY ZenonT(30), <1>2 DEF Core!ExchangeUpdate, CoreP!ExchangeUpdate
  <2>6. Core!reset => CoreP!reset
    BY ZenonT(30) DEF Core!reset, CoreP!reset
  <2>. QED
    BY ZenonT(30), <2>1, <2>2, <2>3, <2>4, <2>5, <2>6 DEF Core!Next, CoreP!Next
<1>. QED
  BY ZenonT(30), <1>7 DEF Core!Init, CoreP!Init, Core!vars, CoreP!vars

\* The order table inside the running manager: no index entry and no link
\* dangles, the live orders that passed the global gate stay within its limits, in
\* number and in quantity, and between the resets of start() no order is lost or
\* leaves a terminal status.
THEOREM CoreKeepsPromises ==
    ASSUME Unbounded
    PROVE  Spec => /\ [](/\ CoreP!ReferencesResolve
                         /\ CoreP!AdmittedWithinLimit
                         /\ CoreP!AdmittedQtyWithinLimit)
                   /\ CoreP!OrdersOnlyAdvance
<1>. QED
  BY SameCore, ManagerImplementsCore, CoreP!ReferencesAlwaysResolve, CoreP!AdmissionBound,
     CoreP!AdmittedQtyBound, CoreP!OrdersAdvance, CorePremises, NoneAssumption, PTL
     DEF CoreSpec, Core!Spec, CoreP!Spec
=============================================================================
