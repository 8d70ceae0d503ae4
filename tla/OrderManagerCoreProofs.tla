----------------------- MODULE OrderManagerCoreProofs -----------------------
EXTENDS OrderManagerCore, FiniteSums, TLAPS

\* The updates the core receives are of the declared type: those of the
\* exchange by assumption, a risk rejection because its intent is.
LEMMA RiskRejectType ==
    ASSUME NEW intent \in Intents
    PROVE  make_risk_reject_update(intent) \in OrderStateUpdate
BY CoreAssumption DEF make_risk_reject_update, OrderStateUpdate, OrderIntent,
    OmsOrderStatus, Side

\* apply_update_transition writes a well-formed order back.
LEMMA UpdatedOrderType ==
    ASSUME NEW order \in InFlightOrder, NEW update \in OrderStateUpdate,
           update.status # "kUnknown"
    PROVE  UpdatedOrder(order, update) \in InFlightOrder
<1>1. FilledQty(order, update) \in Int
  BY Zenon DEF FilledQty, InFlightOrder, OrderStateUpdate
<1>2. update.status \in InFlightStatus
  BY Zenon DEF OrderStateUpdate, OmsOrderStatus, InFlightStatus
<1>. QED
  BY Zenon, <1>1, <1>2 DEF UpdatedOrder, InFlightOrder, OrderStateUpdate

\* An accepted transition never leaves a terminal status, and never makes an
\* order fillable for more than before.
LEMMA UpdatedOrderAdvances ==
    ASSUME NEW order \in InFlightOrder, NEW update \in OrderStateUpdate,
           can_transition(order.status, update.status)
    PROVE  /\ is_terminal_state(order.status) =>
                  UpdatedOrder(order, update).status = order.status
           /\ outstanding_qty(UpdatedOrder(order, update)) <= outstanding_qty(order)
<1>1. is_terminal_state(order.status) => update.status = order.status
  BY Zenon DEF can_transition, is_terminal_state
<1>2. /\ UpdatedOrder(order, update).requested_qty_lots = order.requested_qty_lots
      /\ UpdatedOrder(order, update).filled_qty_lots = FilledQty(order, update)
      /\ UpdatedOrder(order, update).status = update.status
  BY Zenon DEF UpdatedOrder
<1>3. /\ order.requested_qty_lots \in Int
      /\ order.filled_qty_lots \in Int
      /\ update.fill_qty_lots \in Int
  BY Zenon DEF InFlightOrder, OrderStateUpdate
<1>4. \/ FilledQty(order, update) = order.filled_qty_lots
      \/ /\ FilledQty(order, update) = order.requested_qty_lots
         /\ order.requested_qty_lots > 0
      \/ /\ FilledQty(order, update) = update.fill_qty_lots
         /\ update.fill_qty_lots > order.filled_qty_lots
  BY Zenon DEF FilledQty
<1>5. outstanding_qty(UpdatedOrder(order, update)) <= outstanding_qty(order)
  BY <1>2, <1>3, <1>4 DEF outstanding_qty, clamp_non_negative
<1>. QED
  BY Zenon, <1>1, <1>2, <1>5

\* An accepted submission tracks exactly the order it creates, under a fresh
\* id, and touches nothing else.
LEMMA TrackStep ==
    ASSUME TypeOK, ReferencesResolve, NEW intent \in Intents,
           validate_and_track_submission(intent)
    PROVE  /\ Tracked' = Tracked \cup
                   (IF CreatesOrder(intent) THEN {intent.client_order_id} ELSE {})
           /\ CreatesOrder(intent) => intent.client_order_id \in ClientOrderIds \ Tracked
           /\ \A c \in Tracked : in_flight_orders'[c] = in_flight_orders[c]
           /\ in_flight_orders' \in [Tracked' -> InFlightOrder]
           /\ exchange_to_client' = exchange_to_client
           /\ ReferencesResolve'
<1> DEFINE id == intent.client_order_id
<1>1. /\ intent \in OrderIntent
      /\ SubmissionIsValid(intent)
      /\ exchange_to_client' = exchange_to_client
  BY Zenon, CoreAssumption DEF validate_and_track_submission
<1>2. CASE ~CreatesOrder(intent)
  BY Zenon, <1>1, <1>2 DEF validate_and_track_submission, TypeOK, Tracked, ReferencesResolve
<1>3. CASE CreatesOrder(intent)
  <2>1. id \in ClientOrderIds \ Tracked
    BY Zenon, <1>1, <1>3 DEF SubmissionIsValid, CreatesOrder, ReplaceIsFresh, OrderIntent
  <2>2. in_flight_orders' = Put(in_flight_orders, id, NewOrder(intent))
    BY Zenon, <1>3 DEF validate_and_track_submission
  <2>3. /\ Tracked' = Tracked \cup {id}
        /\ in_flight_orders'[id] = NewOrder(intent)
        /\ \A c \in Tracked : in_flight_orders'[c] = in_flight_orders[c]
    BY Zenon, <2>1, <2>2 DEF Put, Tracked
  <2>4. intent.action = "kReplace" =>
            /\ resolved_target_id(intent) \in Tracked
            /\ in_flight_orders[resolved_target_id(intent)] \in InFlightOrder
    BY Zenon, <1>1 DEF SubmissionIsValid, TargetIsLive, Active, TypeOK
  <2>5. /\ NewOrder(intent) \in InFlightOrder
        /\ NewOrder(intent).exchange_order_id = None
        /\ \/ NewOrder(intent).replace_target_client_order_id = None
           \/ NewOrder(intent).replace_target_client_order_id \in Tracked
    BY <1>1, <2>4 DEF NewOrder, InFlightOrder, OrderIntent, InFlightStatus, TypeOK
  <2>6. in_flight_orders' \in [Tracked' -> InFlightOrder]
    <3>1. in_flight_orders' = [c \in Tracked' |-> in_flight_orders'[c]]
      BY Zenon, <2>2 DEF Put, Tracked
    <3>2. \A c \in Tracked' : in_flight_orders'[c] \in InFlightOrder
      BY Zenon, <2>3, <2>5 DEF TypeOK
    <3>. QED
      BY Zenon, <3>1, <3>2
  <2>7. ReferencesResolve'
    BY Zenon, <1>1, <2>1, <2>3, <2>5 DEF ReferencesResolve
  <2>. QED
    BY Zenon, <1>1, <1>3, <2>1, <2>3, <2>6, <2>7
<1>. QED
  BY Zenon, <1>2, <1>3

\* An applied update changes one tracked order, advances it, and indexes it
\* under the exchange id the update carries.
LEMMA UpdateStep ==
    ASSUME TypeOK, ReferencesResolve, NEW update \in OrderStateUpdate,
           apply_update_transition(update)
    PROVE  /\ Tracked' = Tracked
           /\ in_flight_orders' \in [Tracked -> InFlightOrder]
           /\ DOMAIN exchange_to_client' \subseteq ExchangeOrderIds
           /\ exchange_to_client' \in [DOMAIN exchange_to_client' -> ClientOrderIds]
           /\ ReferencesResolve'
           /\ \A c \in Tracked :
                 /\ is_terminal_state(in_flight_orders[c].status) =>
                        in_flight_orders'[c].status = in_flight_orders[c].status
                 /\ outstanding_qty(in_flight_orders'[c])
                        <= outstanding_qty(in_flight_orders[c])
<1> DEFINE id == UpdatedOrderId(update)
           old == in_flight_orders[id]
           e == update.exchange_order_id
<1>1. /\ id \in Tracked
      /\ update.status # "kUnknown"
      /\ can_transition(old.status, update.status)
      /\ in_flight_orders' = [in_flight_orders EXCEPT ![id] = UpdatedOrder(old, update)]
  BY Zenon DEF apply_update_transition, UpdateApplies
<1>2. /\ in_flight_orders \in [Tracked -> InFlightOrder]
      /\ old \in InFlightOrder
      /\ Tracked \subseteq ClientOrderIds
  BY Zenon, <1>1 DEF TypeOK
<1>3. /\ Tracked' = Tracked
      /\ in_flight_orders'[id] = UpdatedOrder(old, update)
      /\ \A c \in Tracked \ {id} : in_flight_orders'[c] = in_flight_orders[c]
  BY Zenon, <1>1, <1>2 DEF Tracked
<1>4. UpdatedOrder(old, update) \in InFlightOrder
  BY Zenon, <1>1, <1>2, UpdatedOrderType
<1>5. in_flight_orders' \in [Tracked -> InFlightOrder]
  BY Zenon, <1>1, <1>2, <1>4
<1>6. \A c \in Tracked : outstanding_qty(in_flight_orders[c]) \in Int
  BY <1>2 DEF outstanding_qty, clamp_non_negative, InFlightOrder
<1>7. \A c \in Tracked :
         /\ is_terminal_state(in_flight_orders[c].status) =>
                in_flight_orders'[c].status = in_flight_orders[c].status
         /\ outstanding_qty(in_flight_orders'[c]) <= outstanding_qty(in_flight_orders[c])
  <2>1. /\ is_terminal_state(old.status) => UpdatedOrder(old, update).status = old.status
        /\ outstanding_qty(UpdatedOrder(old, update)) <= outstanding_qty(old)
    BY Zenon, <1>1, <1>2, UpdatedOrderAdvances
  <2>. QED
    BY <1>3, <1>6, <2>1
<1>8. /\ DOMAIN exchange_to_client \subseteq DOMAIN exchange_to_client'
      /\ DOMAIN exchange_to_client' \subseteq ExchangeOrderIds
      /\ e # None => e \in DOMAIN exchange_to_client'
      /\ \A k \in DOMAIN exchange_to_client' : exchange_to_client'[k] \in Tracked
      /\ exchange_to_client' \in [DOMAIN exchange_to_client' -> ClientOrderIds]
  <2>1. e \in ExchangeOrderIds \cup {None}
    BY Zenon DEF OrderStateUpdate
  <2>2. CASE e = None
    BY Zenon, <2>2, <1>2 DEF apply_update_transition, TypeOK, ReferencesResolve
  <2>3. CASE e # None
    <3>1. exchange_to_client' = Put(exchange_to_client, e, id)
      BY Zenon, <2>3 DEF apply_update_transition
    <3>2. /\ DOMAIN exchange_to_client' = DOMAIN exchange_to_client \cup {e}
          /\ exchange_to_client'[e] = id
          /\ \A k \in DOMAIN exchange_to_client \ {e} :
                exchange_to_client'[k] = exchange_to_client[k]
      BY Zenon, <3>1, <2>3 DEF Put
    <3>3. \A k \in DOMAIN exchange_to_client' : exchange_to_client'[k] \in Tracked
      BY Zenon, <3>2, <1>1 DEF ReferencesResolve
    <3>4. exchange_to_client' = [k \in DOMAIN exchange_to_client' |-> exchange_to_client'[k]]
      BY Zenon, <3>1 DEF Put
    <3>5. DOMAIN exchange_to_client' \subseteq ExchangeOrderIds
      BY Zenon, <2>1, <2>3, <3>2 DEF TypeOK
    <3>. QED
      BY Zenon, <1>2, <3>2, <3>3, <3>4, <3>5
  <2>. QED
    BY Zenon, <2>2, <2>3
<1>9. ReferencesResolve'
  <2>1. \A c \in Tracked :
           /\ \/ in_flight_orders'[c].exchange_order_id = in_flight_orders[c].exchange_order_id
              \/ in_flight_orders'[c].exchange_order_id = e /\ e # None
           /\ in_flight_orders'[c].replace_target_client_order_id
                = in_flight_orders[c].replace_target_client_order_id
    BY <1>3 DEF UpdatedOrder
  <2>. QED
    BY Zenon, <1>3, <1>8, <2>1 DEF ReferencesResolve
<1>. QED
  BY Zenon, <1>3, <1>5, <1>7, <1>8, <1>9

-----------------------------------------------------------------------------
(* The inductive invariant.  The admission bound alone is not inductive: a  *)
(* submission must not revive an admitted id, which it cannot because       *)
(* admitted ids are tracked and a submission's is not; and only order-      *)
(* creating intents, which the gate does not wave through, are queued.      *)

Custody ==
    /\ IsFiniteSet(Tracked)
    /\ DOMAIN admitted \subseteq Tracked
    /\ \A intent \in queued : CreatesOrder(intent)

IInv == TypeOK /\ ReferencesResolve /\ Custody /\ AdmittedWithinLimit

\* A step that admits nobody and revives nobody keeps the bound.
LEMMA AdmittedShrinks ==
    ASSUME Custody, AdmittedWithinLimit, AdmittedActive' \subseteq AdmittedActive
    PROVE  AdmittedWithinLimit'
<1>1. IsFiniteSet(AdmittedActive)
  <2>1. AdmittedActive \subseteq Tracked
    BY Zenon DEF AdmittedActive, Active
  <2>. QED
    BY Zenon, <2>1, FS_Subset DEF Custody
<1>2. /\ Cardinality(AdmittedActive') <= Cardinality(AdmittedActive)
      /\ Cardinality(AdmittedActive') \in Nat
      /\ Cardinality(AdmittedActive) \in Nat
  BY Zenon, <1>1, FS_Subset, FS_CardinalityType
<1>. QED
  BY <1>2, CoreAssumption DEF AdmittedWithinLimit, GlobalRiskConfig

\* The gate's own check pays for the order it lets through.
LEMMA AllowKeepsBound ==
    ASSUME IInv, NEW intent \in Intents, CreatesOrder(intent), GlobalRiskAllow(intent)
    PROVE  AdmittedWithinLimit'
<1> DEFINE c == intent.client_order_id
           others == Active \ {c}
           max == GlobalRisk.max_active_orders_global
<1>1. max \in Nat
  BY Zenon, CoreAssumption DEF GlobalRiskConfig
<1>2. IsFiniteSet(others)
  <2>1. others \subseteq Tracked
    BY Zenon DEF Active
  <2>. QED
    BY Zenon, <2>1, FS_Subset DEF IInv, Custody
<1>3. Cardinality(others) \in Nat
  BY Zenon, <1>2, FS_CardinalityType
<1>4. max > 0 => Cardinality(others) + 1 <= max
  BY Zenon DEF GlobalRiskAllow, evaluate_global_risk, GlobalRiskAllows,
         build_risk_snapshot, Within
<1>5. /\ IsFiniteSet(others \cup {c})
      /\ Cardinality(others \cup {c}) <= Cardinality(others) + 1
  <2>1. /\ IsFiniteSet(others \cup {c})
        /\ Cardinality(others \cup {c}) =
               IF c \in others THEN Cardinality(others) ELSE Cardinality(others) + 1
    BY <1>2, FS_AddElement, Zenon
  <2>. QED
    BY <1>3, <2>1
<1>6. AdmittedActive' \subseteq others \cup {c}
  BY Zenon DEF GlobalRiskAllow, Put, AdmittedActive, Active, Tracked, coreVars
<1>7. /\ Cardinality(AdmittedActive') <= Cardinality(others \cup {c})
      /\ Cardinality(AdmittedActive') \in Nat
      /\ Cardinality(others \cup {c}) \in Nat
  BY Zenon, <1>5, <1>6, FS_Subset, FS_CardinalityType
<1>. QED
  BY <1>1, <1>3, <1>4, <1>5, <1>7 DEF AdmittedWithinLimit

\* An applied update, or a dropped one, keeps the whole invariant.
LEMMA UpdateKeepsInvariant ==
    ASSUME IInv, NEW update \in OrderStateUpdate,
           apply_update_transition(update) \/ UNCHANGED coreVars,
           queued' \subseteq queued, checked' \subseteq checked, admitted' = admitted
    PROVE  IInv'
<1>1. CASE UNCHANGED coreVars
  <2>1. TypeOK' /\ ReferencesResolve' /\ Custody'
    BY Zenon, <1>1 DEF IInv, TypeOK, ReferencesResolve, Custody, Tracked, coreVars
  <2>2. AdmittedActive' \subseteq AdmittedActive
    BY Zenon, <1>1 DEF AdmittedActive, Active, Tracked, coreVars
  <2>. QED
    BY Zenon, <2>1, <2>2, AdmittedShrinks DEF IInv
<1>2. CASE apply_update_transition(update)
  <2>1. /\ Tracked' = Tracked
        /\ in_flight_orders' \in [Tracked -> InFlightOrder]
        /\ DOMAIN exchange_to_client' \subseteq ExchangeOrderIds
        /\ exchange_to_client' \in [DOMAIN exchange_to_client' -> ClientOrderIds]
        /\ ReferencesResolve'
        /\ \A c \in Tracked :
              is_terminal_state(in_flight_orders[c].status) =>
                  in_flight_orders'[c].status = in_flight_orders[c].status
    BY Zenon, <1>2, UpdateStep DEF IInv
  <2>2. TypeOK' /\ Custody'
    BY Zenon, <2>1 DEF IInv, TypeOK, Custody
  <2>3. AdmittedActive' \subseteq AdmittedActive
    BY Zenon, <2>1 DEF AdmittedActive, Active
  <2>. QED
    BY Zenon, <2>1, <2>2, <2>3, AdmittedShrinks DEF IInv
<1>. QED
  BY Zenon, <1>1, <1>2

\* validate_and_track_submission and the push onto the queue keep the invariant.
LEMMA SubmitKeepsInvariant ==
    ASSUME IInv, NEW intent \in Intents, Submit(intent)
    PROVE  IInv'
<1>1. /\ Tracked' = Tracked \cup
             (IF CreatesOrder(intent) THEN {intent.client_order_id} ELSE {})
      /\ CreatesOrder(intent) => intent.client_order_id \in ClientOrderIds \ Tracked
      /\ \A c \in Tracked : in_flight_orders'[c] = in_flight_orders[c]
      /\ in_flight_orders' \in [Tracked' -> InFlightOrder]
      /\ exchange_to_client' = exchange_to_client
      /\ ReferencesResolve'
  BY Zenon, TrackStep DEF IInv, Submit
<1>2. TypeOK'
  BY Zenon, <1>1 DEF IInv, TypeOK, Submit
<1>3. Custody'
  <2>1. IsFiniteSet(Tracked')
    <3>1. CASE CreatesOrder(intent)
      BY Zenon, <1>1, <3>1, FS_AddElement DEF IInv, Custody
    <3>2. CASE ~CreatesOrder(intent)
      <4>1. Tracked' = Tracked
        BY Zenon, <1>1, <3>2
      <4>. QED
        BY Zenon, <4>1 DEF IInv, Custody
    <3>. QED
      BY Zenon, <3>1, <3>2
  <2>. QED
    BY Zenon, <1>1, <2>1 DEF IInv, Custody, Submit
<1>4. AdmittedActive' \subseteq AdmittedActive
  BY Zenon, <1>1 DEF IInv, Custody, AdmittedActive, Active, Submit
<1>. QED
  BY Zenon, <1>1, <1>2, <1>3, <1>4, AdmittedShrinks DEF IInv

\* A reset forgets every order, also those of intents that stay queued.
LEMMA ResetKeepsInvariant == IInv /\ reset => IInv'
<1> SUFFICES ASSUME IInv, reset PROVE IInv'
  BY Zenon
<1>1. Tracked' = {} /\ AdmittedActive' = {}
  BY Zenon DEF reset, Tracked, AdmittedActive, Active
<1>2. IsFiniteSet(Tracked') /\ Cardinality(AdmittedActive') = 0
  BY Zenon, <1>1, FS_EmptySet
<1>3. TypeOK' /\ ReferencesResolve' /\ Custody'
  BY Zenon, <1>1, <1>2 DEF IInv, TypeOK, ReferencesResolve, Custody, reset
<1>. QED
  BY <1>2, <1>3, CoreAssumption DEF IInv, AdmittedWithinLimit, GlobalRiskConfig

\* A new core satisfies the invariant.
LEMMA InvariantHoldsInitially == Init => IInv
<1> SUFFICES ASSUME Init PROVE IInv
  BY Zenon
<1>1. Tracked = {} /\ AdmittedActive = {}
  BY Zenon DEF Init, Tracked, AdmittedActive, Active
<1>2. IsFiniteSet(Tracked) /\ Cardinality(AdmittedActive) = 0
  BY Zenon, <1>1, FS_EmptySet
<1>3. TypeOK /\ ReferencesResolve /\ Custody
  BY Zenon, <1>1, <1>2 DEF Init, TypeOK, ReferencesResolve, Custody
<1>. QED
  BY <1>2, <1>3, CoreAssumption DEF IInv, AdmittedWithinLimit, GlobalRiskConfig

\* Every call of the core keeps the invariant.
LEMMA InvariantIsInductive == IInv /\ [Next]_vars => IInv'
<1> SUFFICES ASSUME IInv, [Next]_vars PROVE IInv'
  BY Zenon
<1>1. ASSUME NEW intent \in Intents, Submit(intent) PROVE IInv'
  BY Zenon, <1>1, SubmitKeepsInvariant
<1>2. ASSUME NEW intent \in Intents, GlobalRiskAllow(intent) PROVE IInv'
  <2> DEFINE id == intent.client_order_id
             qty == clamp_non_negative(intent.qty_lots)
  <2>1. qty \in Nat
    BY CoreAssumption DEF OrderIntent, clamp_non_negative
  <2>2. /\ DOMAIN admitted' \subseteq DOMAIN admitted \cup ({id} \cap Tracked)
        /\ admitted' \in [DOMAIN admitted' -> Nat]
    <3>1. CASE id \in Tracked
      BY Zenon, <1>2, <2>1, <3>1 DEF IInv, TypeOK, GlobalRiskAllow, Put
    <3>2. CASE id \notin Tracked
      BY Zenon, <1>2, <3>2 DEF IInv, TypeOK, GlobalRiskAllow
    <3>. QED
      BY Zenon, <3>1, <3>2
  <2>3. TypeOK' /\ ReferencesResolve' /\ Custody'
    BY Zenon, <1>2, <2>2 DEF IInv, TypeOK, ReferencesResolve, Custody, GlobalRiskAllow, Take,
       Tracked, coreVars
  <2>4. AdmittedWithinLimit'
    BY Zenon, <1>2, AllowKeepsBound DEF IInv, Custody, GlobalRiskAllow, Take
  <2>. QED
    BY Zenon, <2>3, <2>4 DEF IInv
<1>3. ASSUME NEW intent \in Intents, GlobalRiskReject(intent) PROVE IInv'
  BY Zenon, <1>3, RiskRejectType, UpdateKeepsInvariant DEF GlobalRiskReject, Take, ApplyRiskReject
<1>4. ASSUME NEW intent \in Intents, NEW snapshot \in Snapshots,
             PortfolioRiskAllow(intent, snapshot)
      PROVE  IInv'
  BY Zenon, <1>4, RiskRejectType, UpdateKeepsInvariant DEF PortfolioRiskAllow, coreVars
<1>5. ASSUME NEW intent \in Intents, NEW snapshot \in Snapshots,
             PortfolioRiskReject(intent, snapshot)
      PROVE  IInv'
  BY Zenon, <1>5, RiskRejectType, UpdateKeepsInvariant DEF PortfolioRiskReject, ApplyRiskReject
<1>6. ASSUME NEW update \in Updates, ExchangeUpdate(update) PROVE IInv'
  BY Zenon, <1>6, CoreAssumption, UpdateKeepsInvariant DEF ExchangeUpdate
<1>7. ASSUME UNCHANGED vars PROVE IInv'
  BY Zenon, <1>7 DEF vars, IInv, TypeOK, ReferencesResolve, Custody, AdmittedWithinLimit,
     AdmittedActive, Active, Tracked
<1>. QED
  BY Zenon, <1>1, <1>2, <1>3, <1>4, <1>5, <1>6, <1>7, ResetKeepsInvariant DEF Next, IInv, TypeOK

-----------------------------------------------------------------------------
(* The quantity limit, on top of the invariant.  An admitted order counts   *)
(* for no more than what the gate saw of it and no more than what it can    *)
(* still be filled for, so a step that only advances orders cannot raise    *)
(* the sum, and the gate's check pays for the order it adds.                *)

Counted(c) == Min({outstanding_qty(in_flight_orders[c]), admitted[c]})

\* The smaller of two quantities, and how it moves with the first.
LEMMA MinOfTwo ==
    ASSUME NEW a \in Nat, NEW b \in Nat
    PROVE  /\ Min({a, b}) \in Nat
           /\ Min({a, b}) <= a /\ Min({a, b}) <= b
           /\ \A d \in Nat : d <= a => Min({d, b}) <= Min({a, b})
<1>1. \A d \in Nat : Min({d, b}) = IF d <= b THEN d ELSE b
  <2> SUFFICES ASSUME NEW d \in Nat PROVE Min({d, b}) = IF d <= b THEN d ELSE b
    BY Zenon
  <2>1. \E x \in {d, b} : \A y \in {d, b} : x <= y
    OBVIOUS
  <2>2. Min({d, b}) \in {d, b} /\ \A y \in {d, b} : Min({d, b}) <= y
    BY Zenon, <2>1 DEF Min
  <2>. QED
    BY <2>2
<1>. QED
  BY <1>1

\* What a tracked order can still be filled for is a natural number.
LEMMA OutstandingType ==
    ASSUME NEW order \in InFlightOrder
    PROVE  outstanding_qty(order) \in Nat
BY DEF InFlightOrder, outstanding_qty, clamp_non_negative

\* The orders that count are tracked, finitely many, and count naturally.
CountedWell ==
    /\ IsFiniteSet(AdmittedActive)
    /\ AdmittedActive \subseteq Tracked
    /\ \A c \in AdmittedActive :
          /\ outstanding_qty(in_flight_orders[c]) \in Nat
          /\ admitted[c] \in Nat
          /\ Counted(c) \in Nat
          /\ Counted(c) <= outstanding_qty(in_flight_orders[c])
          /\ Counted(c) <= admitted[c]

\* What build_risk_snapshot counts, in this state.
LEMMA CountedType == IInv => CountedWell
<1> SUFFICES ASSUME IInv PROVE CountedWell
  BY Zenon
<1>1. AdmittedActive \subseteq Tracked
  BY Zenon DEF AdmittedActive, Active
<1>2. IsFiniteSet(AdmittedActive)
  BY Zenon, <1>1, FS_Subset DEF IInv, Custody
<1>3. ASSUME NEW c \in AdmittedActive
      PROVE  outstanding_qty(in_flight_orders[c]) \in Nat /\ admitted[c] \in Nat
  BY Zenon, <1>1, OutstandingType DEF IInv, TypeOK, AdmittedActive
<1>. QED
  BY Zenon, <1>1, <1>2, <1>3, MinOfTwo DEF CountedWell, Counted

\* What build_risk_snapshot counts, in the next state.
LEMMA CountedTypeNext == IInv' => CountedWell'
<1>1. (IInv => CountedWell)'
  BY CountedType, PTL
<1>. QED
  BY Zenon, <1>1

\* A step that admits nobody, revives nobody and raises no outstanding
\* quantity keeps the quantity limit.
LEMMA CountedShrinks ==
    ASSUME IInv, IInv', AdmittedQtyWithinLimit,
           AdmittedActive' \subseteq AdmittedActive,
           \A c \in AdmittedActive' :
              /\ admitted'[c] = admitted[c]
              /\ outstanding_qty(in_flight_orders'[c])
                     <= outstanding_qty(in_flight_orders[c])
    PROVE  AdmittedQtyWithinLimit'
<1> DEFINE S == AdmittedActive
           T == AdmittedActive'
           f == [c \in S |-> Counted(c)]
           g == [c \in T |-> Counted(c)']
           max == GlobalRisk.max_outstanding_qty_global
<1>1. IsFiniteSet(S) /\ T \in SUBSET S
  BY Zenon, CountedType DEF CountedWell
<1>2. \A c \in S : f[c] \in Nat
  BY Zenon, CountedType DEF CountedWell
<1>3. \A c \in T : /\ outstanding_qty(in_flight_orders'[c]) \in Nat
                   /\ Counted(c)' \in Nat
  BY Zenon, CountedTypeNext DEF CountedWell
<1>4. ASSUME NEW c \in T PROVE g[c] \in Nat /\ g[c] <= f[c]
  <2>1. /\ outstanding_qty(in_flight_orders[c]) \in Nat
        /\ admitted[c] \in Nat
        /\ outstanding_qty(in_flight_orders'[c]) \in Nat
        /\ Counted(c)' \in Nat
        /\ outstanding_qty(in_flight_orders'[c]) <= outstanding_qty(in_flight_orders[c])
        /\ admitted'[c] = admitted[c]
    BY Zenon, <1>1, <1>3, CountedType DEF CountedWell
  <2>2. Min({outstanding_qty(in_flight_orders'[c]), admitted'[c]})
            <= Min({outstanding_qty(in_flight_orders[c]), admitted[c]})
    BY Zenon, <2>1, MinOfTwo
  <2>. QED
    BY Zenon, <1>1, <2>1, <2>2 DEF Counted
<1>5. SumFunctionOnSet(g, T) <= SumFunctionOnSet(f, S)
  <2> HIDE DEF S, T, f, g
  <2>. QED
    BY Zenon, <1>1, <1>2, <1>4, SumShrinks
<1>6. SumFunctionOnSet(g, T) \in Int /\ SumFunctionOnSet(f, S) \in Int
  <2>1. IsFiniteSet(T)
    BY Zenon, <1>1, FS_Subset
  <2> HIDE DEF S, T, f, g
  <2>. QED
    BY <1>1, <1>2, <1>4, <2>1, SumType
<1>7. max \in Int
  BY Zenon, CoreAssumption DEF GlobalRiskConfig
<1>8. max > 0 => SumFunctionOnSet(f, S) <= max
  BY Zenon DEF AdmittedQtyWithinLimit, SumFunction, Counted
<1>9. max > 0 => SumFunctionOnSet(g, T) <= max
  <2> HIDE DEF S, T, f, g, max
  <2>. QED
    BY <1>5, <1>6, <1>7, <1>8
<1>. QED
  BY Zenon, <1>9 DEF AdmittedQtyWithinLimit, SumFunction, Counted

\* The quantity check of the gate pays for the order it lets through.
LEMMA AllowKeepsQtyBound ==
    ASSUME IInv, IInv', NEW intent \in Intents, CreatesOrder(intent), GlobalRiskAllow(intent)
    PROVE  AdmittedQtyWithinLimit'
<1> DEFINE id == intent.client_order_id
           qty == clamp_non_negative(intent.qty_lots)
           others == Active \ {id}
           all == others \cup {id}
           o == [c \in others |-> outstanding_qty(in_flight_orders[c])]
           h == [c \in all |-> IF c = id THEN qty ELSE outstanding_qty(in_flight_orders[c])]
           T == AdmittedActive'
           g == [c \in T |-> Counted(c)']
           max == GlobalRisk.max_outstanding_qty_global
<1>1. max \in Int /\ qty \in Nat
  BY CoreAssumption DEF GlobalRiskConfig, OrderIntent, clamp_non_negative
<1>2. IsFiniteSet(others) /\ IsFiniteSet(all) /\ others \subseteq Tracked
  <2>1. others \subseteq Tracked
    BY Zenon DEF Active
  <2>2. IsFiniteSet(others)
    BY Zenon, <2>1, FS_Subset DEF IInv, Custody
  <2>. QED
    BY Zenon, <2>1, <2>2, FS_AddElement
<1>3. /\ \A c \in others : o[c] \in Nat /\ h[c] = o[c]
      /\ \A c \in all : h[c] \in Nat
      /\ h[id] = qty
  BY Zenon, <1>1, <1>2, OutstandingType DEF IInv, TypeOK
<1>4. max > 0 => SumFunctionOnSet(o, others) + qty <= max
  BY Zenon DEF GlobalRiskAllow, evaluate_global_risk, GlobalRiskAllows,
         build_risk_snapshot, Within, OutstandingOf, SumFunction
<1>5. /\ T \in SUBSET all
      /\ id \in T => admitted'[id] = qty
      /\ in_flight_orders' = in_flight_orders
  BY Zenon DEF GlobalRiskAllow, Put, AdmittedActive, Active, Tracked, coreVars
<1>6. \A c \in T : g[c] \in Nat /\ g[c] <= h[c]
  <2>1. \A c \in T : /\ Counted(c)' \in Nat
                     /\ Counted(c)' <= outstanding_qty(in_flight_orders'[c])
                     /\ Counted(c)' <= admitted'[c]
    BY Zenon, CountedTypeNext DEF CountedWell
  <2>. QED
    BY Zenon, <1>5, <2>1
<1>7. SumFunctionOnSet(h, all) = SumFunctionOnSet(o, others) + qty
  <2>1. id \notin others
    BY Zenon
  <2>2. \A c \in others : o[c] \in Int /\ h[c] = o[c]
    BY <1>3
  <2> HIDE DEF id, qty, others, o, h
  <2>3. SumFunctionOnSet(h, others \cup {id}) = SumFunctionOnSet(o, others) + h[id]
    BY <1>1, <1>2, <1>3, <2>1, <2>2, SumAfterPut
  <2>. QED
    BY Zenon, <1>3, <2>3
<1>8. SumFunctionOnSet(g, T) <= SumFunctionOnSet(h, all)
  <2> HIDE DEF T, g, h, all
  <2>. QED
    BY Zenon, <1>2, <1>3, <1>5, <1>6, SumShrinks
<1>9. SumFunctionOnSet(g, T) \in Int /\ SumFunctionOnSet(h, all) \in Int
  <2>1. IsFiniteSet(T)
    BY Zenon, <1>2, <1>5, FS_Subset
  <2> HIDE DEF T, g, h, all
  <2>. QED
    BY <1>2, <1>3, <1>6, <2>1, SumType
<1>10. max > 0 => SumFunctionOnSet(g, T) <= max
  <2> HIDE DEF T, g, h, all, max, o, others, qty
  <2>. QED
    BY <1>1, <1>4, <1>7, <1>8, <1>9
<1>. QED
  BY Zenon, <1>10 DEF AdmittedQtyWithinLimit, SumFunction, Counted

\* Every call of the core keeps the quantity limit.
LEMMA QtyBoundIsInductive ==
    IInv /\ IInv' /\ AdmittedQtyWithinLimit /\ [Next]_vars => AdmittedQtyWithinLimit'
<1> SUFFICES ASSUME IInv, IInv', AdmittedQtyWithinLimit, [Next]_vars
             PROVE  AdmittedQtyWithinLimit'
  BY Zenon
<1>1. \A c \in Tracked : outstanding_qty(in_flight_orders[c]) \in Nat
  BY Zenon, OutstandingType DEF IInv, TypeOK
<1>2. ASSUME UNCHANGED <<in_flight_orders, admitted>> PROVE AdmittedQtyWithinLimit'
  BY Zenon, <1>2 DEF AdmittedQtyWithinLimit, AdmittedActive, Active, Tracked
<1>3. ASSUME NEW update \in OrderStateUpdate, apply_update_transition(update),
             admitted' = admitted
      PROVE  AdmittedQtyWithinLimit'
  <2>1. /\ Tracked' = Tracked
        /\ \A c \in Tracked :
              /\ is_terminal_state(in_flight_orders[c].status) =>
                     in_flight_orders'[c].status = in_flight_orders[c].status
              /\ outstanding_qty(in_flight_orders'[c])
                     <= outstanding_qty(in_flight_orders[c])
    BY Zenon, <1>3, UpdateStep DEF IInv
  <2>2. AdmittedActive' \subseteq AdmittedActive /\ AdmittedActive' \subseteq Tracked
    BY Zenon, <1>3, <2>1 DEF AdmittedActive, Active
  <2>. QED
    BY Zenon, <1>3, <2>1, <2>2, CountedShrinks
<1>4. ASSUME NEW intent \in Intents, ApplyRiskReject(intent), admitted' = admitted
      PROVE  AdmittedQtyWithinLimit'
  BY Zenon, <1>2, <1>3, <1>4, RiskRejectType DEF ApplyRiskReject, coreVars
<1>5. ASSUME NEW intent \in Intents, Submit(intent) PROVE AdmittedQtyWithinLimit'
  <2>1. /\ Tracked' = Tracked \cup
               (IF CreatesOrder(intent) THEN {intent.client_order_id} ELSE {})
        /\ CreatesOrder(intent) => intent.client_order_id \in ClientOrderIds \ Tracked
        /\ \A c \in Tracked : in_flight_orders'[c] = in_flight_orders[c]
    BY Zenon, <1>5, TrackStep DEF IInv, Submit
  <2>2. AdmittedActive' \subseteq AdmittedActive
    BY Zenon, <1>5, <2>1 DEF IInv, Custody, AdmittedActive, Active, Submit
  <2>3. \A c \in AdmittedActive' :
            /\ admitted'[c] = admitted[c]
            /\ outstanding_qty(in_flight_orders'[c]) <= outstanding_qty(in_flight_orders[c])
    <3>1. AdmittedActive \subseteq Tracked
      BY Zenon DEF AdmittedActive, Active
    <3>. QED
      BY <1>1, <1>5, <2>1, <2>2, <3>1 DEF Submit
  <2>. QED
    BY Zenon, <2>2, <2>3, CountedShrinks
<1>6. ASSUME NEW intent \in Intents, GlobalRiskAllow(intent) PROVE AdmittedQtyWithinLimit'
  BY Zenon, <1>6, AllowKeepsQtyBound DEF IInv, Custody, GlobalRiskAllow, Take
<1>7. ASSUME NEW intent \in Intents, GlobalRiskReject(intent) PROVE AdmittedQtyWithinLimit'
  BY Zenon, <1>4, <1>7 DEF GlobalRiskReject
<1>8. ASSUME NEW intent \in Intents, NEW snapshot \in Snapshots,
             PortfolioRiskAllow(intent, snapshot) \/ PortfolioRiskReject(intent, snapshot)
      PROVE  AdmittedQtyWithinLimit'
  BY Zenon, <1>2, <1>4, <1>8 DEF PortfolioRiskAllow, PortfolioRiskReject
<1>9. ASSUME NEW update \in Updates, ExchangeUpdate(update) PROVE AdmittedQtyWithinLimit'
  BY Zenon, <1>3, <1>9, CoreAssumption DEF ExchangeUpdate
<1>10. ASSUME reset PROVE AdmittedQtyWithinLimit'
  <2>1. AdmittedActive' = {}
    BY Zenon, <1>10 DEF reset, AdmittedActive
  <2>. QED
    BY Zenon, <2>1, CountedShrinks
<1>. QED
  BY Zenon, <1>2, <1>5, <1>6, <1>7, <1>8, <1>9, <1>10 DEF Next, vars, IInv, TypeOK

-----------------------------------------------------------------------------
(* The theorems                                                            *)

\* The inductive invariant holds in every reachable state.
THEOREM Invariance == Spec => []IInv
BY InvariantHoldsInitially, InvariantIsInductive, PTL DEF Spec

\* Type correctness of the order table and the exchange-id index, for any
\* sets of ids, intents and updates.
THEOREM TypeCorrect == Spec => []TypeOK
<1>1. IInv => TypeOK
  BY Zenon DEF IInv
<1>. QED
  BY <1>1, Invariance, PTL

\* The exchange-id index and the replacement links of the core never dangle.
THEOREM ReferencesAlwaysResolve == Spec => []ReferencesResolve
<1>1. IInv => ReferencesResolve
  BY Zenon DEF IInv
<1>. QED
  BY <1>1, Invariance, PTL

\* Admission control: however submissions, evaluations and exchange updates
\* interleave, the live orders that GlobalRiskGate let through never exceed
\* max_active_orders_global.
THEOREM AdmissionBound == Spec => []AdmittedWithinLimit
<1>1. IInv => AdmittedWithinLimit
  BY Zenon DEF IInv
<1>. QED
  BY <1>1, Invariance, PTL

\* The quantity the admitted live orders can still be filled for, as far as
\* GlobalRiskGate was told of it, never exceeds max_outstanding_qty_global:
\* its check against the other orders' outstanding quantity suffices, although
\* fills, replacements and a reset happen between one check and the next.
THEOREM AdmittedQtyBound == Spec => []AdmittedQtyWithinLimit
<1>1. Init => AdmittedQtyWithinLimit
  <2> SUFFICES ASSUME Init PROVE AdmittedQtyWithinLimit
    BY Zenon
  <2>1. AdmittedActive = {}
    BY Zenon DEF Init, AdmittedActive
  <2>2. SumFunctionOnSet([c \in AdmittedActive |->
            Min({outstanding_qty(in_flight_orders[c]), admitted[c]})], {}) = 0
    BY Zenon, SumOfNothing
  <2>. QED
    BY <2>1, <2>2, CoreAssumption DEF AdmittedQtyWithinLimit, SumFunction, GlobalRiskConfig
<1>. QED
  BY <1>1, Invariance, InvariantIsInductive, QtyBoundIsInductive, PTL DEF Spec

\* An order only advances: apply_update_transition never leaves a terminal
\* status, never raises an outstanding quantity, and nothing but a reset
\* forgets an order.
THEOREM OrdersAdvance == Spec => OrdersOnlyAdvance
<1>1. ASSUME IInv, [Next]_vars
      PROVE  reset \/ \A c \in Tracked : Advances(c)
  <2>1. \A c \in Tracked : outstanding_qty(in_flight_orders[c]) \in Int
    BY <1>1 DEF IInv, TypeOK, InFlightOrder, outstanding_qty, clamp_non_negative
  <2>2. ASSUME UNCHANGED in_flight_orders PROVE \A c \in Tracked : Advances(c)
    BY <2>1, <2>2 DEF Tracked, Advances
  <2>3. ASSUME NEW update \in OrderStateUpdate, apply_update_transition(update)
        PROVE  \A c \in Tracked : Advances(c)
    BY Zenon, <1>1, <2>3, UpdateStep DEF IInv, Tracked, Advances
  <2>4. ASSUME NEW intent \in Intents, ApplyRiskReject(intent)
        PROVE  \A c \in Tracked : Advances(c)
    BY Zenon, <2>2, <2>3, <2>4, RiskRejectType DEF ApplyRiskReject, coreVars
  <2>5. ASSUME NEW intent \in Intents, Submit(intent)
        PROVE  \A c \in Tracked : Advances(c)
    <3>1. /\ \A c \in Tracked : in_flight_orders'[c] = in_flight_orders[c]
          /\ Tracked \subseteq Tracked'
      BY Zenon, <1>1, <2>5, TrackStep DEF IInv, Submit
    <3>. QED
      BY <2>1, <3>1 DEF Tracked, Advances
  <2>6. ASSUME NEW update \in Updates, ExchangeUpdate(update)
        PROVE  \A c \in Tracked : Advances(c)
    BY Zenon, <2>3, <2>6, CoreAssumption DEF ExchangeUpdate
  <2>7. ASSUME NEW intent \in Intents,
               \/ GlobalRiskAllow(intent)
               \/ \E snapshot \in Snapshots : PortfolioRiskAllow(intent, snapshot)
        PROVE  \A c \in Tracked : Advances(c)
    BY Zenon, <2>2, <2>7 DEF GlobalRiskAllow, PortfolioRiskAllow, coreVars
  <2>8. ASSUME NEW intent \in Intents,
               \/ GlobalRiskReject(intent)
               \/ \E snapshot \in Snapshots : PortfolioRiskReject(intent, snapshot)
        PROVE  \A c \in Tracked : Advances(c)
    BY Zenon, <2>4, <2>8 DEF GlobalRiskReject, PortfolioRiskReject
  <2>. QED
    BY Zenon, <1>1, <2>2, <2>5, <2>6, <2>7, <2>8 DEF Next, vars, IInv, TypeOK
<1>2. IInv /\ [Next]_vars => [reset \/ \A c \in Tracked : Advances(c)]_vars
  BY Zenon, <1>1
<1>. QED
  BY <1>2, Invariance, PTL DEF Spec, OrdersOnlyAdvance
=============================================================================
