------------------------- MODULE OrderManagerProofs -------------------------
(***************************************************************************)
(* Proofs about the order manager and the strategies in front of it, for   *)
(* any number of submitting threads, intents and submissions.              *)
(***************************************************************************)
EXTENDS StrategyRunner, SequenceTheorems, TLAPS

Tracked == DOMAIN in_flight_orders

\* the intents that wait for the worker, oldest first
Waiting == local_intents \o outbound_queue

\* submit() has tracked the intent of s and not yet queued it
InSubmit(s) == submitter[s] # None /\ submitter[s].stage = "tracked"

Creates(intent, c) == CreatesOrder(intent) /\ intent.client_order_id = c

-----------------------------------------------------------------------------
(* Where the threads are and what they hold.                               *)

Draining == {"evaluate", "portfolio", "send"}

PhaseInv ==
    /\ worker \in Draining \cup {"none", "check", "drain", "receive", "apply", "sink",
                                 "closing", "done"}
    /\ worker \in Draining <=> local_intents # <<>>
    /\ controller = "connecting" => worker = "none"
    /\ starts \in Nat
    /\ starts = 0 => worker = "none" /\ controller = "idle" /\ ~running

HoldingsInv ==
    /\ local_intents \in Seq(Intents)
    /\ outbound_queue \in Seq(Intents)
    /\ submitter \in [Submitters -> Submission \cup {None}]
    /\ \A s \in Submitters : submitter[s] # None => submitter[s].intent \in IntentsOf[s]
    /\ Tracked \subseteq ClientOrderIds

-----------------------------------------------------------------------------
(* One session: who may still place an order under a client id.            *)

\* Before the first start() there is nothing.
BeforeStart ==
    starts = 0 => /\ Waiting = <<>>
                  /\ \A s \in Submitters : submitter[s] = None
                  /\ \A c \in ClientOrderIds : placements[c] = 0

\* Whoever may still place an order has tracked it.
CreatorsTracked ==
    /\ \A i \in 1..Len(Waiting) :
          CreatesOrder(Waiting[i]) => Waiting[i].client_order_id \in Tracked
    /\ \A s \in Submitters :
          InSubmit(s) /\ CreatesOrder(submitter[s].intent) =>
              submitter[s].intent.client_order_id \in Tracked

\* No two of them may place one under the same id.
CreatorsDiffer ==
    /\ \A i, j \in 1..Len(Waiting) : \A c \in Tracked :
          i # j => ~(Creates(Waiting[i], c) /\ Creates(Waiting[j], c))
    /\ \A i \in 1..Len(Waiting), s \in Submitters : \A c \in Tracked :
          InSubmit(s) => ~(Creates(Waiting[i], c) /\ Creates(submitter[s].intent, c))
    /\ \A s, t \in Submitters : \A c \in Tracked :
          s # t /\ InSubmit(s) /\ InSubmit(t) =>
              ~(Creates(submitter[s].intent, c) /\ Creates(submitter[t].intent, c))

\* An order that was placed was placed once, and nobody will place it again.
PlacedOnce ==
    \A c \in ClientOrderIds : placements[c] # 0 =>
        /\ placements[c] = 1
        /\ c \in Tracked
        /\ \A i \in 1..Len(Waiting) : ~Creates(Waiting[i], c)
        /\ \A s \in Submitters : InSubmit(s) => ~Creates(submitter[s].intent, c)

SessionInv ==
    /\ placements \in [ClientOrderIds -> Nat]
    /\ BeforeStart
    /\ starts <= 1 => CreatorsTracked /\ CreatorsDiffer /\ PlacedOnce

ManagerInv == PhaseInv /\ HoldingsInv /\ SessionInv

-----------------------------------------------------------------------------
(* A cancel or a replacement, and the order it names.                      *)

\* the order an intent names: None for one that names none
TargetOf(intent) ==
    IF intent.action = "kPlace" THEN None ELSE Core!target_by_client_id(intent)

\* A waiting cancel or replacement names a tracked order that nobody behind it
\* creates.
WaitingTargets ==
    \A i \in 1..Len(Waiting) : TargetOf(Waiting[i]) # None =>
        /\ TargetOf(Waiting[i]) \in Tracked
        /\ \A j \in i + 1..Len(Waiting) : ~Creates(Waiting[j], TargetOf(Waiting[i]))
        /\ \A s \in Submitters :
              InSubmit(s) => ~Creates(submitter[s].intent, TargetOf(Waiting[i]))

SubmittedTargets ==
    \A s \in Submitters : InSubmit(s) /\ TargetOf(submitter[s].intent) # None =>
        TargetOf(submitter[s].intent) \in Tracked

TargetInv == starts <= 1 => WaitingTargets /\ SubmittedTargets

-----------------------------------------------------------------------------
(* What the calls into the core and the transport leave alone.             *)

\* An update, or a risk rejection, is applied to a tracked order: it tracks
\* nothing and forgets nothing.
LEMMA UpdateKeepsTracked ==
    ASSUME NEW update,
           \/ Core!apply_update_transition(update)
           \/ Core!ApplyRiskReject(update)
           \/ UNCHANGED coreVars
    PROVE  Tracked' = Tracked
BY Zenon DEF Core!apply_update_transition, Core!ApplyRiskReject, Core!coreVars, coreVars, Tracked

\* Only a request that is sent can place an order.
LEMMA TransportKeepsPlacements ==
    ASSUME connect \/ close \/ recv_text \/ (run_live_oms /\ Live!ExchangeStep)
             \/ UNCHANGED transportVars
    PROVE  placements' = placements
<1>1. CASE connect \/ close \/ recv_text
  BY Zenon, <1>1 DEF connect, close, recv_text, Paper!connect, Live!connect, Paper!close,
     Live!close, Paper!recv_text, Live!recv_text, Live!exchangeVars
<1>2. CASE Live!ExchangeStep
  BY Zenon, <1>2 DEF Live!ExchangeStep, Live!Acknowledge, Live!Refuse, Live!Fill, Live!Disconnect,
     Live!exchangeVars
<1>. QED
  BY Zenon, <1>1, <1>2 DEF transportVars

\* The steps in which no intent and no order of a session changes hands.
Idle ==
    \/ StartWorker \/ StopRequest \/ StopClose \/ StopJoin \/ CheckStop \/ Leave
    \/ (EvaluateGlobalRisk /\ UNCHANGED local_intents)
    \/ (EvaluatePortfolioRisk /\ UNCHANGED local_intents)
    \/ Receive \/ ApplyUpdate \/ NotifySink \/ Exchange \/ UNCHANGED vars

\* What a step leaves alone that neither submits, drains nor sends.
LEMMA IdleFrame ==
    ASSUME Idle
    PROVE  /\ UNCHANGED <<local_intents, outbound_queue, submitter, placements, starts>>
           /\ Tracked' = Tracked
<1>1. CASE StartWorker \/ StopRequest \/ StopClose \/ StopJoin \/ CheckStop \/ Leave
  <2>1. UNCHANGED <<local_intents, outbound_queue, submitter, starts, coreVars>>
    BY Zenon, <1>1 DEF StartWorker, StopRequest, StopClose, StopJoin, CheckStop, Leave, workerVars,
       callerVars, submitVars
  <2>2. connect \/ close \/ UNCHANGED transportVars
    BY Zenon, <1>1 DEF StartWorker, StopRequest, StopClose, StopJoin, CheckStop, Leave
  <2>. QED
    BY Zenon, <2>1, <2>2, UpdateKeepsTracked, TransportKeepsPlacements
<1>2. CASE EvaluateGlobalRisk /\ UNCHANGED local_intents
  <2>1. UNCHANGED <<local_intents, outbound_queue, submitter, starts, transportVars>>
    BY Zenon, <1>2 DEF EvaluateGlobalRisk, callerVars, submitVars
  <2>2. UNCHANGED coreVars \/ Core!ApplyRiskReject(Head(local_intents))
    BY Zenon, <1>2 DEF EvaluateGlobalRisk
  <2>. QED
    BY Zenon, <2>1, <2>2, UpdateKeepsTracked, TransportKeepsPlacements
<1>3. CASE EvaluatePortfolioRisk /\ UNCHANGED local_intents
  <2>1. UNCHANGED <<local_intents, outbound_queue, submitter, starts, transportVars>>
    BY <1>3 DEF EvaluatePortfolioRisk, callerVars, submitVars
  <2>2. UNCHANGED coreVars \/ Core!ApplyRiskReject(Head(local_intents))
    BY <1>3 DEF EvaluatePortfolioRisk
  <2>. QED
    BY <2>1, <2>2, UpdateKeepsTracked, TransportKeepsPlacements
<1>4. CASE Receive
  <2>1. UNCHANGED <<local_intents, outbound_queue, submitter, starts, coreVars>>
    BY <1>4 DEF Receive, callerVars, submitVars
  <2>2. recv_text \/ UNCHANGED transportVars
    BY <1>4 DEF Receive
  <2>. QED
    BY <2>1, <2>2, UpdateKeepsTracked, TransportKeepsPlacements
<1>5. CASE ApplyUpdate \/ NotifySink
  <2>1. UNCHANGED <<local_intents, outbound_queue, submitter, starts, transportVars>>
    BY <1>5 DEF ApplyUpdate, NotifySink, callerVars, submitVars
  <2>2. UNCHANGED coreVars \/ Core!apply_update_transition(pending_update)
    BY <1>5 DEF ApplyUpdate, NotifySink
  <2>. QED
    BY <2>1, <2>2, UpdateKeepsTracked, TransportKeepsPlacements
<1>6. CASE Exchange
  <2>1. UNCHANGED <<local_intents, outbound_queue, submitter, starts, coreVars>>
    BY <1>6 DEF Exchange, callerVars, submitVars, workerVars
  <2>. QED
    BY <1>6, <2>1, UpdateKeepsTracked, TransportKeepsPlacements DEF Exchange
<1>7. CASE UNCHANGED vars
  BY <1>7 DEF vars, workerVars, callerVars, submitVars, coreVars, transportVars, Tracked
<1>. QED
  BY Zenon, <1>1, <1>2, <1>3, <1>4, <1>5, <1>6, <1>7 DEF Idle

\* The steps with which the worker is done with the intent at the head of its
\* batch, and no order is placed.
Drop ==
    /\ EvaluateGlobalRisk \/ EvaluatePortfolioRisk \/ SendIntent
    /\ NextIntent
    /\ placements' = placements

\* Every step is one of these, or one that hands an intent over.
LEMMA StepKinds ==
    ASSUME [Next]_vars
    PROVE  \/ Idle \/ Drop
           \/ \E s \in Submitters : \E intent \in IntentsOf[s] : SubmitCheck(s, intent)
           \/ \E s \in Submitters : SubmitTrack(s) \/ SubmitRefuse(s) \/ SubmitEnqueue(s)
           \/ StartReset \/ SwapQueue
           \/ SendIntent /\ placements' # placements
<1>1. EvaluateGlobalRisk => Idle \/ Drop
  BY Zenon, TransportKeepsPlacements DEF EvaluateGlobalRisk, Idle, Drop
<1>2. EvaluatePortfolioRisk => Idle \/ Drop
  BY Zenon, TransportKeepsPlacements DEF EvaluatePortfolioRisk, Idle, Drop
<1>3. SendIntent => Drop \/ placements' # placements
  BY Zenon DEF SendIntent, Drop
<1>. QED
  BY Zenon, <1>1, <1>2, <1>3 DEF Next, Submit, Stop, Run, Idle

-----------------------------------------------------------------------------
(* Where the threads are.                                                  *)

\* Every step keeps the invariant of the threads' positions.
LEMMA PhaseIsInductive ==
    ASSUME PhaseInv, HoldingsInv, [Next]_vars
    PROVE  PhaseInv'
<1> USE DEF PhaseInv, Draining
<1>1. CASE \E s \in Submitters : Submit(s) \/ \E intent \in IntentsOf[s] : SubmitCheck(s, intent)
  <2>1. UNCHANGED <<worker, local_intents, controller, starts, running>>
    BY Zenon, <1>1 DEF Submit, SubmitCheck, SubmitTrack, SubmitRefuse, SubmitEnqueue, workerVars,
       callerVars
  <2>. QED
    BY Zenon, <2>1
<1>2. CASE StartReset
  BY <1>2 DEF StartReset, workerVars
<1>3. CASE StartWorker
  BY Zenon, <1>3 DEF StartWorker
<1>4. CASE Stop
  BY Zenon, <1>4 DEF Stop, StopRequest, StopClose, StopJoin, workerVars
<1>5. CASE CheckStop \/ Leave
  BY Zenon, <1>5 DEF CheckStop, Leave, callerVars
<1>6. CASE SwapQueue
  BY Zenon, <1>6 DEF SwapQueue, callerVars
<1>7. CASE EvaluateGlobalRisk
  <2>1. /\ \/ worker' = "portfolio" /\ UNCHANGED local_intents
           \/ NextIntent
        /\ UNCHANGED <<controller, starts, running>>
    BY Zenon, <1>7 DEF EvaluateGlobalRisk, callerVars
  <2>. QED
    BY Zenon, <1>7, <2>1 DEF EvaluateGlobalRisk, NextIntent
<1>8. CASE EvaluatePortfolioRisk
  <2>1. /\ \/ worker' = "send" /\ UNCHANGED local_intents
           \/ NextIntent
        /\ UNCHANGED <<controller, starts, running>>
    BY Zenon, <1>8 DEF EvaluatePortfolioRisk, callerVars
  <2>. QED
    BY Zenon, <1>8, <2>1 DEF EvaluatePortfolioRisk, NextIntent
<1>9. CASE SendIntent
  BY Zenon, <1>9 DEF SendIntent, NextIntent, callerVars
<1>10. CASE Receive
  BY Zenon, <1>10 DEF Receive, callerVars
<1>11. CASE ApplyUpdate \/ NotifySink
  BY Zenon, <1>11 DEF ApplyUpdate, NotifySink, callerVars
<1>12. CASE Exchange
  BY Zenon, <1>12 DEF Exchange, workerVars, callerVars
<1>13. CASE UNCHANGED vars
  BY Zenon, <1>13 DEF vars, workerVars, callerVars
<1>. QED
  BY Zenon, <1>1, <1>2, <1>3, <1>4, <1>5, <1>6, <1>7, <1>8, <1>9, <1>10, <1>11, <1>12, <1>13
     DEF Next, Run

-----------------------------------------------------------------------------
(* How the line of waiting intents moves.                                  *)

\* The batch and the queue are one line.
LEMMA WaitingIsLine ==
    ASSUME HoldingsInv
    PROVE  /\ Waiting \in Seq(Intents)
           /\ Len(Waiting) = Len(local_intents) + Len(outbound_queue)
           /\ Len(local_intents) \in Nat /\ Len(outbound_queue) \in Nat
           /\ \A i \in 1..Len(Waiting) :
                 Waiting[i] = IF i <= Len(local_intents) THEN local_intents[i]
                              ELSE outbound_queue[i - Len(local_intents)]
BY Zenon, ConcatProperties, LenProperties DEF HoldingsInv, Waiting

\* submit() joins it at the end.
LEMMA EnqueueExtendsLine ==
    ASSUME HoldingsInv, NEW s \in Submitters, SubmitEnqueue(s)
    PROVE  /\ outbound_queue' \in Seq(Intents) /\ local_intents' = local_intents
           /\ Len(Waiting') = Len(Waiting) + 1
           /\ \A i \in 1..Len(Waiting) : Waiting'[i] = Waiting[i]
           /\ Waiting'[Len(Waiting) + 1] = submitter[s].intent
<1> DEFINE e == submitter[s].intent
<1>1. e \in Intents
  BY Zenon DEF SubmitEnqueue, HoldingsInv, Submission
<1>2. local_intents' = local_intents /\ outbound_queue' = Append(outbound_queue, e)
  BY Zenon DEF SubmitEnqueue, workerVars
<1>3. /\ outbound_queue' \in Seq(Intents)
      /\ Len(outbound_queue') = Len(outbound_queue) + 1
      /\ \A i \in 1..Len(outbound_queue) : outbound_queue'[i] = outbound_queue[i]
      /\ outbound_queue'[Len(outbound_queue) + 1] = e
  BY <1>1, <1>2, AppendProperties DEF HoldingsInv
<1> HIDE DEF e
<1>4. /\ Len(Waiting') = Len(local_intents) + Len(outbound_queue')
      /\ \A i \in 1..Len(local_intents) + Len(outbound_queue') :
            Waiting'[i] = IF i <= Len(local_intents) THEN local_intents[i]
                          ELSE outbound_queue'[i - Len(local_intents)]
  BY Zenon, <1>2, <1>3, ConcatProperties DEF HoldingsInv, Waiting
<1>5. /\ Len(Waiting) = Len(local_intents) + Len(outbound_queue)
      /\ Len(local_intents) \in Nat /\ Len(outbound_queue) \in Nat
  BY Zenon, WaitingIsLine
<1>6. /\ Len(Waiting') = Len(Waiting) + 1
      /\ 1..Len(Waiting) \subseteq 1..Len(local_intents) + Len(outbound_queue')
  BY <1>3, <1>4, <1>5
<1>7. ASSUME NEW i \in 1..Len(Waiting) PROVE Waiting'[i] = Waiting[i]
  <2>1. CASE i <= Len(local_intents)
    BY Zenon, <1>4, <1>6, <2>1, WaitingIsLine
  <2>2. CASE ~(i <= Len(local_intents))
    <3>1. i - Len(local_intents) \in 1..Len(outbound_queue)
      BY <1>5, <2>2
    <3>2. Waiting'[i] = outbound_queue'[i - Len(local_intents)]
      BY Zenon, <1>4, <1>6, <2>2
    <3>. QED
      BY Zenon, <1>3, <2>2, <3>1, <3>2, WaitingIsLine
  <2>. QED
    BY Zenon, <2>1, <2>2
<1>8. Waiting'[Len(Waiting) + 1] = e
  <2>1. /\ Len(Waiting) + 1 \in 1..Len(local_intents) + Len(outbound_queue')
        /\ ~(Len(Waiting) + 1 <= Len(local_intents))
        /\ Len(Waiting) + 1 - Len(local_intents) = Len(outbound_queue) + 1
    BY <1>3, <1>5
  <2>2. Waiting'[Len(Waiting) + 1] = outbound_queue'[Len(Waiting) + 1 - Len(local_intents)]
    BY <1>4, <2>1
  <2>. QED
    BY Zenon, <1>3, <2>1, <2>2
<1>. QED
  BY Zenon, <1>2, <1>3, <1>6, <1>7, <1>8 DEF e

\* The swap of the queue leaves it as it is.
LEMMA SwapKeepsLine ==
    ASSUME PhaseInv, HoldingsInv, SwapQueue
    PROVE  Waiting' = Waiting
<1>1. local_intents = <<>>
  BY Zenon DEF PhaseInv, Draining, SwapQueue
<1>2. local_intents' = outbound_queue /\ outbound_queue' = <<>>
  BY Zenon DEF SwapQueue
<1>3. outbound_queue \o <<>> = outbound_queue /\ <<>> \o outbound_queue = outbound_queue
  BY Zenon, ConcatEmptySeq DEF HoldingsInv
<1>. QED
  BY Zenon, <1>1, <1>2, <1>3 DEF Waiting

\* The worker leaves with the intent at its head.
LEMMA NextIntentMovesLine ==
    ASSUME PhaseInv, HoldingsInv, worker \in Draining, NextIntent,
           outbound_queue' = outbound_queue
    PROVE  /\ local_intents' \in Seq(Intents)
           /\ Len(Waiting) \in Nat /\ Len(Waiting) >= 1
           /\ Waiting[1] = Head(local_intents)
           /\ Head(local_intents) \in Intents
           /\ Len(Waiting') = Len(Waiting) - 1
           /\ \A i \in 1..Len(Waiting') : Waiting'[i] = Waiting[i + 1]
<1>1. local_intents # <<>> /\ local_intents' = Tail(local_intents)
  BY Zenon DEF PhaseInv, NextIntent
<1>2. /\ Head(local_intents) \in Intents
      /\ Head(local_intents) = local_intents[1]
      /\ local_intents' \in Seq(Intents)
      /\ Len(local_intents') = Len(local_intents) - 1
      /\ \A i \in 1..Len(local_intents') : local_intents'[i] = local_intents[i + 1]
      /\ Len(local_intents) \in Nat \ {0}
  BY <1>1, HeadTailProperties, EmptySeq DEF HoldingsInv
<1>3. /\ Len(Waiting') = Len(local_intents') + Len(outbound_queue)
      /\ \A i \in 1..Len(local_intents') + Len(outbound_queue) :
            Waiting'[i] = IF i <= Len(local_intents') THEN local_intents'[i]
                          ELSE outbound_queue[i - Len(local_intents')]
  <2>1. Waiting' = local_intents' \o outbound_queue
    BY Zenon DEF Waiting
  <2>2. outbound_queue \in Seq(Intents)
    BY Zenon DEF HoldingsInv
  <2>. QED
    BY Zenon, <1>2, <2>1, <2>2, ConcatProperties
<1>4. /\ Len(Waiting) = Len(local_intents) + Len(outbound_queue)
      /\ Len(outbound_queue) \in Nat
      /\ \A i \in 1..Len(Waiting) :
            Waiting[i] = IF i <= Len(local_intents) THEN local_intents[i]
                         ELSE outbound_queue[i - Len(local_intents)]
  BY Zenon, WaitingIsLine
<1>5. /\ Len(Waiting) \in Nat /\ Len(Waiting) >= 1 /\ Waiting[1] = local_intents[1]
      /\ Len(Waiting') = Len(Waiting) - 1
  BY <1>2, <1>3, <1>4
<1>6. ASSUME NEW i \in 1..Len(Waiting') PROVE Waiting'[i] = Waiting[i + 1]
  <2>1. /\ i \in 1..Len(local_intents') + Len(outbound_queue)
        /\ i + 1 \in 1..Len(Waiting)
        /\ i <= Len(local_intents') <=> i + 1 <= Len(local_intents)
        /\ i <= Len(local_intents') => i \in 1..Len(local_intents')
        /\ i - Len(local_intents') = (i + 1) - Len(local_intents)
    BY <1>2, <1>3, <1>4
  <2>2. CASE i <= Len(local_intents')
    <3>1. Waiting'[i] = local_intents'[i] /\ Waiting[i + 1] = local_intents[i + 1]
      BY Zenon, <1>3, <1>4, <2>1, <2>2
    <3>. QED
      BY Zenon, <1>2, <2>1, <2>2, <3>1
  <2>3. CASE ~(i <= Len(local_intents'))
    <3>1. ~(i + 1 <= Len(local_intents))
      BY Zenon, <2>1, <2>3
    <3>2. Waiting'[i] = outbound_queue[i - Len(local_intents')]
      BY Zenon, <1>3, <2>1, <2>3
    <3>3. Waiting[i + 1] = outbound_queue[(i + 1) - Len(local_intents)]
      BY Zenon, <1>4, <2>1, <3>1
    <3>. QED
      BY Zenon, <2>1, <3>2, <3>3
  <2>. QED
    BY Zenon, <2>2, <2>3
<1>. QED
  BY Zenon, <1>2, <1>5, <1>6

-----------------------------------------------------------------------------
(* What the threads hold.                                                  *)

\* The order an accepted submission creates is new and gets tracked; what a
\* cancel or a replacement names by client id is tracked already.
LEMMA TrackStep ==
    ASSUME NEW intent \in Intents, Core!validate_and_track_submission(intent)
    PROVE  /\ CreatesOrder(intent) =>
                  /\ intent.client_order_id \in ClientOrderIds \ Tracked
                  /\ Tracked' = Tracked \cup {intent.client_order_id}
           /\ ~CreatesOrder(intent) => Tracked' = Tracked
           /\ TargetOf(intent) # None => TargetOf(intent) \in Tracked
<1>1. intent \in OrderIntent /\ Core!SubmissionIsValid(intent)
  BY Zenon, ManagerAssumption DEF Core!validate_and_track_submission
<1>2. CreatesOrder(intent) => intent.client_order_id \in ClientOrderIds \ Tracked
  BY Zenon, <1>1 DEF Core!SubmissionIsValid, Core!ReplaceIsFresh, Core!Tracked, CreatesOrder,
     OrderIntent, Tracked
<1>3. /\ CreatesOrder(intent) => Tracked' = Tracked \cup {intent.client_order_id}
      /\ ~CreatesOrder(intent) => Tracked' = Tracked
  BY Zenon DEF Core!validate_and_track_submission, Core!Put, Core!CreatesOrder, CreatesOrder, Tracked
<1>4. TargetOf(intent) # None => TargetOf(intent) \in Tracked
  BY Zenon, <1>1 DEF TargetOf, Core!SubmissionIsValid, Core!TargetIsLive, Core!resolved_target_id,
     Core!Active, Core!Tracked, Tracked
<1>. QED
  BY Zenon, <1>2, <1>3, <1>4

\* What submit() does to the submission of s, and that it leaves the others.
LEMMA SubmitterStep ==
    ASSUME HoldingsInv, NEW s \in Submitters,
           \/ \E intent \in IntentsOf[s] : SubmitCheck(s, intent)
           \/ SubmitTrack(s) \/ SubmitRefuse(s) \/ SubmitEnqueue(s)
    PROVE  /\ submitter' \in [Submitters -> Submission \cup {None}]
           /\ submitter'[s] # None => submitter'[s].intent \in IntentsOf[s]
           /\ \A t \in Submitters \ {s} : submitter'[t] = submitter[t]
           /\ InSubmit(s)' <=> SubmitTrack(s)
           /\ SubmitTrack(s) => /\ submitter'[s].intent = submitter[s].intent
                                /\ submitter[s].intent \in Intents
           /\ SubmitEnqueue(s) => InSubmit(s)
<1>1. submitter \in [Submitters -> Submission \cup {None}]
  BY Zenon DEF HoldingsInv
<1>2. CASE \E intent \in IntentsOf[s] : SubmitCheck(s, intent)
  <2>1. PICK intent \in IntentsOf[s] : SubmitCheck(s, intent)
    BY Zenon, <1>2
  <2>2. intent \in Intents
    BY Zenon DEF Intents
  <2>3. /\ submitter[s] = None
        /\ submitter' = [submitter EXCEPT ![s] = [stage |-> "validate", intent |-> intent]]
    BY Zenon, <2>1 DEF SubmitCheck
  <2>4. [stage |-> "validate", intent |-> intent] \in Submission
    BY Zenon, <2>2 DEF Submission
  <2>. QED
    BY Zenon, <1>1, <2>3, <2>4 DEF InSubmit, SubmitTrack, SubmitEnqueue
<1>3. CASE SubmitTrack(s)
  <2>1. /\ submitter[s] # None
        /\ submitter' = [submitter EXCEPT ![s].stage = "tracked"]
        /\ submitter[s].stage = "validate"
    BY Zenon, <1>3 DEF SubmitTrack
  <2>2. submitter[s] \in Submission
    BY Zenon, <1>1, <2>1
  <2>3. /\ [submitter[s] EXCEPT !.stage = "tracked"] \in Submission
        /\ [submitter[s] EXCEPT !.stage = "tracked"].intent = submitter[s].intent
        /\ [submitter[s] EXCEPT !.stage = "tracked"].stage = "tracked"
        /\ submitter[s].intent \in Intents
    BY Zenon, <2>2 DEF Submission
  <2>4. /\ submitter'[s] = [submitter[s] EXCEPT !.stage = "tracked"]
        /\ submitter' \in [Submitters -> Submission \cup {None}]
        /\ \A t \in Submitters \ {s} : submitter'[t] = submitter[t]
    BY Zenon, <1>1, <2>1, <2>3
  <2>5. submitter'[s] # None
    BY Zenon, <2>3, <2>4, ManagerAssumption
  <2>6. ~SubmitEnqueue(s)
    BY Zenon, <2>1 DEF SubmitEnqueue
  <2>. QED
    BY Zenon, <1>3, <2>1, <2>3, <2>4, <2>5, <2>6 DEF InSubmit, HoldingsInv
<1>4. CASE SubmitRefuse(s) \/ SubmitEnqueue(s)
  <2>1. submitter' = [submitter EXCEPT ![s] = None]
    BY Zenon, <1>4 DEF SubmitRefuse, SubmitEnqueue
  <2>2. submitter'[s] = None
    BY Zenon, <1>1, <2>1
  <2>3. ~SubmitTrack(s)
    <3>1. SUFFICES ASSUME SubmitTrack(s) PROVE FALSE
      BY Zenon
    <3>2. submitter[s] # None /\ submitter'[s] = [submitter[s] EXCEPT !.stage = "tracked"]
      BY Zenon, <1>1, <3>1 DEF SubmitTrack
    <3>3. [submitter[s] EXCEPT !.stage = "tracked"] \in Submission
      BY Zenon, <1>1, <3>2 DEF Submission
    <3>. QED
      BY Zenon, <2>2, <3>2, <3>3, ManagerAssumption
  <2>. QED
    BY Zenon, <1>1, <1>4, <2>1, <2>2, <2>3 DEF InSubmit, SubmitEnqueue
<1>. QED
  BY Zenon, <1>2, <1>3, <1>4

\* Every step keeps what the threads hold well-formed.
LEMMA HoldingsAreInductive ==
    ASSUME PhaseInv, HoldingsInv, [Next]_vars
    PROVE  HoldingsInv'
<1>1. CASE Idle
  BY Zenon, <1>1, IdleFrame DEF HoldingsInv
<1>2. CASE Drop \/ SendIntent
  <2>1. /\ worker \in Draining /\ NextIntent /\ outbound_queue' = outbound_queue
        /\ submitter' = submitter
    BY Zenon, <1>2 DEF Drop, EvaluateGlobalRisk, EvaluatePortfolioRisk, SendIntent, Draining,
       submitVars
  <2>2. local_intents' \in Seq(Intents)
    BY Zenon, <2>1, NextIntentMovesLine
  <2>3. \/ UNCHANGED coreVars
        \/ Core!ApplyRiskReject(Head(local_intents))
    BY Zenon, <1>2 DEF Drop, EvaluateGlobalRisk, EvaluatePortfolioRisk, SendIntent
  <2>4. Tracked' = Tracked
    BY Zenon, <2>3, UpdateKeepsTracked
  <2>. QED
    BY Zenon, <2>1, <2>2, <2>4 DEF HoldingsInv
<1>3. ASSUME NEW s \in Submitters,
             \/ \E intent \in IntentsOf[s] : SubmitCheck(s, intent)
             \/ SubmitTrack(s) \/ SubmitRefuse(s) \/ SubmitEnqueue(s)
      PROVE  HoldingsInv'
  <2>1. /\ submitter' \in [Submitters -> Submission \cup {None}]
        /\ \A t \in Submitters : submitter'[t] # None => submitter'[t].intent \in IntentsOf[t]
    BY Zenon, <1>3, SubmitterStep DEF HoldingsInv
  <2>2. local_intents' \in Seq(Intents) /\ outbound_queue' \in Seq(Intents)
    <3>1. CASE SubmitEnqueue(s)
      BY Zenon, <3>1, EnqueueExtendsLine DEF HoldingsInv
    <3>2. CASE ~SubmitEnqueue(s)
      BY Zenon, <1>3, <3>2 DEF HoldingsInv, SubmitCheck, SubmitTrack, SubmitRefuse, workerVars
    <3>. QED
      BY Zenon, <3>1, <3>2
  <2>3. Tracked' \subseteq ClientOrderIds
    <3>1. CASE SubmitTrack(s)
      <4>1. submitter[s].intent \in Intents
        BY Zenon, <3>1, SubmitterStep
      <4>2. Core!validate_and_track_submission(submitter[s].intent)
        BY Zenon, <3>1 DEF SubmitTrack
      <4>3. Tracked' = Tracked \/ \E c \in ClientOrderIds : Tracked' = Tracked \cup {c}
        BY Zenon, <4>1, <4>2, TrackStep
      <4>. QED
        BY Zenon, <4>3 DEF HoldingsInv
    <3>2. CASE ~SubmitTrack(s)
      BY Zenon, <1>3, <3>2 DEF SubmitCheck, SubmitRefuse, SubmitEnqueue, coreVars, Tracked,
         HoldingsInv
    <3>. QED
      BY Zenon, <3>1, <3>2
  <2>. QED
    BY Zenon, <2>1, <2>2, <2>3 DEF HoldingsInv
<1>4. CASE StartReset
  BY Zenon, <1>4 DEF StartReset, HoldingsInv, Tracked, workerVars, submitVars
<1>5. CASE SwapQueue
  BY Zenon, <1>5, EmptySeq DEF SwapQueue, HoldingsInv, Tracked, coreVars
<1>. QED
  BY Zenon, <1>1, <1>2, <1>3, <1>4, <1>5, StepKinds

-----------------------------------------------------------------------------
(* One session                                                             *)

\* Steps that hand no intent over.
LEMMA SessionWhenQuiet ==
    ASSUME SessionInv, UNCHANGED <<Waiting, submitter, placements, starts>>,
           Tracked' = Tracked
    PROVE  SessionInv'
BY DEF SessionInv, BeforeStart, CreatorsTracked, CreatorsDiffer, PlacedOnce, InSubmit

\* The line after its head has left.
LineMoved ==
    /\ Len(Waiting) \in Nat /\ Len(Waiting) >= 1
    /\ Len(Waiting') = Len(Waiting) - 1
    /\ \A i \in 1..Len(Waiting') : Waiting'[i] = Waiting[i + 1]

\* The head leaves without an order being placed.
LEMMA SessionAfterDrop ==
    ASSUME PhaseInv, SessionInv, LineMoved, UNCHANGED <<submitter, placements, starts>>,
           Tracked' = Tracked
    PROVE  SessionInv'
<1>1. \A i \in 1..Len(Waiting') : i + 1 \in 1..Len(Waiting) /\ Waiting'[i] = Waiting[i + 1]
  BY DEF LineMoved
<1>2. starts # 0
  <2>1. Waiting # <<>>
    BY DEF LineMoved
  <2>. QED
    BY Zenon, <2>1 DEF SessionInv, BeforeStart
<1>3. ASSUME starts <= 1 PROVE CreatorsTracked' /\ PlacedOnce'
  BY Zenon, <1>1, <1>3 DEF SessionInv, CreatorsTracked, PlacedOnce, InSubmit
<1>4. ASSUME starts <= 1 PROVE CreatorsDiffer'
  <2>1. ASSUME NEW i \in 1..Len(Waiting'), NEW j \in 1..Len(Waiting'), NEW c \in Tracked,
               i # j, Creates(Waiting'[i], c), Creates(Waiting'[j], c)
        PROVE  FALSE
    <3>1. /\ i + 1 \in 1..Len(Waiting) /\ Waiting'[i] = Waiting[i + 1]
          /\ j + 1 \in 1..Len(Waiting) /\ Waiting'[j] = Waiting[j + 1]
          /\ i + 1 # j + 1
      BY <1>1, <2>1
    <3>. QED
      BY Zenon, <1>4, <2>1, <3>1 DEF SessionInv, CreatorsDiffer
  <2>2. \A i \in 1..Len(Waiting'), s \in Submitters : \A c \in Tracked :
            InSubmit(s) => ~(Creates(Waiting'[i], c) /\ Creates(submitter[s].intent, c))
    BY Zenon, <1>1, <1>4 DEF SessionInv, CreatorsDiffer
  <2>3. \A s, t \in Submitters : \A c \in Tracked :
            s # t /\ InSubmit(s) /\ InSubmit(t) =>
                ~(Creates(submitter[s].intent, c) /\ Creates(submitter[t].intent, c))
    BY Zenon, <1>4 DEF SessionInv, CreatorsDiffer
  <2>. QED
    BY Zenon, <2>1, <2>2, <2>3 DEF CreatorsDiffer, InSubmit, Creates
<1>. QED
  BY Zenon, <1>2, <1>3, <1>4 DEF SessionInv, BeforeStart

\* The head leaves and its order is placed, for the first time.
LEMMA SessionAfterPlace ==
    ASSUME PhaseInv, SessionInv, LineMoved, UNCHANGED <<submitter, starts>>,
           Tracked' = Tracked, CreatesOrder(Waiting[1]),
           Waiting[1].client_order_id \in ClientOrderIds,
           placements' = [placements EXCEPT ![Waiting[1].client_order_id] = @ + 1]
    PROVE  SessionInv'
<1> DEFINE id == Waiting[1].client_order_id
<1>1. \A i \in 1..Len(Waiting') : /\ i + 1 \in 1..Len(Waiting) /\ i + 1 # 1
                                  /\ Waiting'[i] = Waiting[i + 1]
  BY DEF LineMoved
<1>2. starts # 0
  <2>1. Waiting # <<>>
    BY DEF LineMoved
  <2>. QED
    BY Zenon, <2>1 DEF SessionInv, BeforeStart
<1>3. placements' \in [ClientOrderIds -> Nat]
  BY DEF SessionInv
<1>4. ASSUME starts <= 1 PROVE CreatorsTracked' /\ CreatorsDiffer' /\ PlacedOnce'
  <2>1. 1 \in 1..Len(Waiting) /\ Creates(Waiting[1], id)
    BY DEF LineMoved, Creates
  <2>2. /\ id \in Tracked /\ placements[id] = 0
        /\ \A i \in 1..Len(Waiting') : ~Creates(Waiting'[i], id)
        /\ \A s \in Submitters : InSubmit(s) => ~Creates(submitter[s].intent, id)
    <3>1. id \in Tracked
      BY Zenon, <1>4, <2>1 DEF SessionInv, CreatorsTracked
    <3>2. placements[id] = 0
      BY Zenon, <1>4, <2>1 DEF SessionInv, PlacedOnce
    <3>3. \A i \in 1..Len(Waiting) : i # 1 => ~Creates(Waiting[i], id)
      BY Zenon, <1>4, <2>1, <3>1 DEF SessionInv, CreatorsDiffer
    <3>4. \A s \in Submitters : InSubmit(s) => ~Creates(submitter[s].intent, id)
      BY Zenon, <1>4, <2>1, <3>1 DEF SessionInv, CreatorsDiffer
    <3>. QED
      BY Zenon, <1>1, <3>1, <3>2, <3>3, <3>4
  <2>3. /\ placements'[id] = 1
        /\ \A c \in ClientOrderIds \ {id} : placements'[c] = placements[c]
    BY <2>2 DEF SessionInv
  <2>4. PlacedOnce'
    <3>1. ASSUME NEW c \in ClientOrderIds, placements'[c] # 0
          PROVE  /\ placements'[c] = 1
                 /\ c \in Tracked
                 /\ \A i \in 1..Len(Waiting') : ~Creates(Waiting'[i], c)
                 /\ \A s \in Submitters : InSubmit(s) => ~Creates(submitter[s].intent, c)
      <4>1. CASE c = id
        BY Zenon, <2>2, <2>3, <4>1
      <4>2. CASE c # id
        BY Zenon, <1>1, <1>4, <2>3, <3>1, <4>2 DEF SessionInv, PlacedOnce
      <4>. QED
        BY Zenon, <4>1, <4>2
    <3>. QED
      BY Zenon, <3>1 DEF PlacedOnce, InSubmit, Creates
  <2>5. CreatorsTracked'
    BY Zenon, <1>1, <1>4 DEF SessionInv, CreatorsTracked, InSubmit
  <2>6. CreatorsDiffer'
    <3>1. ASSUME NEW i \in 1..Len(Waiting'), NEW j \in 1..Len(Waiting'), NEW c \in Tracked,
                 i # j, Creates(Waiting'[i], c), Creates(Waiting'[j], c)
          PROVE  FALSE
      <4>1. /\ i + 1 \in 1..Len(Waiting) /\ Waiting'[i] = Waiting[i + 1]
            /\ j + 1 \in 1..Len(Waiting) /\ Waiting'[j] = Waiting[j + 1]
            /\ i + 1 # j + 1
        BY <1>1, <3>1
      <4>. QED
        BY Zenon, <1>4, <3>1, <4>1 DEF SessionInv, CreatorsDiffer
    <3>2. \A i \in 1..Len(Waiting'), s \in Submitters : \A c \in Tracked :
              InSubmit(s) => ~(Creates(Waiting'[i], c) /\ Creates(submitter[s].intent, c))
      BY Zenon, <1>1, <1>4 DEF SessionInv, CreatorsDiffer
    <3>3. \A s, t \in Submitters : \A c \in Tracked :
              s # t /\ InSubmit(s) /\ InSubmit(t) =>
                  ~(Creates(submitter[s].intent, c) /\ Creates(submitter[t].intent, c))
      BY Zenon, <1>4 DEF SessionInv, CreatorsDiffer
    <3>. QED
      BY Zenon, <3>1, <3>2, <3>3 DEF CreatorsDiffer, InSubmit, Creates
  <2>. QED
    BY Zenon, <2>4, <2>5, <2>6
<1>. QED
  BY Zenon, <1>2, <1>3, <1>4 DEF SessionInv, BeforeStart

\* Nobody submits before the first start().
LEMMA SubmitsInSession ==
    ASSUME PhaseInv, SessionInv, NEW s \in Submitters,
           \/ \E intent \in IntentsOf[s] : SubmitCheck(s, intent)
           \/ SubmitTrack(s) \/ SubmitRefuse(s) \/ SubmitEnqueue(s)
    PROVE  starts # 0
BY Zenon DEF PhaseInv, SessionInv, BeforeStart, SubmitCheck, SubmitTrack, SubmitRefuse, SubmitEnqueue

\* submit() is called, or refuses the intent.
LEMMA SessionAfterCheck ==
    ASSUME PhaseInv, HoldingsInv, SessionInv, NEW s \in Submitters,
           (\E intent \in IntentsOf[s] : SubmitCheck(s, intent)) \/ SubmitRefuse(s)
    PROVE  SessionInv'
<1>1. UNCHANGED <<Waiting, placements, starts>> /\ Tracked' = Tracked
  BY Zenon DEF SubmitCheck, SubmitRefuse, coreVars, transportVars, workerVars, callerVars, Waiting,
     Tracked
<1>2. ~SubmitTrack(s)
  BY Zenon DEF SubmitCheck, SubmitRefuse, SubmitTrack, Core!validate_and_track_submission
<1>3. ~InSubmit(s)' /\ \A t \in Submitters \ {s} : submitter'[t] = submitter[t]
  BY Zenon, <1>2, SubmitterStep
<1>4. \A t \in Submitters : InSubmit(t)' => InSubmit(t) /\ submitter'[t] = submitter[t]
  BY Zenon, <1>3 DEF InSubmit
<1>5. starts # 0
  BY Zenon, SubmitsInSession
<1>6. ASSUME starts <= 1 PROVE CreatorsTracked' /\ CreatorsDiffer' /\ PlacedOnce'
  BY <1>1, <1>4, <1>6 DEF SessionInv, CreatorsTracked, CreatorsDiffer, PlacedOnce, Creates
<1>. QED
  BY Zenon, <1>1, <1>5, <1>6 DEF SessionInv, BeforeStart

\* submit() tracks the order: nobody else creates one under its id.
LEMMA SessionAfterTrack ==
    ASSUME PhaseInv, HoldingsInv, SessionInv, NEW s \in Submitters, SubmitTrack(s)
    PROVE  SessionInv'
<1> DEFINE e == submitter[s].intent
<1>1. UNCHANGED <<Waiting, placements, starts>>
  BY Zenon DEF SubmitTrack, transportVars, workerVars, callerVars, Waiting
<1>2. /\ InSubmit(s)' /\ ~InSubmit(s) /\ submitter'[s].intent = e /\ e \in Intents
      /\ \A t \in Submitters \ {s} : submitter'[t] = submitter[t]
  BY Zenon, SubmitterStep DEF SubmitTrack, InSubmit
<1>3. /\ CreatesOrder(e) => /\ e.client_order_id \in ClientOrderIds \ Tracked
                            /\ Tracked' = Tracked \cup {e.client_order_id}
      /\ ~CreatesOrder(e) => Tracked' = Tracked
  BY Zenon, <1>2, TrackStep DEF SubmitTrack
<1> HIDE DEF e
<1>4. \A t \in Submitters \ {s} :
          (InSubmit(t)' <=> InSubmit(t)) /\ submitter'[t].intent = submitter[t].intent
  BY Zenon, <1>2 DEF InSubmit
<1>5. starts # 0
  BY Zenon, SubmitsInSession
<1>6. ASSUME starts <= 1 PROVE CreatorsTracked' /\ CreatorsDiffer' /\ PlacedOnce'
  <2>1. CreatorsTracked'
    BY Zenon, <1>1, <1>2, <1>3, <1>4, <1>6 DEF SessionInv, CreatorsTracked
  <2>2. /\ \A i \in 1..Len(Waiting) : ~CreatesOrder(Waiting[i])
               \/ Waiting[i].client_order_id \in Tracked
        /\ \A t \in Submitters \ {s} : InSubmit(t) => \/ ~CreatesOrder(submitter[t].intent)
               \/ submitter[t].intent.client_order_id \in Tracked
    BY Zenon, <1>6 DEF SessionInv, CreatorsTracked
  <2>3. CreatorsDiffer'
    <3>1. ASSUME NEW c \in Tracked', c \notin Tracked
          PROVE  /\ \A i \in 1..Len(Waiting) : ~Creates(Waiting[i], c)
                 /\ \A t \in Submitters \ {s} : InSubmit(t) => ~Creates(submitter[t].intent, c)
      BY Zenon, <2>2, <3>1 DEF Creates
    <3>2. ASSUME NEW c \in Tracked PROVE ~Creates(e, c)
      BY Zenon, <1>3 DEF Creates
    <3>3. \A i, j \in 1..Len(Waiting) : \A c \in Tracked' :
              i # j => ~(Creates(Waiting[i], c) /\ Creates(Waiting[j], c))
      BY Zenon, <1>6, <3>1 DEF SessionInv, CreatorsDiffer
    <3>4. ASSUME NEW i \in 1..Len(Waiting), NEW t \in Submitters, NEW c \in Tracked', InSubmit(t)'
          PROVE  ~(Creates(Waiting[i], c) /\ Creates(submitter'[t].intent, c))
      <4>1. CASE t = s
        BY Zenon, <1>2, <3>1, <3>2, <4>1
      <4>2. CASE t # s
        BY Zenon, <1>4, <1>6, <3>1, <3>4, <4>2 DEF SessionInv, CreatorsDiffer
      <4>. QED
        BY Zenon, <4>1, <4>2
    <3>5. ASSUME NEW t \in Submitters, NEW u \in Submitters, NEW c \in Tracked',
                 t # u, InSubmit(t)', InSubmit(u)'
          PROVE  ~(Creates(submitter'[t].intent, c) /\ Creates(submitter'[u].intent, c))
      <4>1. CASE t # s /\ u # s
        BY Zenon, <1>4, <1>6, <3>1, <3>5, <4>1 DEF SessionInv, CreatorsDiffer
      <4>2. CASE t = s
        BY Zenon, <1>2, <1>4, <3>1, <3>2, <3>5, <4>2
      <4>3. CASE u = s
        BY Zenon, <1>2, <1>4, <3>1, <3>2, <3>5, <4>3
      <4>. QED
        BY Zenon, <4>1, <4>2, <4>3
    <3>. QED
      BY <1>1, <3>3, <3>4, <3>5 DEF CreatorsDiffer, Creates
  <2>4. PlacedOnce'
    <3>1. ASSUME NEW c \in ClientOrderIds, placements[c] # 0 PROVE ~Creates(e, c)
      BY Zenon, <1>3, <1>6, <3>1 DEF SessionInv, PlacedOnce, Creates
    <3>2. Tracked \subseteq Tracked'
      BY Zenon, <1>3
    <3>. QED
      BY <1>1, <1>2, <1>4, <1>6, <3>1, <3>2 DEF SessionInv, PlacedOnce, Creates
  <2>. QED
    BY Zenon, <2>1, <2>3, <2>4
<1>. QED
  BY Zenon, <1>1, <1>5, <1>6 DEF SessionInv, BeforeStart

\* submit() puts the intent at the end of the line.
LEMMA SessionAfterEnqueue ==
    ASSUME PhaseInv, HoldingsInv, SessionInv, NEW s \in Submitters, SubmitEnqueue(s)
    PROVE  SessionInv'
<1> DEFINE e == submitter[s].intent
           n == Len(Waiting)
<1>1. UNCHANGED <<placements, starts>> /\ Tracked' = Tracked
  BY Zenon DEF SubmitEnqueue, coreVars, transportVars, callerVars, Tracked
<1>2. ~SubmitTrack(s)
  BY Zenon DEF SubmitEnqueue, SubmitTrack
<1>3. /\ InSubmit(s) /\ ~InSubmit(s)'
      /\ \A t \in Submitters \ {s} : submitter'[t] = submitter[t]
  BY Zenon, <1>2, SubmitterStep
<1>4. \A t \in Submitters : InSubmit(t)' =>
          t # s /\ InSubmit(t) /\ submitter'[t] = submitter[t]
  BY Zenon, <1>3 DEF InSubmit
<1>5. /\ n \in Nat /\ Len(Waiting') = n + 1
      /\ \A i \in 1..n : Waiting'[i] = Waiting[i]
      /\ Waiting'[n + 1] = e
  BY EnqueueExtendsLine, WaitingIsLine
<1> HIDE DEF e, n
<1>6. \A i \in 1..Len(Waiting') : \/ i \in 1..n /\ Waiting'[i] = Waiting[i]
                                  \/ i = n + 1 /\ Waiting'[i] = e
  BY <1>5
<1>7. starts # 0
  BY Zenon, SubmitsInSession
<1>8. ASSUME starts <= 1 PROVE CreatorsTracked' /\ CreatorsDiffer' /\ PlacedOnce'
  <2>1. CreatorsTracked'
    BY Zenon, <1>1, <1>3, <1>4, <1>6, <1>8 DEF SessionInv, CreatorsTracked, e, n
  <2>2. PlacedOnce'
    BY <1>1, <1>3, <1>4, <1>6, <1>8 DEF SessionInv, PlacedOnce, e, n, Creates
  <2>3. CreatorsDiffer'
    <3>1. ASSUME NEW i \in 1..n, NEW c \in Tracked
          PROVE  ~(Creates(Waiting[i], c) /\ Creates(e, c))
      BY Zenon, <1>3, <1>8 DEF SessionInv, CreatorsDiffer, e, n
    <3>2. ASSUME NEW i \in 1..Len(Waiting'), NEW j \in 1..Len(Waiting'), NEW c \in Tracked, i # j
          PROVE  ~(Creates(Waiting'[i], c) /\ Creates(Waiting'[j], c))
      <4>1. CASE i \in 1..n /\ j \in 1..n
        BY Zenon, <1>5, <1>8, <3>2, <4>1 DEF SessionInv, CreatorsDiffer, n
      <4>2. CASE i = n + 1
        <5>1. j \in 1..n /\ Waiting'[i] = e /\ Waiting'[j] = Waiting[j]
          BY <1>5, <3>2, <4>2
        <5>. QED
          BY Zenon, <3>1, <5>1
      <4>3. CASE j = n + 1
        <5>1. i \in 1..n /\ Waiting'[j] = e /\ Waiting'[i] = Waiting[i]
          BY <1>5, <3>2, <4>3
        <5>. QED
          BY Zenon, <3>1, <5>1
      <4>. QED
        BY <1>5, <4>1, <4>2, <4>3
    <3>3. ASSUME NEW i \in 1..Len(Waiting'), NEW t \in Submitters, NEW c \in Tracked, InSubmit(t)'
          PROVE  ~(Creates(Waiting'[i], c) /\ Creates(submitter'[t].intent, c))
      <4>1. t # s /\ InSubmit(t) /\ submitter'[t] = submitter[t]
        BY Zenon, <1>4, <3>3
      <4>2. CASE i \in 1..n /\ Waiting'[i] = Waiting[i]
        BY Zenon, <1>8, <4>1, <4>2 DEF SessionInv, CreatorsDiffer, n
      <4>3. CASE Waiting'[i] = e
        BY Zenon, <1>3, <1>8, <4>1, <4>3 DEF SessionInv, CreatorsDiffer, e
      <4>. QED
        BY Zenon, <1>6, <4>2, <4>3
    <3>4. \A t, u \in Submitters : \A c \in Tracked :
              t # u /\ InSubmit(t)' /\ InSubmit(u)' =>
                  ~(Creates(submitter'[t].intent, c) /\ Creates(submitter'[u].intent, c))
      BY Zenon, <1>4, <1>8 DEF SessionInv, CreatorsDiffer
    <3>. QED
      BY Zenon, <1>1, <3>2, <3>3, <3>4 DEF CreatorsDiffer, Creates
  <2>. QED
    BY Zenon, <2>1, <2>2, <2>3
<1>. QED
  BY Zenon, <1>1, <1>7, <1>8 DEF SessionInv, BeforeStart

\* An order is placed by the request of an intent that creates it, and once.
LEMMA SendPlaces ==
    ASSUME SendIntent, placements' # placements, Head(local_intents) \in Intents
    PROVE  LET intent == Head(local_intents)
           IN  /\ CreatesOrder(intent)
               /\ intent.client_order_id \in ClientOrderIds
               /\ placements' = [placements EXCEPT ![intent.client_order_id] = @ + 1]
<1> DEFINE intent == Head(local_intents)
           request == build_request(intent)
<1>1. IntentIsComplete(intent) /\ send_text(request)
  BY Zenon DEF SendIntent, transportVars
<1>2. intent \in OrderIntent
  BY Zenon, ManagerAssumption
<1>3. request.client_order_id = intent.client_order_id
  BY Zenon DEF build_request
<1>4. /\ request.action = "place_order" \/ request.action = "replace_order"
      /\ placements' = [placements EXCEPT ![request.client_order_id] = @ + 1]
  BY Zenon, <1>1 DEF send_text, Paper!send_text, Live!send_text
<1>5. CreatesOrder(intent)
  BY Zenon, <1>1, <1>4 DEF build_request, CreatesOrder, IntentIsComplete
<1>6. intent.client_order_id \in ClientOrderIds
  BY Zenon, <1>1, <1>2, <1>5 DEF IntentIsComplete, CreatesOrder, OrderIntent
<1>. QED
  BY Zenon, <1>3, <1>4, <1>5, <1>6

\* Every step keeps the invariant of the session.
LEMMA SessionIsInductive ==
    ASSUME PhaseInv, HoldingsInv, SessionInv, [Next]_vars
    PROVE  SessionInv'
<1>1. CASE Idle
  BY Zenon, <1>1, IdleFrame, SessionWhenQuiet DEF Waiting
<1>2. CASE Drop \/ SendIntent
  <2>1. /\ worker \in Draining /\ NextIntent /\ outbound_queue' = outbound_queue
        /\ UNCHANGED <<submitter, starts>>
    BY Zenon, <1>2 DEF Drop, EvaluateGlobalRisk, EvaluatePortfolioRisk, SendIntent, Draining,
       submitVars, callerVars
  <2>2. LineMoved /\ Waiting[1] = Head(local_intents) /\ Head(local_intents) \in Intents
    BY Zenon, <2>1, NextIntentMovesLine DEF LineMoved
  <2>3. UNCHANGED coreVars \/ Core!ApplyRiskReject(Head(local_intents))
    BY Zenon, <1>2 DEF Drop, EvaluateGlobalRisk, EvaluatePortfolioRisk, SendIntent
  <2>4. Tracked' = Tracked
    BY Zenon, <2>3, UpdateKeepsTracked
  <2>5. CASE placements' = placements
    BY Zenon, <2>1, <2>2, <2>4, <2>5, SessionAfterDrop
  <2>6. CASE placements' # placements
    BY Zenon, <1>2, <2>1, <2>2, <2>4, <2>6, SendPlaces, SessionAfterPlace DEF Drop
  <2>. QED
    BY Zenon, <2>5, <2>6
<1>3. ASSUME NEW s \in Submitters,
             \/ \E intent \in IntentsOf[s] : SubmitCheck(s, intent)
             \/ SubmitTrack(s) \/ SubmitRefuse(s) \/ SubmitEnqueue(s)
      PROVE  SessionInv'
  BY Zenon, <1>3, SessionAfterCheck, SessionAfterTrack, SessionAfterEnqueue
<1>4. CASE StartReset
  <2>1. UNCHANGED <<Waiting, submitter, placements>> /\ starts' = starts + 1
    BY Zenon, <1>4 DEF StartReset, transportVars, workerVars, submitVars, Waiting
  <2>2. CASE starts = 0
    <3>1. /\ Waiting = <<>> /\ \A s \in Submitters : submitter[s] = None
          /\ \A c \in ClientOrderIds : placements[c] = 0
      BY Zenon, <2>2 DEF SessionInv, BeforeStart
    <3>. QED
      BY <2>1, <2>2, <3>1 DEF SessionInv, BeforeStart, CreatorsTracked, CreatorsDiffer,
         PlacedOnce, InSubmit
  <2>3. CASE starts # 0
    <3>1. starts' # 0 /\ ~(starts' <= 1)
      BY <2>1, <2>3 DEF PhaseInv
    <3>. QED
      BY Zenon, <2>1, <3>1 DEF SessionInv, BeforeStart
  <2>. QED
    BY Zenon, <2>2, <2>3
<1>5. CASE SwapQueue
  BY Zenon, <1>5, SwapKeepsLine, SessionWhenQuiet
     DEF SwapQueue, coreVars, transportVars, callerVars, Tracked
<1>. QED
  BY Zenon, <1>1, <1>2, <1>3, <1>4, <1>5, StepKinds

\* The inductive invariant of the manager: its threads' positions, what they
\* hold, and who may still place an order.
THEOREM ManagerInvariance == Spec => []ManagerInv
<1>1. Init => ManagerInv
  <2>1. SUFFICES ASSUME Init PROVE ManagerInv
    BY Zenon
  <2>2. PhaseInv
    BY Zenon, <2>1 DEF Init, PhaseInv, Draining
  <2>3. HoldingsInv
    BY Zenon, <2>1, EmptySeq DEF Init, HoldingsInv, Tracked
  <2>4. Waiting = <<>>
    BY Zenon, <2>1, ConcatEmptySeq, EmptySeq DEF Init, Waiting
  <2>5. SessionInv
    BY <2>1, <2>4 DEF Init, TransportInit, Paper!Init, SessionInv, BeforeStart, CreatorsTracked,
       CreatorsDiffer, PlacedOnce, InSubmit
  <2>. QED
    BY Zenon, <2>2, <2>3, <2>5 DEF ManagerInv
<1>2. ManagerInv /\ [Next]_vars => ManagerInv'
  BY Zenon, PhaseIsInductive, HoldingsAreInductive, SessionIsInductive DEF ManagerInv
<1>. QED
  BY <1>1, <1>2, PTL DEF Spec

\* PlacedAtMostOnce for every number of threads, submissions and client ids, on
\* the paper and on the live transport.
THEOREM OrdersPlacedAtMostOnce == Spec => []PlacedAtMostOnce
<1>1. ManagerInv => PlacedAtMostOnce
  <2>1. SUFFICES ASSUME ManagerInv, starts <= 1, NEW c \in ClientOrderIds
                 PROVE  placements[c] <= 1
    BY Zenon DEF PlacedAtMostOnce
  <2>2. placements[c] = 0 \/ placements[c] = 1
    BY Zenon, <2>1 DEF ManagerInv, SessionInv, PlacedOnce
  <2>. QED
    BY <2>2
<1>. QED
  BY <1>1, ManagerInvariance, PTL

-----------------------------------------------------------------------------
(* A cancel or a replacement, and the order it names.                      *)

\* Steps that hand no intent over.
LEMMA TargetsWhenQuiet ==
    ASSUME TargetInv, UNCHANGED <<Waiting, submitter, starts>>, Tracked' = Tracked
    PROVE  TargetInv'
BY Zenon DEF TargetInv, WaitingTargets, SubmittedTargets, InSubmit, Creates, TargetOf

\* The head of the line leaves.
LEMMA TargetsAfterDrop ==
    ASSUME TargetInv, LineMoved, UNCHANGED <<submitter, starts>>, Tracked' = Tracked
    PROVE  TargetInv'
<1>1. SUFFICES ASSUME starts <= 1 PROVE WaitingTargets' /\ SubmittedTargets'
  BY Zenon DEF TargetInv
<1>2. SubmittedTargets'
  BY Zenon, <1>1 DEF TargetInv, SubmittedTargets, InSubmit
<1>3. ASSUME NEW i \in 1..Len(Waiting'), TargetOf(Waiting'[i]) # None
      PROVE  LET target == TargetOf(Waiting'[i])
             IN  /\ target \in Tracked
                 /\ \A j \in i + 1..Len(Waiting') : ~Creates(Waiting'[j], target)
                 /\ \A s \in Submitters : InSubmit(s) => ~Creates(submitter[s].intent, target)
  <2>1. i + 1 \in 1..Len(Waiting) /\ Waiting'[i] = Waiting[i + 1]
    BY DEF LineMoved
  <2>2. \A j \in i + 1..Len(Waiting') : /\ j + 1 \in (i + 1) + 1..Len(Waiting)
                                        /\ Waiting'[j] = Waiting[j + 1]
    BY DEF LineMoved
  <2>. QED
    BY Zenon, <1>1, <1>3, <2>1, <2>2 DEF TargetInv, WaitingTargets
<1>. QED
  BY Zenon, <1>2, <1>3 DEF WaitingTargets, InSubmit, Creates, TargetOf

\* submit() is called, or refuses the intent.
LEMMA TargetsAfterCheck ==
    ASSUME HoldingsInv, TargetInv, NEW s \in Submitters,
           (\E intent \in IntentsOf[s] : SubmitCheck(s, intent)) \/ SubmitRefuse(s)
    PROVE  TargetInv'
<1>1. UNCHANGED <<Waiting, starts>> /\ Tracked' = Tracked
  BY Zenon DEF SubmitCheck, SubmitRefuse, coreVars, workerVars, callerVars, Waiting, Tracked
<1>2. ~SubmitTrack(s)
  BY Zenon DEF SubmitCheck, SubmitRefuse, SubmitTrack, Core!validate_and_track_submission
<1>3. ~InSubmit(s)' /\ \A t \in Submitters \ {s} : submitter'[t] = submitter[t]
  BY Zenon, <1>2, SubmitterStep
<1>4. \A t \in Submitters : InSubmit(t)' => InSubmit(t) /\ submitter'[t] = submitter[t]
  BY Zenon, <1>3 DEF InSubmit
<1>. QED
  BY Zenon, <1>1, <1>4 DEF TargetInv, WaitingTargets, SubmittedTargets, Creates, TargetOf

\* submit() tracks an order: it is new, so nothing that waits names it.
LEMMA TargetsAfterTrack ==
    ASSUME HoldingsInv, TargetInv, NEW s \in Submitters, SubmitTrack(s)
    PROVE  TargetInv'
<1> DEFINE e == submitter[s].intent
<1>1. UNCHANGED <<Waiting, starts>>
  BY Zenon DEF SubmitTrack, workerVars, callerVars, Waiting
<1>2. /\ InSubmit(s)' /\ submitter'[s].intent = e /\ e \in Intents
      /\ \A t \in Submitters \ {s} : submitter'[t] = submitter[t]
  BY Zenon, SubmitterStep
<1>3. /\ CreatesOrder(e) => /\ e.client_order_id \in ClientOrderIds \ Tracked
                            /\ Tracked' = Tracked \cup {e.client_order_id}
      /\ ~CreatesOrder(e) => Tracked' = Tracked
      /\ TargetOf(e) # None => TargetOf(e) \in Tracked
  BY Zenon, <1>2, TrackStep DEF SubmitTrack
<1> HIDE DEF e
<1>4. \A t \in Submitters \ {s} :
          (InSubmit(t)' <=> InSubmit(t)) /\ submitter'[t].intent = submitter[t].intent
  BY Zenon, <1>2 DEF InSubmit
<1>5. SUFFICES ASSUME starts <= 1 PROVE WaitingTargets' /\ SubmittedTargets'
  BY Zenon, <1>1 DEF TargetInv
<1>6. /\ Tracked \subseteq Tracked'
      /\ \A c \in Tracked : ~Creates(e, c)
  BY Zenon, <1>3 DEF Creates
<1>7. SubmittedTargets'
  <2>1. \A t \in Submitters : InSubmit(t)' /\ TargetOf(submitter'[t].intent) # None =>
            TargetOf(submitter'[t].intent) \in Tracked'
    BY Zenon, <1>2, <1>3, <1>4, <1>5, <1>6 DEF TargetInv, SubmittedTargets
  <2>. QED
    BY Zenon, <2>1 DEF SubmittedTargets, TargetOf
<1>8. WaitingTargets'
  <2>1. \A i \in 1..Len(Waiting) : TargetOf(Waiting[i]) # None =>
            /\ TargetOf(Waiting[i]) \in Tracked'
            /\ \A j \in i + 1..Len(Waiting) : ~Creates(Waiting[j], TargetOf(Waiting[i]))
            /\ \A t \in Submitters :
                  InSubmit(t)' => ~Creates(submitter'[t].intent, TargetOf(Waiting[i]))
    BY Zenon, <1>2, <1>4, <1>5, <1>6 DEF TargetInv, WaitingTargets
  <2>. QED
    BY Zenon, <1>1, <2>1 DEF WaitingTargets, TargetOf, Creates
<1>. QED
  BY Zenon, <1>7, <1>8

\* submit() puts the intent at the end of the line.  If it names an order, no
\* other thread is about to queue that order.
LEMMA TargetsAfterEnqueue ==
    ASSUME HoldingsInv, TargetInv, NEW s \in Submitters, SubmitEnqueue(s)
    PROVE  TargetInv'
<1> DEFINE e == submitter[s].intent
           n == Len(Waiting)
<1>1. starts' = starts /\ Tracked' = Tracked
  BY Zenon DEF SubmitEnqueue, coreVars, callerVars, Tracked
<1>2. ~SubmitTrack(s)
  BY Zenon DEF SubmitEnqueue, SubmitTrack
<1>3. /\ InSubmit(s) /\ ~InSubmit(s)'
      /\ \A t \in Submitters \ {s} : submitter'[t] = submitter[t]
  BY Zenon, <1>2, SubmitterStep
<1>4. \A t \in Submitters : InSubmit(t)' =>
          t # s /\ InSubmit(t) /\ submitter'[t] = submitter[t]
  BY Zenon, <1>3 DEF InSubmit
<1>5. /\ n \in Nat /\ Len(Waiting') = n + 1
      /\ \A i \in 1..n : Waiting'[i] = Waiting[i]
      /\ Waiting'[n + 1] = e
  BY EnqueueExtendsLine, WaitingIsLine
<1>6. SUFFICES ASSUME starts <= 1 PROVE WaitingTargets' /\ SubmittedTargets'
  BY Zenon, <1>1 DEF TargetInv
<1>7. ASSUME TargetOf(e) # None
      PROVE  /\ TargetOf(e) \in Tracked
             /\ \A t \in Submitters \ {s} :
                   InSubmit(t) => ~Creates(submitter[t].intent, TargetOf(e))
  <2>1. TargetOf(e) \in Tracked
    BY Zenon, <1>3, <1>6, <1>7 DEF TargetInv, SubmittedTargets
  <2>2. e.action # "kPlace" /\ TargetOf(e) = Core!target_by_client_id(e)
    BY Zenon, <1>7 DEF TargetOf
  <2>3. ASSUME NEW t \in Submitters \ {s}, InSubmit(t), Creates(submitter[t].intent, TargetOf(e))
        PROVE  FALSE
    <3>1. e \in IntentsOf[s] /\ submitter[t].intent \in IntentsOf[t]
      BY Zenon, <1>3, <2>3 DEF HoldingsInv, InSubmit
    <3>. QED
      BY Zenon, <2>2, <2>3, <3>1, OwnTargets DEF Creates
  <2>. QED
    BY Zenon, <2>1, <2>3
<1>8. SubmittedTargets'
  BY Zenon, <1>1, <1>4, <1>6 DEF TargetInv, SubmittedTargets, TargetOf
<1>9. ASSUME NEW i \in 1..Len(Waiting'), TargetOf(Waiting'[i]) # None
      PROVE  LET target == TargetOf(Waiting'[i])
             IN  /\ target \in Tracked
                 /\ \A j \in i + 1..Len(Waiting') : ~Creates(Waiting'[j], target)
                 /\ \A t \in Submitters : InSubmit(t)' => ~Creates(submitter'[t].intent, target)
  <2>1. CASE i \in 1..n
    <3>1. /\ Waiting'[i] = Waiting[i] /\ TargetOf(Waiting[i]) # None
          /\ \A j \in i + 1..Len(Waiting') :
                \/ j \in i + 1..n /\ Waiting'[j] = Waiting[j]
                \/ Waiting'[j] = e
      BY <1>5, <1>9, <2>1
    <3>2. /\ TargetOf(Waiting[i]) \in Tracked
          /\ \A j \in i + 1..n : ~Creates(Waiting[j], TargetOf(Waiting[i]))
          /\ \A t \in Submitters :
                InSubmit(t) => ~Creates(submitter[t].intent, TargetOf(Waiting[i]))
      BY Zenon, <1>6, <2>1, <3>1 DEF TargetInv, WaitingTargets
    <3>. QED
      BY Zenon, <1>3, <1>4, <3>1, <3>2
  <2>2. CASE i = n + 1
    <3>1. Waiting'[i] = e /\ (i + 1)..Len(Waiting') = {}
      BY <1>5, <2>2
    <3>. QED
      BY Zenon, <1>4, <1>7, <1>9, <3>1
  <2>. QED
    BY <1>5, <2>1, <2>2
<1>. QED
  BY Zenon, <1>1, <1>8, <1>9 DEF WaitingTargets, Creates, TargetOf

\* Every step keeps the invariant of the named orders.
LEMMA TargetsAreInductive ==
    ASSUME PhaseInv, HoldingsInv, SessionInv, TargetInv, [Next]_vars
    PROVE  TargetInv'
<1>1. CASE Idle
  BY Zenon, <1>1, IdleFrame, TargetsWhenQuiet DEF Waiting
<1>2. CASE Drop \/ SendIntent
  <2>1. /\ worker \in Draining /\ NextIntent /\ outbound_queue' = outbound_queue
        /\ UNCHANGED <<submitter, starts>>
    BY Zenon, <1>2 DEF Drop, EvaluateGlobalRisk, EvaluatePortfolioRisk, SendIntent, Draining,
       submitVars, callerVars
  <2>2. LineMoved
    BY Zenon, <2>1, NextIntentMovesLine DEF LineMoved
  <2>3. UNCHANGED coreVars \/ Core!ApplyRiskReject(Head(local_intents))
    BY Zenon, <1>2 DEF Drop, EvaluateGlobalRisk, EvaluatePortfolioRisk, SendIntent
  <2>. QED
    BY Zenon, <2>1, <2>2, <2>3, UpdateKeepsTracked, TargetsAfterDrop
<1>3. ASSUME NEW s \in Submitters,
             \/ \E intent \in IntentsOf[s] : SubmitCheck(s, intent)
             \/ SubmitTrack(s) \/ SubmitRefuse(s) \/ SubmitEnqueue(s)
      PROVE  TargetInv'
  BY Zenon, <1>3, TargetsAfterCheck, TargetsAfterTrack, TargetsAfterEnqueue
<1>4. CASE StartReset
  <2>1. UNCHANGED <<Waiting, submitter>> /\ starts' = starts + 1
    BY Zenon, <1>4 DEF StartReset, workerVars, submitVars, Waiting
  <2>2. CASE starts = 0
    <3>1. Waiting = <<>> /\ \A s \in Submitters : submitter[s] = None
      BY Zenon, <2>2 DEF SessionInv, BeforeStart
    <3>. QED
      BY <2>1, <3>1 DEF TargetInv, WaitingTargets, SubmittedTargets, InSubmit
  <2>3. CASE starts # 0
    <3>1. ~(starts' <= 1)
      BY <2>1, <2>3 DEF PhaseInv
    <3>. QED
      BY Zenon, <3>1 DEF TargetInv
  <2>. QED
    BY Zenon, <2>2, <2>3
<1>5. CASE SwapQueue
  BY Zenon, <1>5, SwapKeepsLine, TargetsWhenQuiet DEF SwapQueue, coreVars, callerVars, Tracked
<1>. QED
  BY Zenon, <1>1, <1>2, <1>3, <1>4, <1>5, StepKinds

\* A cancel or a replacement never waits in front of the order it is about.
LEMMA TargetsGoFirst ==
    ASSUME HoldingsInv, SessionInv, TargetInv
    PROVE  CancelFollowsPlace
<1>1. SUFFICES ASSUME starts <= 1, NEW i \in 1..Len(Waiting)
               PROVE  /\ \A j \in i + 1..Len(Waiting) : ~Creates(Waiting[j], TargetOf(Waiting[i]))
                      /\ \A s \in Submitters :
                            InSubmit(s) => ~Creates(submitter[s].intent, TargetOf(Waiting[i]))
  BY Zenon DEF CancelFollowsPlace, Waiting, Creates, TargetOf, InSubmit
<1>2. CASE TargetOf(Waiting[i]) # None
  BY Zenon, <1>1, <1>2 DEF TargetInv, WaitingTargets
<1>3. CASE TargetOf(Waiting[i]) = None
  <2>1. None \notin Tracked
    BY Zenon, NoneAssumption DEF HoldingsInv
  <2>2. \A j \in i + 1..Len(Waiting) : j \in 1..Len(Waiting)
    BY WaitingIsLine
  <2>. QED
    BY Zenon, <1>1, <1>3, <2>1, <2>2 DEF SessionInv, CreatorsTracked, Creates
<1>. QED
  BY Zenon, <1>2, <1>3

\* CancelFollowsPlace for every number of threads and strategies.
THEOREM CancelsFollowPlaces == Spec => []CancelFollowsPlace
<1>1. Init => TargetInv
  <2>1. Init => Waiting = <<>>
    BY Zenon, ConcatEmptySeq, EmptySeq DEF Init, Waiting
  <2>. QED
    BY <2>1 DEF Init, TargetInv, WaitingTargets, SubmittedTargets, InSubmit
<1>2. ManagerInv /\ TargetInv /\ [Next]_vars => TargetInv'
  BY Zenon, TargetsAreInductive DEF ManagerInv
<1>3. ManagerInv /\ TargetInv => CancelFollowsPlace
  BY Zenon, TargetsGoFirst DEF ManagerInv
<1>. QED
  BY <1>1, <1>2, <1>3, ManagerInvariance, PTL DEF Spec

-----------------------------------------------------------------------------
(* The strategies in front of the manager.                                 *)

\* What a shard thread still has to handle are intents of its strategy.
HandlingInv ==
    /\ handling \in [Submitters -> [market_ticker : Markets \cup {None},
                                    intents : Seq(OrderIntent)]]
    /\ \A s \in Submitters : \A i \in 1..Len(handling[s].intents) :
          WithDefaults(handling[s].intents[i], handling[s].market_ticker) \in IntentsOf[s]

\* The strategies use the order manager as its specification allows: with the
\* runner's defaults filled in, they submit intents of their own.
THEOREM StrategiesUseManager == StrategySpec => Spec /\ []HandlingInv
<1>1. StrategyInit => Init /\ HandlingInv
  BY EmptySeq DEF StrategyInit, HandlingInv
<1>2. ASSUME HandlingInv, [StrategyNext]_strategyVars
      PROVE  HandlingInv' /\ [Next]_vars
  <2>1. ASSUME NEW s \in Submitters, NEW m \in MarketsOf[s], NEW d \in DecisionsOf[s],
               OnEvent(s, m, d)
        PROVE  HandlingInv' /\ UNCHANGED vars
    <3>1. /\ m \in Markets /\ d \in Seq(OrderIntent)
          /\ \A i \in 1..Len(d) : WithDefaults(d[i], m) \in IntentsOf[s]
      BY Zenon, StrategyAssumption
    <3>2. handling' = [handling EXCEPT ![s] = [market_ticker |-> m, intents |-> d]]
      BY Zenon, <2>1 DEF OnEvent
    <3>3. /\ handling'[s] = [market_ticker |-> m, intents |-> d]
          /\ \A t \in Submitters \ {s} : handling'[t] = handling[t]
          /\ handling' \in [Submitters -> [market_ticker : Markets \cup {None},
                                           intents : Seq(OrderIntent)]]
      BY Zenon, <1>2, <3>1, <3>2 DEF HandlingInv
    <3>. QED
      BY Zenon, <1>2, <2>1, <3>1, <3>3 DEF OnEvent, HandlingInv
  <2>2. ASSUME NEW s \in Submitters, HandleIntent(s)
        PROVE  HandlingInv' /\ [Next]_vars
    <3> DEFINE h == handling[s]
               intent == WithDefaults(Head(h.intents), h.market_ticker)
    <3>1. h \in [market_ticker : Markets \cup {None}, intents : Seq(OrderIntent)]
      BY Zenon, <1>2 DEF HandlingInv
    <3>2. h.intents # <<>> /\ handling' = [handling EXCEPT ![s].intents = Tail(@)]
      BY Zenon, <2>2 DEF HandleIntent
    <3>3. /\ Head(h.intents) = h.intents[1] /\ 1 \in 1..Len(h.intents)
          /\ Tail(h.intents) \in Seq(OrderIntent)
          /\ \A i \in 1..Len(Tail(h.intents)) : /\ i + 1 \in 1..Len(h.intents)
                                                /\ Tail(h.intents)[i] = h.intents[i + 1]
      BY <3>1, <3>2, HeadTailProperties, EmptySeq
    <3>4. /\ handling'[s] = [h EXCEPT !.intents = Tail(h.intents)]
          /\ \A t \in Submitters \ {s} : handling'[t] = handling[t]
          /\ handling' \in [Submitters -> [market_ticker : Markets \cup {None},
                                           intents : Seq(OrderIntent)]]
      BY Zenon, <1>2, <3>1, <3>2, <3>3 DEF HandlingInv
    <3>5. handling'[s].intents = Tail(h.intents) /\ handling'[s].market_ticker = h.market_ticker
      BY Zenon, <3>1, <3>4
    <3>6. HandlingInv'
      <4>1. \A i \in 1..Len(handling'[s].intents) :
                WithDefaults(handling'[s].intents[i], handling'[s].market_ticker) \in IntentsOf[s]
        BY ZenonT(30), <1>2, <3>3, <3>5 DEF HandlingInv
      <4>2. \A t \in Submitters : \A i \in 1..Len(handling'[t].intents) :
                WithDefaults(handling'[t].intents[i], handling'[t].market_ticker) \in IntentsOf[t]
        BY Zenon, <1>2, <3>4, <4>1 DEF HandlingInv
      <4>. QED
        BY Zenon, <3>4, <4>2 DEF HandlingInv, WithDefaults
    <3>7. intent \in IntentsOf[s]
      BY Zenon, <1>2, <3>3 DEF HandlingInv
    <3>8. SubmitCheck(s, intent) \/ UNCHANGED vars
      BY Zenon, <2>2 DEF HandleIntent
    <3>. QED
      BY Zenon, <3>6, <3>7, <3>8 DEF Next
  <2>3. CASE ManagerStep
    BY Zenon, <1>2, <2>3 DEF ManagerStep, Next, runnerVars, HandlingInv, WithDefaults
  <2>4. CASE UNCHANGED strategyVars
    BY Zenon, <1>2, <2>4 DEF strategyVars, runnerVars, HandlingInv, WithDefaults
  <2>. QED
    BY Zenon, <1>2, <2>1, <2>2, <2>3, <2>4 DEF StrategyNext
<1>. QED
  BY <1>1, <1>2, PTL DEF StrategySpec, Spec

\* What a user of the strategies' order manager gets: no id is placed twice, and
\* no cancel overtakes its order.
THEOREM StrategyOrdersInOrder ==
    StrategySpec => [](PlacedAtMostOnce /\ CancelFollowsPlace)
BY StrategiesUseManager, OrdersPlacedAtMostOnce, CancelsFollowPlaces, PTL
=============================================================================
