-------------------------- MODULE ComponentProofs ---------------------------
(***************************************************************************)
(* Proofs about the components that stand by themselves.                   *)
(*                                                                         *)
(* The feed's worker and the main thread, for any number of channels and   *)
(* faults and any queue capacities.                                        *)
(*                                                                         *)
(* SpscFrameQueue and SpscRoutedEventQueue, for every capacity and every   *)
(* set of values: the two threads never touch one slot at the same time,   *)
(* and the ring implements a bounded FIFO queue, however old the index     *)
(* values are that the acquire loads return.                               *)
(*                                                                         *)
(* The books of a shard: whatever events arrive in whatever order, a book  *)
(* has only valid levels, is in one mode, between snapshots its levels     *)
(* follow the sequence ids, and a snapshot takes up exactly the deltas it  *)
(* does not contain.  The replay of the pending deltas is a recursive      *)
(* function.  ReplayExists shows that there is such a function; what one   *)
(* replayed delta keeps then holds of the result, by NatSetInduction.      *)
(*                                                                         *)
(* The extractor and the parser, which look for a message's sequence       *)
(* number each for itself: whatever the message, they find the same one.   *)
(***************************************************************************)
EXTENDS TraderApp, SpscQueue, BookStore, KalshiParser, SequenceTheorems, TLAPS

-----------------------------------------------------------------------------
(* Of a tuple, the least index at which something holds.                   *)

\* The least of a set of numbers is the one that no other is below.
LEMMA LeastOfSet ==
    ASSUME NEW I \in SUBSET Int, NEW n \in I, \A y \in I : n <= y
    PROVE  (CHOOSE x \in I : \A y \in I : x <= y) = n
<1> DEFINE least == CHOOSE x \in I : \A y \in I : x <= y
<1>1. least \in I /\ \A y \in I : least <= y
  BY Zenon
<1>2. least = n
  <2> HIDE DEF least
  <2>. QED
    BY <1>1
<1>. QED
  BY Zenon, <1>2

\* Which indices of a tuple come first.
LEMMA FirstIndices ==
    ASSUME NEW D \in {1..2, 1..4}
    PROVE  \A I \in SUBSET D : /\ I \in SUBSET Int
                               /\ \A i \in I : 1 <= i /\ (1 \notin I => 2 <= i)
OBVIOUS

\* The first elements of a pair.
LEMMA PairElements ==
    ASSUME NEW a, NEW b
    PROVE  /\ DOMAIN <<a, b>> = 1..2 /\ <<a, b>>[1] = a /\ <<a, b>>[2] = b
           /\ 1 \in 1..2 /\ 2 \in 1..2 /\ \A i \in 1..2 : i = 1 \/ i = 2
OBVIOUS

\* The sequence number in an extractor's result.
LEMMA SequenceField ==
    \A ticker, number : [market_ticker |-> ticker, seq_id |-> number].seq_id = number
OBVIOUS

-----------------------------------------------------------------------------
(* The feed: where its worker and the caller of stop() can be together.    *)

WorkerStates ==
    {"none", "check", "build", "connect", "reset", "handshake", "subscribe", "backoff",
     "checkInner", "receive", "close_subscribe", "close_receive", "close_leave", "done"}

FeedTypes ==
    /\ worker \in WorkerStates
    /\ controller \in {"idle", "close", "join"}
    /\ stop_requested \in BOOLEAN
    /\ connected \in BOOLEAN
    /\ subscribed \in 0..NumChannels

\* Between its look at the stop token and the end of the handshake the worker
\* has no connection that a close could find.
Connecting == {"build", "connect", "reset", "handshake"}

FeedInv ==
    /\ FeedTypes
    \* stop() is called for a worker that exists, and its request stays
    /\ controller # "idle" => worker # "none" /\ stop_requested
    \* who is inside close()
    /\ "controller" \in in_close => controller = "close"
    /\ "worker" \in in_close => worker \in DOMAIN AfterClose
    /\ in_close \subseteq {"worker", "controller"}
    \* where there is no connection
    /\ worker \in Connecting \cup {"none", "backoff", "done"} => ~connected
    /\ worker = "check" /\ ~stop_requested => ~connected
    /\ worker \in Connecting => "controller" \notin in_close
    \* the inner loop follows the loop over the channels
    /\ worker \in {"checkInner", "receive"} => subscribed = NumChannels

-----------------------------------------------------------------------------
(* The trader: how far main() is, and what runs then.                      *)

MainInv ==
    /\ main \in {"config", "credentials", "oms", "pipeline"} =>
           worker = "none" /\ controller = "idle" /\ shard = "none" /\ ~shard_stop
    /\ main \in {"config", "credentials", "oms"} => oms = "none"
    /\ main \in {"pipeline", "feed", "signals", "loop", "pump", "stopFeed",
                 "stopPipeline", "joinShard", "stopOms"} => oms \in {"running", "absent"}
    /\ main \in {"feed", "signals", "loop", "pump", "stopFeed", "stopPipeline"} =>
           shard \in {"polling", "handling"} /\ ~shard_stop
    /\ main \in {"signals", "loop", "pump"} => worker # "none" /\ controller = "idle"
    /\ main = "stopFeed" => controller # "idle"
    /\ main \in {"feed", "stopPipeline", "joinShard", "stopOms", "exited"} =>
           worker = "none" /\ controller = "idle"
    /\ main = "joinShard" => shard \in {"polling", "handling", "done"} /\ shard_stop
    /\ main = "stopOms" => shard = "joined"
    /\ main = "exited" => shard \in {"none", "joined"} /\ oms # "running"
    /\ main \in {"config", "credentials", "oms", "pipeline", "feed", "signals", "loop",
                 "pump", "stopFeed", "stopPipeline", "joinShard", "stopOms", "exited",
                 "terminated", "killed"}

AppInv == FeedInv /\ MainInv

-----------------------------------------------------------------------------
(* The feed keeps its invariant.                                           *)

\* The four calls of close() in the worker and where each goes on.
LEMMA AfterCloseIs ==
    /\ DOMAIN AfterClose = {"connect", "close_subscribe", "close_receive", "close_leave"}
    /\ AfterClose["connect"] = "reset"
    /\ AfterClose["close_subscribe"] = "backoff"
    /\ AfterClose["close_receive"] = "check"
    /\ AfterClose["close_leave"] = "done"
BY Zenon DEF AfterClose

\* A feed runner that was never started satisfies the invariant.
LEMMA FeedInvHoldsInitially == FeedInit => FeedInv
<1> SUFFICES ASSUME FeedInit PROVE FeedInv
  BY Zenon
<1>1. FeedTypes
  <2>1. subscribed \in 0..NumChannels
    BY FeedAssumption DEF FeedInit
  <2>2. stop_requested \in BOOLEAN /\ connected \in BOOLEAN
    BY Zenon DEF FeedInit, TransportInit
  <2>. QED
    BY Zenon, <2>1, <2>2 DEF FeedInit, FeedTypes, WorkerStates
<1>. QED
  BY Zenon, <1>1 DEF FeedInit, TransportInit, FeedInv, Connecting

\* start() and stop() keep it.
LEMMA ControllerKeepsFeedInv ==
    ASSUME FeedInv, Start \/ StopRequest \/ Stop
    PROVE  FeedInv'
<1>1. CASE Start
  BY Zenon, <1>1, AfterCloseIs DEF Start, FeedInv, FeedTypes, WorkerStates, Connecting,
     setupVars, socketVars, networkVars
<1>2. CASE StopRequest
  BY Zenon, <1>2, AfterCloseIs DEF StopRequest, FeedInv, FeedTypes, WorkerStates, Connecting,
     setupVars, socketVars, networkVars
<1>3. CASE StopClose
  <2>1. UNCHANGED <<worker, stop_requested, subscribed, connected>>
    BY Zenon, <1>3 DEF StopClose, socketVars
  <2>2. CASE connected
    <3>1. in_close' = in_close \cup {"controller"} /\ controller' = "close"
      BY Zenon, <1>3, <2>2 DEF StopClose, MustClose
    <3>2. controller = "close" /\ worker \notin Connecting
      BY Zenon, <1>3, <2>2 DEF StopClose, FeedInv
    <3>. QED
      BY Zenon, <2>1, <2>2, <3>1, <3>2 DEF FeedInv, FeedTypes
  <2>3. CASE ~connected
    <3>1. in_close' = in_close /\ controller' = "join" /\ "controller" \notin in_close
      BY Zenon, <1>3, <2>3 DEF StopClose, MustClose
    <3>2. controller = "close"
      BY Zenon, <1>3 DEF StopClose
    <3>. QED
      BY Zenon, <2>1, <2>3, <3>1, <3>2 DEF FeedInv, FeedTypes
  <2>. QED
    BY Zenon, <2>2, <2>3
<1>4. CASE StopCloseEnd
  BY Zenon, <1>4, AfterCloseIs DEF StopCloseEnd, close_end, FeedInv, FeedTypes, WorkerStates,
     Connecting, setupVars
<1>5. CASE StopJoin
  BY Zenon, <1>5, AfterCloseIs DEF StopJoin, FeedInv, FeedTypes, WorkerStates, Connecting,
     setupVars, socketVars, networkVars
<1>. QED
  BY Zenon, <1>1, <1>2, <1>3, <1>4, <1>5 DEF Stop

\* The steps of the worker that only move it.
LEMMA WorkerMoveKeepsFeedInv ==
    ASSUME FeedInv,
           \/ CheckStop \/ BuildRequest \/ Backoff
           \/ CheckStopInner \/ ReceiveNothing \/ ReceiveMessage
    PROVE  FeedInv'
<1> USE AfterCloseIs DEF FeedInv, FeedTypes, WorkerStates, Connecting, allButWorker,
        socketVars
<1>1. CASE CheckStop
  BY Zenon, <1>1 DEF CheckStop
<1>2. CASE BuildRequest
  BY Zenon, <1>2 DEF BuildRequest
<1>3. CASE Backoff
  BY Zenon, <1>3 DEF Backoff
<1>4. CASE CheckStopInner
  BY Zenon, <1>4 DEF CheckStopInner
<1>5. CASE ReceiveNothing
  BY Zenon, <1>5 DEF ReceiveNothing
<1>6. CASE ReceiveMessage
  BY Zenon, <1>6 DEF ReceiveMessage
<1>. QED
  BY Zenon, <1>1, <1>2, <1>3, <1>4, <1>5, <1>6

\* The steps of the worker in which the connection changes, or a channel is
\* subscribed to.
LEMMA WorkerCallKeepsFeedInv ==
    ASSUME FeedInv, CloseBegin \/ CloseEnd \/ ConnectBegin \/ ConnectEnd \/ Subscribe
    PROVE  FeedInv'
<1> USE AfterCloseIs DEF FeedInv, FeedTypes, WorkerStates, Connecting, socketVars
<1>1. CASE CloseBegin
  BY Zenon, <1>1 DEF CloseBegin, MustClose
<1>2. CASE CloseEnd
  BY Zenon, <1>2 DEF CloseEnd, close_end
<1>3. CASE ConnectBegin
  <2>1. subscribed' \in 0..NumChannels
    BY <1>3, FeedAssumption DEF ConnectBegin
  <2>. QED
    BY Zenon, <1>3, <2>1 DEF ConnectBegin, connect_begin
<1>4. CASE ConnectEnd
  BY Zenon, <1>4 DEF ConnectEnd, connect_end, ConnectSucceeds
<1>5. CASE Subscribe
  BY <1>5, FeedAssumption DEF Subscribe
<1>. QED
  BY Zenon, <1>1, <1>2, <1>3, <1>4, <1>5

\* Nor does the network disturb it.
LEMMA NetworkKeepsFeedInv ==
    ASSUME FeedInv, Fault \/ Recover \/ UNCHANGED feedVars
    PROVE  FeedInv'
<1>1. UNCHANGED <<threadVars, in_close, subscribed, connected>>
  BY Zenon DEF Fault, Outage, Disconnect, Recover, Recovery, feedVars, socketVars
<1>. QED
  BY Zenon, <1>1 DEF FeedInv, FeedTypes, threadVars

\* Every step of the feed runner keeps the invariant.
LEMMA FeedInvIsInductive == FeedInv /\ [FeedNext]_feedVars => FeedInv'
<1> SUFFICES ASSUME FeedInv, [FeedNext]_feedVars PROVE FeedInv'
  BY Zenon
<1>. QED
  BY Zenon, ControllerKeepsFeedInv, WorkerMoveKeepsFeedInv, WorkerCallKeepsFeedInv,
     NetworkKeepsFeedInv DEF FeedNext, Run

-----------------------------------------------------------------------------
(* main() keeps its invariant.                                             *)

\* The trader uses the feed runner as the feed runner's own specification
\* allows: what main(), the feed's thread and the network do to it is a step of
\* WsFeedRunner, and everything else leaves it alone.
LEMMA AppStepIsFeedStep == [AppNext]_appVars => [FeedNext]_feedVars
<1> SUFFICES ASSUME [AppNext]_appVars PROVE [FeedNext]_feedVars
  BY Zenon
<1>1. CASE StartFeed
  BY Zenon, <1>1 DEF StartFeed, FeedNext
<1>2. CASE StopFeed \/ CloseFeed \/ JoinFeed
  BY Zenon, <1>2 DEF StopFeed, CloseFeed, JoinFeed, Stop, FeedNext
<1>3. CASE FeedReceive \/ FeedRun \/ Network
  BY Zenon, <1>3 DEF FeedReceive, FeedRun, Network, FeedNext
<1>4. CASE \/ LoadConfig \/ FindCredentials \/ StartOms \/ StartPipeline
           \/ InstallHandlers \/ CheckShutdown \/ PumpIngest
           \/ StopPipeline \/ JoinShard \/ StopOms
  BY Zenon, <1>4 DEF LoadConfig, FindCredentials, StartOms, StartPipeline, InstallHandlers,
     CheckShutdown, PumpIngest, StopPipeline, JoinShard, StopOms
<1>5. CASE Shard \/ Signal
  BY Zenon, <1>5 DEF Shard, ShardPoll, ShardHandle, Signal
<1>6. CASE UNCHANGED appVars
  BY Zenon, <1>6 DEF appVars
<1>. QED
  BY Zenon, <1>1, <1>2, <1>3, <1>4, <1>5, <1>6 DEF AppNext, Main

\* What the feed's thread and the network leave alone.
LEMMA FeedStepFrame ==
    ASSUME FeedInv, Run \/ ReceiveMessage \/ Fault \/ Recover
    PROVE  /\ controller' = controller
           /\ worker = "none" <=> worker' = "none"
<1>1. CASE CloseBegin \/ CloseEnd
  <2>1. controller' = controller
    BY Zenon, <1>1 DEF CloseBegin, CloseEnd
  <2>2. CASE CloseBegin
    BY Zenon, <2>1, <2>2, AfterCloseIs DEF CloseBegin
  <2>3. CASE CloseEnd
    BY Zenon, <2>1, <2>3, AfterCloseIs DEF CloseEnd, FeedInv
  <2>. QED
    BY Zenon, <1>1, <2>2, <2>3
<1>2. CASE CheckStop \/ BuildRequest \/ Backoff \/ CheckStopInner \/ ReceiveNothing
           \/ ReceiveMessage
  BY Zenon, <1>2 DEF CheckStop, BuildRequest, Backoff, CheckStopInner, ReceiveNothing,
     ReceiveMessage, allButWorker
<1>3. CASE ConnectBegin \/ ConnectEnd \/ Subscribe
  BY Zenon, <1>3 DEF ConnectBegin, ConnectEnd, Subscribe
<1>4. CASE Fault \/ Recover
  BY Zenon, <1>4 DEF Fault, Recover, threadVars
<1>. QED
  BY Zenon, <1>1, <1>2, <1>3, <1>4 DEF Run

\* Start-up keeps the invariant of main().
LEMMA StartUpKeepsMainInv ==
    ASSUME FeedInv, MainInv,
           LoadConfig \/ FindCredentials \/ StartOms \/ StartPipeline \/ StartFeed
             \/ InstallHandlers
    PROVE  MainInv'
<1> USE DEF MainInv, Return, GoOn, feedVars, threadVars
<1>1. CASE LoadConfig
  BY Zenon, <1>1 DEF LoadConfig, pipelineVars
<1>2. CASE FindCredentials
  BY Zenon, <1>2 DEF FindCredentials, pipelineVars, omsVars
<1>3. CASE StartOms
  BY Zenon, <1>3 DEF StartOms, pipelineVars
<1>4. CASE StartPipeline
  BY Zenon, <1>4 DEF StartPipeline, omsVars
<1>5. CASE StartFeed
  BY Zenon, <1>5 DEF StartFeed, Start, pipelineVars, omsVars
<1>6. CASE InstallHandlers
  BY Zenon, <1>6 DEF InstallHandlers, pipelineVars, omsVars
<1>. QED
  BY Zenon, <1>1, <1>2, <1>3, <1>4, <1>5, <1>6

\* The pump loop and the shutdown keep it.
LEMMA ShutdownKeepsMainInv ==
    ASSUME FeedInv, MainInv,
           \/ CheckShutdown \/ PumpIngest \/ StopFeed \/ CloseFeed \/ JoinFeed
           \/ StopPipeline \/ JoinShard \/ StopOms
    PROVE  MainInv'
<1> USE DEF MainInv, Return, GoOn, feedVars, threadVars
<1>1. CASE CheckShutdown
  BY Zenon, <1>1 DEF CheckShutdown, omsVars
<1>2. CASE PumpIngest
  BY Zenon, <1>2 DEF PumpIngest, omsVars, mainVars
<1>3. CASE StopFeed
  BY Zenon, <1>3 DEF StopFeed, StopRequest, pipelineVars, omsVars
<1>4. CASE CloseFeed
  BY Zenon, <1>4 DEF CloseFeed, StopClose, StopCloseEnd, pipelineVars, omsVars, mainVars
<1>5. CASE JoinFeed
  BY Zenon, <1>5 DEF JoinFeed, StopJoin, pipelineVars, omsVars
<1>6. CASE StopPipeline
  BY Zenon, <1>6 DEF StopPipeline, omsVars
<1>7. CASE JoinShard
  BY Zenon, <1>7 DEF JoinShard, omsVars
<1>8. CASE StopOms
  BY Zenon, <1>8 DEF StopOms, pipelineVars
<1>. QED
  BY Zenon, <1>1, <1>2, <1>3, <1>4, <1>5, <1>6, <1>7, <1>8

\* The other threads and the network keep it.
LEMMA OthersKeepMainInv ==
    ASSUME FeedInv, MainInv,
           FeedReceive \/ FeedRun \/ Shard \/ Network \/ Signal \/ UNCHANGED appVars
    PROVE  MainInv'
<1> USE DEF MainInv, mainVars, omsVars
<1>1. CASE FeedReceive
  BY Zenon, <1>1, FeedStepFrame DEF FeedReceive
<1>2. CASE FeedRun
  BY Zenon, <1>2, FeedStepFrame DEF FeedRun, pipelineVars
<1>3. CASE Network
  BY Zenon, <1>3, FeedStepFrame DEF Network, pipelineVars
<1>4. CASE Shard
  BY <1>4 DEF Shard, ShardPoll, ShardHandle, Alive, feedVars, threadVars
<1>5. CASE Signal
  BY Zenon, <1>5 DEF Signal, GoOn, pipelineVars, feedVars, threadVars
<1>6. CASE UNCHANGED appVars
  BY Zenon, <1>6 DEF appVars, feedVars, threadVars, pipelineVars
<1>. QED
  BY Zenon, <1>1, <1>2, <1>3, <1>4, <1>5, <1>6

\* Every step of the trader keeps the invariant.
LEMMA AppInvIsInductive == AppInv /\ [AppNext]_appVars => AppInv'
<1> SUFFICES ASSUME AppInv, [AppNext]_appVars PROVE AppInv'
  BY Zenon
<1>1. FeedInv'
  BY Zenon, AppStepIsFeedStep, FeedInvIsInductive DEF AppInv
<1>2. MainInv'
  BY Zenon, StartUpKeepsMainInv, ShutdownKeepsMainInv, OthersKeepMainInv DEF AppInv, AppNext, Main
<1>. QED
  BY Zenon, <1>1, <1>2 DEF AppInv

-----------------------------------------------------------------------------
(* The theorems about the feed and the trader.                             *)

\* The inductive invariant of the feed runner by itself, whoever calls its
\* start() and stop().
THEOREM FeedInvariance == FeedSpec => []FeedInv
BY FeedInvHoldsInitially, FeedInvIsInductive, PTL DEF FeedSpec

\* The inductive invariant of the trader holds in every reachable state.
THEOREM AppInvariance == AppSpec => []AppInv
<1>1. AppInit => AppInv
  BY Zenon, FeedInvHoldsInitially DEF AppInit, AppInv, MainInv, FeedInit
<1>. QED
  BY <1>1, AppInvIsInductive, PTL DEF AppSpec

\* The trader drives the feed runner only as the feed runner's specification
\* allows, so what holds of every feed runner holds of the trader's.
THEOREM AppUsesFeed == AppSpec => FeedSpec
<1>1. AppInit => FeedInit
  BY Zenon DEF AppInit
<1>. QED
  BY <1>1, AppStepIsFeedStep, PTL DEF AppSpec, FeedSpec

\* The order of the starts and stops in main(): while the feed's worker exists
\* the shard it feeds runs, and while the shard runs so does the order manager
\* its strategies submit to.
THEOREM CalleesAlwaysOutliveCallers == AppSpec => []CalleesOutliveCallers
<1>1. AppInv => CalleesOutliveCallers
  BY Zenon DEF AppInv, MainInv, CalleesOutliveCallers, Alive
<1>. QED
  BY <1>1, AppInvariance, PTL

\* main() returns only with its threads joined, the feed closed and the order
\* manager stopped, on every one of its paths.
THEOREM ExitIsAlwaysClean == AppSpec => []ExitIsClean
<1>1. AppInv => ExitIsClean
  BY Zenon DEF AppInv, MainInv, FeedInv, ExitIsClean
<1>. QED
  BY <1>1, AppInvariance, PTL

\* WsFeedRunner::run receives only once every channel has been subscribed to
\* on the present connection.
THEOREM FeedReceivesAllChannels == FeedSpec => []ReceivesAllChannels
<1>1. FeedInv => ReceivesAllChannels
  BY Zenon DEF FeedInv, ReceivesAllChannels
<1>. QED
  BY <1>1, FeedInvariance, PTL

\* connect() never destroys the stream under a close() of the other thread,
\* although no lock protects it.
THEOREM StreamAlwaysOutlivesClose == FeedSpec => StreamOutlivesClose
<1>1. ASSUME FeedInv, [FeedNext]_feedVars, stream' # stream PROVE in_close = {}
  <2>1. ConnectBegin
    BY Zenon, <1>1 DEF FeedNext, Start, StopRequest, Stop, StopClose, StopCloseEnd, StopJoin, Run,
       CheckStop, BuildRequest, CloseBegin, CloseEnd, ConnectEnd, Subscribe, Backoff,
       CheckStopInner, ReceiveNothing, ReceiveMessage, Fault, Recover, Outage,
       Disconnect, Recovery, allButWorker, feedVars, socketVars, close_end, connect_end
  <2>2. worker = "reset"
    BY Zenon, <2>1 DEF ConnectBegin
  <2>. QED
    BY Zenon, <1>1, <2>2, AfterCloseIs DEF FeedInv, Connecting
<1>2. FeedInv /\ [FeedNext]_feedVars => [stream' # stream => in_close = {}]_feedVars
  BY Zenon, <1>1
<1>. QED
  BY <1>2, FeedInvariance, PTL DEF FeedSpec, StreamOutlivesClose

-----------------------------------------------------------------------------
(* The ring between two threads.                                           *)

\* an index that may have run past the end of the ring, taken back into it
Wrap(index) == IF index >= capacity_ THEN index - capacity_ ELSE index

\* the number of increments that lead from one index to the other
Distance(from, to) == IF from <= to THEN to - from ELSE to - from + capacity_

Held == Distance(tail_, head_)

Indices ==
    /\ head_ \in Slots /\ tail_ \in Slots
    /\ seen_head \in Slots /\ seen_tail \in Slots
    /\ heads_in_flight \in Seq(Slots) /\ tails_in_flight \in Seq(Slots)

Threads ==
    /\ buffer_ \in [Slots -> Values \cup {NoValue}]
    /\ producer \in {"idle", "write", "store"}
    /\ consumer \in {"idle", "read", "store"}
    /\ producer # "idle" => pushing \in Values
    /\ popping \in Values \cup {NoValue}

\* The stores in flight are the increments that the other side has not seen,
\* in the order they were made.
StoresInOrder ==
    /\ \A i \in 1..Len(heads_in_flight) : heads_in_flight[i] = Wrap(seen_head + i)
    /\ head_ = Wrap(seen_head + Len(heads_in_flight))
    /\ \A i \in 1..Len(tails_in_flight) : tails_in_flight[i] = Wrap(seen_tail + i)
    /\ tail_ = Wrap(seen_tail + Len(tails_in_flight))

\* Each side sees the ring as full, or as empty, before it is: the slots the
\* producer counts as taken, and those the consumer does not count yet.
Room ==
    /\ Held + Len(tails_in_flight) <= capacity_ - 1
    /\ producer # "idle" => Held + Len(tails_in_flight) < capacity_ - 1
    /\ Len(heads_in_flight) <= Held
    /\ consumer # "idle" => Len(heads_in_flight) < Held

\* The slot the producer is about to publish holds the value it was given.
Contents == producer = "store" => buffer_[head_] = pushing

RingInv == Indices /\ Threads /\ StoresInOrder /\ Room /\ Contents

-----------------------------------------------------------------------------
(* Arithmetic of the ring                                                  *)

\* The constructor raises a requested capacity below two to two.
LEMMA CapacityType == capacity_ \in Nat /\ capacity_ >= 2
BY QueueAssumption DEF capacity_, kMinCapacity

\* What the remainder in increment() and in the slot of the i-th value is.
LEMMA Remainder ==
    ASSUME NEW x \in 0..(2 * capacity_ - 1)
    PROVE  x % capacity_ = Wrap(x)
<1>1. CASE x < capacity_
  BY <1>1, CapacityType DEF Wrap
<1>2. CASE x >= capacity_
  BY <1>2, CapacityType DEF Wrap
<1>3. QED
  BY <1>1, <1>2, CapacityType

\* increment() steps to the next slot, and from the last to the first.
LEMMA IncrementIs ==
    ASSUME NEW index \in Slots
    PROVE  increment(index) = Wrap(index + 1) /\ increment(index) \in Slots
<1>1. index + 1 \in 0..(2 * capacity_ - 1)
  BY CapacityType DEF Slots
<1>2. QED
  BY <1>1, Remainder, CapacityType DEF increment, Slots, Wrap

\* From a slot to another there are fewer steps than slots.
LEMMA DistanceType ==
    ASSUME NEW from \in Slots, NEW to \in Slots
    PROVE  Distance(from, to) \in 0..(capacity_ - 1)
BY CapacityType DEF Slots, Distance

\* Storing head_ makes the ring one longer, storing tail_ one shorter.
LEMMA DistanceSteps ==
    ASSUME NEW from \in Slots, NEW to \in Slots
    PROVE  /\ Distance(from, to) < capacity_ - 1 =>
                  Distance(from, Wrap(to + 1)) = Distance(from, to) + 1
           /\ Distance(from, to) > 0 =>
                  Distance(Wrap(from + 1), to) = Distance(from, to) - 1
           /\ Distance(from, to) = 0 <=> from = to
BY CapacityType DEF Slots, Distance, Wrap

\* One more store is in flight after the last.
LEMMA WrapSteps ==
    ASSUME NEW index \in Slots, NEW k \in 0..(capacity_ - 1)
    PROVE  /\ Wrap(index + k) \in Slots
           /\ Wrap(Wrap(index + k) + 1) = Wrap(index + k + 1)
           /\ Wrap(Wrap(index + 1) + k) = Wrap(index + k + 1)
           /\ Distance(index, Wrap(index + k)) = k
BY CapacityType DEF Slots, Wrap, Distance

\* What the producer's load can tell: if the ring were full of values and of
\* removals it has not seen, the next index would be the one it sees.
LEMMA FullIsSeen ==
    ASSUME NEW seen \in Slots, NEW k \in 0..(capacity_ - 1), NEW head \in Slots,
           Distance(Wrap(seen + k), head) + k = capacity_ - 1
    PROVE  Wrap(head + 1) = seen
BY CapacityType DEF Slots, Wrap, Distance

\* What the consumer's load can tell: if every value in the ring were one it
\* has not seen, the index it sees would be its own.
LEMMA EmptyIsSeen ==
    ASSUME NEW seen \in Slots, NEW k \in 0..(capacity_ - 1), NEW tail \in Slots,
           Distance(tail, Wrap(seen + k)) = k
    PROVE  tail = seen
BY CapacityType DEF Slots, Wrap, Distance

-----------------------------------------------------------------------------
(* The invariant                                                           *)

\* An empty ring.
LEMMA RingInvInitially == Init => RingInv
<1>1. SUFFICES ASSUME Init PROVE RingInv
  BY Zenon
<1>2. Indices
  BY <1>1, CapacityType DEF Init, Indices, Slots
<1>3. Threads
  BY Zenon, <1>1 DEF Init, Threads
<1>4. StoresInOrder /\ Room /\ Contents
  BY <1>1, CapacityType DEF Init, StoresInOrder, Room, Contents, Held, Distance, Wrap
<1>5. QED
  BY Zenon, <1>2, <1>3, <1>4 DEF RingInv

\* A ring holds less than its capacity, and no more stores are on their way.
LEMMA Bounds ==
    ASSUME RingInv
    PROVE  /\ Held \in 0..(capacity_ - 1)
           /\ Len(heads_in_flight) \in 0..(capacity_ - 1)
           /\ Len(tails_in_flight) \in 0..(capacity_ - 1)
<1>1. Held \in 0..(capacity_ - 1)
  BY Zenon, DistanceType DEF RingInv, Indices, Held
<1>2. QED
  BY <1>1, CapacityType DEF RingInv, Indices, Room

\* try_push: the load finds room, and no slot is published before it is written.
LEMMA PushKeepsInvariant == RingInv /\ TryPush => RingInv'
<1>1. SUFFICES ASSUME RingInv, TryPush PROVE RingInv'
  BY Zenon
<1> USE CapacityType
<1>2. ASSUME NEW value \in Values, PushLoad(value) PROVE RingInv'
  <2>1. increment(head_) = Wrap(head_ + 1)
    BY Zenon, <1>1, IncrementIs DEF RingInv, Indices
  <2>2. Held + Len(tails_in_flight) < capacity_ - 1
    <3>1. Held \in 0..(capacity_ - 1) /\ Len(tails_in_flight) \in 0..(capacity_ - 1)
      BY Zenon, <1>1, Bounds
    <3>2. Distance(Wrap(seen_tail + Len(tails_in_flight)), head_) = Held
      BY Zenon, <1>1 DEF RingInv, StoresInOrder, Held
    <3>3. Held + Len(tails_in_flight) # capacity_ - 1
      BY Zenon, <1>1, <1>2, <2>1, <3>1, <3>2, FullIsSeen DEF RingInv, Indices, PushLoad
    <3>4. QED
      BY <1>1, <3>1, <3>3 DEF RingInv, Room
  <2>3. QED
    BY Zenon, <1>1, <1>2, <2>2
    DEF RingInv, Indices, Threads, StoresInOrder, Room, Contents, PushLoad, indexVars,
        Held, Distance, Wrap
<1>3. CASE PushWrite
  BY Zenon, <1>1, <1>3
  DEF RingInv, Indices, Threads, StoresInOrder, Room, Contents, PushWrite, indexVars,
      Held, Distance, Wrap
<1>4. CASE PushStore
  <2>1. /\ head_' = Wrap(head_ + 1) /\ head_' \in Slots
        /\ heads_in_flight' = Append(heads_in_flight, head_')
    BY Zenon, <1>1, <1>4, IncrementIs DEF RingInv, Indices, PushStore
  <2>2. Indices'
    BY <1>1, <1>4, <2>1 DEF RingInv, Indices, PushStore
  <2>3. Threads' /\ Contents'
    BY Zenon, <1>1, <1>4 DEF RingInv, Threads, Contents, PushStore
  <2>4. Held' = Held + 1 /\ Held \in 0..(capacity_ - 1)
    BY <1>1, <1>4, <2>1, DistanceSteps, DistanceType
    DEF RingInv, Indices, Room, PushStore, Held, Distance
  <2>5. StoresInOrder'
    <3> DEFINE n == Len(heads_in_flight)
    <3>1. n \in 0..(capacity_ - 1) /\ Len(heads_in_flight') = n + 1
      BY <1>1, <2>1, <2>4 DEF RingInv, Indices, Room
    <3>2. head_' = Wrap(seen_head + n + 1)
      BY Zenon, <1>1, <2>1, <3>1, WrapSteps DEF RingInv, Indices, StoresInOrder
    <3>3. ASSUME NEW i \in 1..(n + 1)
          PROVE  heads_in_flight'[i] = Wrap(seen_head + i)
      <4>1. CASE i = n + 1
        BY <1>1, <2>1, <3>1, <3>2, <4>1 DEF RingInv, Indices, Slots
      <4>2. CASE i # n + 1
        BY <1>1, <2>1, <3>1, <4>2 DEF RingInv, Indices, StoresInOrder
      <4>3. QED
        BY Zenon, <4>1, <4>2
    <3>4. QED
      BY SMTT(20), <1>1, <1>4, <3>1, <3>2, <3>3 DEF RingInv, StoresInOrder, PushStore
  <2>6. Room'
    BY <1>1, <1>4, <2>1, <2>4 DEF RingInv, Indices, Threads, Room, PushStore
  <2>7. QED
    BY Zenon, <2>2, <2>3, <2>5, <2>6 DEF RingInv
<1>5. QED
  BY Zenon, <1>1, <1>2, <1>3, <1>4 DEF TryPush

\* try_pop: the load finds a value, which keeps its slot until it is read.
LEMMA PopKeepsInvariant == RingInv /\ TryPop => RingInv'
<1>1. SUFFICES ASSUME RingInv, TryPop PROVE RingInv'
  BY Zenon
<1> USE CapacityType
<1>2. CASE PopLoad
  <2>1. Len(heads_in_flight) < Held
    <3>1. Held \in 0..(capacity_ - 1) /\ Len(heads_in_flight) \in 0..(capacity_ - 1)
      BY Zenon, <1>1, Bounds
    <3>2. Distance(tail_, Wrap(seen_head + Len(heads_in_flight))) = Held
      BY Zenon, <1>1 DEF RingInv, StoresInOrder, Held
    <3>3. Held # Len(heads_in_flight)
      BY Zenon, <1>1, <1>2, <3>1, <3>2, EmptyIsSeen DEF RingInv, Indices, PopLoad
    <3>4. QED
      BY <1>1, <3>1, <3>3 DEF RingInv, Room
  <2>2. QED
    BY Zenon, <1>1, <1>2, <2>1
    DEF RingInv, Indices, Threads, StoresInOrder, Room, Contents, PopLoad, indexVars,
        Held, Distance, Wrap
<1>3. CASE PopRead
  <2>1. head_ # tail_
    BY <1>1, <1>3, DistanceSteps DEF RingInv, Indices, Room, PopRead, Held
  <2>2. Threads' /\ Contents'
    BY Zenon, <1>1, <1>3, <2>1
    DEF RingInv, Indices, Threads, Contents, PopRead, indexVars
  <2>3. QED
    BY Zenon, <1>1, <1>3, <2>2
    DEF RingInv, Indices, Threads, StoresInOrder, Room, PopRead, indexVars,
        Held, Distance, Wrap
<1>4. CASE PopStore
  <2>1. /\ tail_' = Wrap(tail_ + 1) /\ tail_' \in Slots
        /\ tails_in_flight' = Append(tails_in_flight, tail_')
    BY Zenon, <1>1, <1>4, IncrementIs DEF RingInv, Indices, PopStore
  <2>2. Indices'
    BY <1>1, <1>4, <2>1 DEF RingInv, Indices, PopStore
  <2>3. Threads' /\ Contents'
    BY Zenon, <1>1, <1>4 DEF RingInv, Threads, Contents, PopStore
  <2>4. Held' = Held - 1 /\ Held \in 0..(capacity_ - 1)
    BY <1>1, <1>4, <2>1, DistanceSteps, DistanceType
    DEF RingInv, Indices, Room, PopStore, Held, Distance
  <2>5. StoresInOrder'
    <3> DEFINE n == Len(tails_in_flight)
    <3>1. n \in 0..(capacity_ - 1) /\ Len(tails_in_flight') = n + 1
      BY <1>1, <2>1, <2>4 DEF RingInv, Indices, Room
    <3>2. tail_' = Wrap(seen_tail + n + 1)
      BY Zenon, <1>1, <2>1, <3>1, WrapSteps DEF RingInv, Indices, StoresInOrder
    <3>3. ASSUME NEW i \in 1..(n + 1)
          PROVE  tails_in_flight'[i] = Wrap(seen_tail + i)
      <4>1. CASE i = n + 1
        BY <1>1, <2>1, <3>1, <3>2, <4>1 DEF RingInv, Indices, Slots
      <4>2. CASE i # n + 1
        BY <1>1, <2>1, <3>1, <4>2 DEF RingInv, Indices, StoresInOrder
      <4>3. QED
        BY Zenon, <4>1, <4>2
    <3>4. QED
      BY <1>1, <1>4, <3>1, <3>2, <3>3 DEF RingInv, StoresInOrder, PopStore
  <2>6. Room'
    BY <1>1, <1>4, <2>1, <2>4 DEF RingInv, Indices, Threads, Room, PopStore
  <2>7. QED
    BY Zenon, <2>2, <2>3, <2>5, <2>6 DEF RingInv
<1>5. QED
  BY Zenon, <1>1, <1>2, <1>3, <1>4 DEF TryPop

\* A store that becomes visible is the oldest one in flight.
LEMMA SeeKeepsInvariant == RingInv /\ (SeeHead \/ SeeTail) => RingInv'
<1>1. SUFFICES ASSUME RingInv, SeeHead \/ SeeTail PROVE RingInv'
  BY Zenon
<1> USE CapacityType
<1>2. /\ Held \in 0..(capacity_ - 1)
      /\ Len(heads_in_flight) \in 0..(capacity_ - 1)
      /\ Len(tails_in_flight) \in 0..(capacity_ - 1)
  BY Zenon, <1>1, Bounds
<1>3. CASE SeeHead
  <2> DEFINE n == Len(heads_in_flight)
  <2>1. /\ seen_head' = Wrap(seen_head + 1) /\ seen_head' \in Slots
        /\ heads_in_flight' \in Seq(Slots) /\ Len(heads_in_flight') = n - 1
        /\ \A i \in 1..(n - 1) : heads_in_flight'[i] = Wrap(seen_head + (i + 1))
        /\ n \in 1..(capacity_ - 1)
    BY <1>1, <1>2, <1>3, HeadTailProperties DEF RingInv, Indices, StoresInOrder, SeeHead
  <2>2. ASSUME NEW k \in 0..(n - 1)
        PROVE  Wrap(seen_head' + k) = Wrap(seen_head + (k + 1))
    <3>1. seen_head \in Slots /\ k \in 0..(capacity_ - 1)
      BY <1>1, <2>1 DEF RingInv, Indices
    <3>2. Wrap(Wrap(seen_head + 1) + k) = Wrap(seen_head + k + 1)
      BY Zenon, <3>1, WrapSteps
    <3>3. seen_head + k + 1 = seen_head + (k + 1)
      BY <3>1 DEF Slots
    <3>4. QED
      BY Zenon, <2>1, <3>2, <3>3
  <2>3. Indices' /\ Threads' /\ Contents' /\ Held' = Held
    BY Zenon, <1>1, <1>3, <2>1
    DEF RingInv, Indices, Threads, Contents, SeeHead, Held, Distance
  <2>4. StoresInOrder'
    <3>1. head_' = Wrap(seen_head' + Len(heads_in_flight'))
      BY <1>1, <1>3, <2>1, <2>2 DEF RingInv, StoresInOrder, SeeHead
    <3>2. \A i \in 1..Len(heads_in_flight') : heads_in_flight'[i] = Wrap(seen_head' + i)
      BY <2>1, <2>2
    <3>3. QED
      BY Zenon, <1>1, <1>3, <3>1, <3>2 DEF RingInv, StoresInOrder, SeeHead, Wrap
  <2>5. Room'
    BY <1>1, <1>2, <1>3, <2>1, <2>3 DEF RingInv, Room, SeeHead
  <2>6. QED
    BY Zenon, <2>3, <2>4, <2>5 DEF RingInv
<1>4. CASE SeeTail
  <2> DEFINE n == Len(tails_in_flight)
  <2>1. /\ seen_tail' = Wrap(seen_tail + 1) /\ seen_tail' \in Slots
        /\ tails_in_flight' \in Seq(Slots) /\ Len(tails_in_flight') = n - 1
        /\ \A i \in 1..(n - 1) : tails_in_flight'[i] = Wrap(seen_tail + (i + 1))
        /\ n \in 1..(capacity_ - 1)
    BY <1>1, <1>2, <1>4, HeadTailProperties DEF RingInv, Indices, StoresInOrder, SeeTail
  <2>2. ASSUME NEW k \in 0..(n - 1)
        PROVE  Wrap(seen_tail' + k) = Wrap(seen_tail + (k + 1))
    <3>1. seen_tail \in Slots /\ k \in 0..(capacity_ - 1)
      BY <1>1, <2>1 DEF RingInv, Indices
    <3>2. Wrap(Wrap(seen_tail + 1) + k) = Wrap(seen_tail + k + 1)
      BY Zenon, <3>1, WrapSteps
    <3>3. seen_tail + k + 1 = seen_tail + (k + 1)
      BY <3>1 DEF Slots
    <3>4. QED
      BY Zenon, <2>1, <3>2, <3>3
  <2>3. Indices' /\ Threads' /\ Contents' /\ Held' = Held
    BY Zenon, <1>1, <1>4, <2>1
    DEF RingInv, Indices, Threads, Contents, SeeTail, Held, Distance
  <2>4. StoresInOrder'
    <3>1. tail_' = Wrap(seen_tail' + Len(tails_in_flight'))
      BY <1>1, <1>4, <2>1, <2>2 DEF RingInv, StoresInOrder, SeeTail
    <3>2. \A i \in 1..Len(tails_in_flight') : tails_in_flight'[i] = Wrap(seen_tail' + i)
      BY <2>1, <2>2
    <3>3. QED
      BY Zenon, <1>1, <1>4, <3>1, <3>2 DEF RingInv, StoresInOrder, SeeTail, Wrap
  <2>5. Room'
    BY <1>1, <1>2, <1>4, <2>1, <2>3 DEF RingInv, Room, SeeTail
  <2>6. QED
    BY Zenon, <2>3, <2>4, <2>5 DEF RingInv
<1>5. QED
  BY Zenon, <1>1, <1>3, <1>4

\* Every access of either side keeps the invariant.
LEMMA RingInvIsInductive == RingInv /\ [Next]_vars => RingInv'
<1>1. RingInv /\ UNCHANGED vars => RingInv'
  BY Zenon DEF vars, indexVars, RingInv, Indices, Threads, StoresInOrder, Room, Contents,
         Held, Distance, Wrap
<1>2. QED
  BY Zenon, <1>1, PushKeepsInvariant, PopKeepsInvariant, SeeKeepsInvariant DEF Next

\* However late the loads are, indices, stores and slots agree.
THEOREM RingInvariance == Spec => []RingInv
BY RingInvInitially, RingInvIsInductive, PTL DEF Spec

\* try_push writes and try_pop reads without a lock, and never one slot at the
\* same time, whatever the capacity and however late the stores become visible.
THEOREM SlotsNeverRace == Spec => []NoSlotRace
<1>1. RingInv => NoSlotRace
  BY CapacityType, DistanceSteps DEF RingInv, Indices, Room, Held, NoSlotRace
<1>2. QED
  BY <1>1, RingInvariance, PTL

-----------------------------------------------------------------------------
(* The ring implements the bounded FIFO queue                              *)

\* items, without the remainders: what is in the slots from tail_ on, where
\* a value that the consumer has already moved out still counts.
Ring ==
    [i \in 1..Held |->
        IF i = 1 /\ consumer = "store" THEN popping ELSE buffer_[Wrap(tail_ + i - 1)]]

\* The items of the abstract queue are the slots from tail to head.
LEMMA ItemsAreRing == RingInv => items = Ring
<1>1. SUFFICES ASSUME RingInv PROVE items = Ring
  BY Zenon
<1> USE CapacityType
<1>2. head_ \in Slots /\ tail_ \in Slots /\ Held \in 0..(capacity_ - 1)
  BY Zenon, <1>1, Bounds DEF RingInv, Indices
<1>3. (head_ + capacity_ - tail_) % capacity_ = Held
  <2>1. head_ + capacity_ - tail_ \in 0..(2 * capacity_ - 1)
    BY <1>2 DEF Slots
  <2>2. Wrap(head_ + capacity_ - tail_) = Held
    BY <1>2 DEF Slots, Wrap, Held, Distance
  <2>3. QED
    BY Zenon, <2>1, <2>2, Remainder
<1>4. ASSUME NEW i \in 1..Held
      PROVE  (tail_ + i - 1) % capacity_ = Wrap(tail_ + i - 1)
  <2>1. tail_ + i - 1 \in 0..(2 * capacity_ - 1)
    BY <1>2 DEF Slots
  <2>2. QED
    BY Zenon, <2>1, Remainder
<1>5. QED
  BY Zenon, <1>3, <1>4 DEF items, Ring

\* The slots of the values in the ring are slots, and not the one the producer
\* writes; the slot at tail_ is that of the first value only.
LEMMA RingSlots ==
    ASSUME RingInv, NEW i \in 1..Held
    PROVE  /\ Wrap(tail_ + i - 1) \in Slots
           /\ Wrap(tail_ + i - 1) # head_
           /\ Wrap(tail_ + i - 1) = tail_ => i = 1
<1>1. head_ \in Slots /\ tail_ \in Slots /\ Held \in 0..(capacity_ - 1)
  BY Zenon, Bounds DEF RingInv, Indices
<1>2. QED
  BY <1>1, CapacityType DEF Slots, Held, Distance, Wrap

\* The slots from tail to head, as a sequence.
LEMMA RingIsSequence ==
    RingInv => Ring \in Seq(Values \cup {NoValue}) /\ Len(Ring) = Held
<1>1. SUFFICES ASSUME RingInv
               PROVE  Ring \in Seq(Values \cup {NoValue}) /\ Len(Ring) = Held
  BY Zenon
<1>2. Held \in Nat
  BY <1>1, Bounds, CapacityType
<1>3. \A i \in 1..Held : Ring[i] \in Values \cup {NoValue}
  BY Zenon, <1>1, RingSlots DEF Ring, RingInv, Threads
<1>4. Ring \in [1..Held -> Values \cup {NoValue}]
  BY Zenon, <1>3 DEF Ring
<1>5. QED
  BY <1>2, <1>4

\* Publishing head_ adds the value given to try_push at the end.
LEMMA PushStoreIsPush == RingInv /\ RingInv' /\ PushStore => Fifo!Push(pushing)
<1>1. (RingInv => items = Ring)' /\ (RingInv => Ring \in Seq(Values \cup {NoValue}) /\ Len(Ring) = Held)'
  BY ItemsAreRing, RingIsSequence, PTL
<1>2. SUFFICES ASSUME RingInv, RingInv', PushStore PROVE Fifo!Push(pushing)
  BY Zenon
<1> USE CapacityType
<1>3. items = Ring /\ items' = Ring' /\ Ring \in Seq(Values \cup {NoValue}) /\ Len(Ring) = Held
  BY Zenon, <1>1, <1>2, ItemsAreRing, RingIsSequence
<1>4. /\ Held < capacity_ - 1 /\ Held \in Nat
      /\ pushing \in Values /\ buffer_[head_] = pushing
      /\ head_ \in Slots /\ tail_ \in Slots /\ tail_' = tail_
      /\ buffer_' = buffer_ /\ consumer' = consumer /\ popping' = popping
      /\ consumer = "store" => Held # 0
  BY <1>2, Bounds DEF RingInv, Indices, Threads, Room, Contents, PushStore
<1>5. Held' = Held + 1
  BY <1>2, <1>4, IncrementIs, DistanceSteps DEF PushStore, Held
<1>6. Wrap(tail_ + (Held + 1) - 1) = head_
  BY <1>4 DEF Slots, Wrap, Held, Distance
<1>7. Ring' = Append(Ring, pushing)
  <2>1. Ring' \in Seq(Values \cup {NoValue}) /\ Len(Ring') = Held + 1
    BY Zenon, <1>1, <1>2, <1>5
  <2>2. /\ Append(Ring, pushing) \in Seq(Values \cup {NoValue})
        /\ Len(Append(Ring, pushing)) = Held + 1
    BY <1>3, <1>4
  <2>3. ASSUME NEW i \in 1..(Held + 1) PROVE Ring'[i] = Append(Ring, pushing)[i]
    <3>1. Ring'[i] = IF i = 1 /\ consumer = "store" THEN popping
                     ELSE buffer_[Wrap(tail_ + i - 1)]
      BY Zenon, <1>4, <1>5 DEF Ring, Wrap
    <3>2. CASE i = Held + 1
      BY <1>3, <1>4, <1>6, <3>1, <3>2
    <3>3. CASE i \in 1..Held
      BY <1>3, <1>4, <3>1, <3>3 DEF Ring
    <3>4. \A n \in Nat : i \in 1..(n + 1) => i = n + 1 \/ i \in 1..n
      OBVIOUS
    <3>5. QED
      BY Zenon, <1>4, <3>2, <3>3, <3>4
  <2>4. QED
    BY Zenon, <2>1, <2>2, <2>3, SeqEqual
<1>8. delivered' = delivered
  BY Zenon, <1>2 DEF PushStore
<1>9. QED
  BY Zenon, <1>3, <1>4, <1>7, <1>8 DEF Fifo!Push

\* Storing tail_ removes the oldest value, which try_pop returns.
LEMMA PopStoreIsPop == RingInv /\ RingInv' /\ PopStore => Fifo!Pop
<1>1. (RingInv => items = Ring)' /\ (RingInv => Ring \in Seq(Values \cup {NoValue}) /\ Len(Ring) = Held)'
  BY ItemsAreRing, RingIsSequence, PTL
<1>2. SUFFICES ASSUME RingInv, RingInv', PopStore PROVE Fifo!Pop
  BY Zenon
<1> USE CapacityType
<1>3. items = Ring /\ items' = Ring' /\ Ring \in Seq(Values \cup {NoValue}) /\ Len(Ring) = Held
  BY Zenon, <1>1, <1>2, ItemsAreRing, RingIsSequence
<1>4. /\ Held \in Nat /\ Held > 0
      /\ head_ \in Slots /\ tail_ \in Slots /\ head_' = head_
      /\ tail_' = Wrap(tail_ + 1) /\ Held < capacity_
      /\ buffer_' = buffer_ /\ consumer' = "idle" /\ consumer = "store"
  BY <1>2, Bounds, IncrementIs DEF RingInv, Indices, Room, PopStore
<1>5. Held' = Held - 1
  BY Zenon, <1>4, DistanceSteps DEF Held
<1>6. Ring # <<>> /\ Head(Ring) = popping
  <2>1. Ring[1] = popping
    BY <1>4 DEF Ring
  <2>2. QED
    BY <1>3, <1>4, <2>1
<1>7. Ring' = Tail(Ring)
  <2>1. Ring' \in Seq(Values \cup {NoValue}) /\ Len(Ring') = Held - 1
    BY Zenon, <1>1, <1>2, <1>5
  <2>2. /\ Tail(Ring) \in Seq(Values \cup {NoValue}) /\ Len(Tail(Ring)) = Held - 1
        /\ \A i \in 1..(Held - 1) : Tail(Ring)[i] = Ring[i + 1]
    BY Zenon, <1>3, <1>6, HeadTailProperties
  <2>3. ASSUME NEW i \in 1..(Held - 1) PROVE Ring'[i] = Tail(Ring)[i]
    <3>1. Ring'[i] = buffer_[Wrap(tail_' + i - 1)]
      BY Zenon, <1>4, <1>5 DEF Ring
    <3>2. Wrap(tail_' + i - 1) = Wrap(tail_ + (i + 1) - 1)
      BY <1>4 DEF Wrap, Slots
    <3>3. Ring[i + 1] = buffer_[Wrap(tail_ + (i + 1) - 1)]
      BY <1>4 DEF Ring
    <3>4. QED
      BY Zenon, <2>2, <3>1, <3>2, <3>3
  <2>4. QED
    BY Zenon, <2>1, <2>2, <2>3, SeqEqual
<1>8. delivered' = popping
  BY Zenon, <1>2 DEF PopStore
<1>9. QED
  BY Zenon, <1>3, <1>6, <1>7, <1>8 DEF Fifo!Pop

\* Every other step leaves the queue as it is: a slot is written before it is
\* published, and a value that was moved out of its slot still counts.
LEMMA OtherStepsStutter ==
    /\ RingInv /\ RingInv'
    /\ PushWrite \/ PopLoad \/ PopRead \/ SeeHead \/ SeeTail
         \/ (\E value \in Values : PushLoad(value)) \/ UNCHANGED vars
    => UNCHANGED <<items, delivered>>
<1>1. (RingInv => items = Ring)'
  BY ItemsAreRing, PTL
<1>2. ASSUME RingInv, RingInv', UNCHANGED <<head_, tail_, delivered>>,
             Ring' = Ring
      PROVE  UNCHANGED <<items, delivered>>
  BY Zenon, <1>1, <1>2, ItemsAreRing
<1>3. ASSUME RingInv, RingInv', PushWrite PROVE UNCHANGED <<items, delivered>>
  <2>1. UNCHANGED <<head_, tail_, delivered, consumer, popping>>
    BY Zenon, <1>3 DEF PushWrite, indexVars
  <2>2. Held' = Held
    BY Zenon, <2>1 DEF Held, Distance
  <2>3. \A i \in 1..Held : buffer_'[Wrap(tail_ + i - 1)] = buffer_[Wrap(tail_ + i - 1)]
    BY Zenon, <1>3, RingSlots DEF RingInv, Threads, PushWrite
  <2>4. Ring' = Ring
    BY Zenon, <2>1, <2>2, <2>3 DEF Ring, Wrap
  <2>5. QED
    BY Zenon, <1>2, <1>3, <2>1, <2>4
<1>4. ASSUME RingInv, RingInv', PopRead PROVE UNCHANGED <<items, delivered>>
  <2>1. /\ UNCHANGED <<head_, tail_, delivered>>
        /\ consumer = "read" /\ consumer' = "store" /\ popping' = buffer_[tail_]
    BY Zenon, <1>4 DEF PopRead, indexVars
  <2>2. Held' = Held
    BY Zenon, <2>1 DEF Held, Distance
  <2>3. ASSUME NEW i \in 1..Held
        PROVE  (IF i = 1 /\ consumer' = "store" THEN popping'
                ELSE buffer_'[Wrap(tail_ + i - 1)])
               = (IF i = 1 /\ consumer = "store" THEN popping
                  ELSE buffer_[Wrap(tail_ + i - 1)])
    <3>1. CASE i = 1
      <4>1. Wrap(tail_ + i - 1) = tail_
        BY <1>4, <3>1, CapacityType DEF RingInv, Indices, Slots, Wrap
      <4>2. QED
        BY Zenon, <2>1, <3>1, <4>1
    <3>2. CASE i # 1
      <4>1. Wrap(tail_ + i - 1) # tail_ /\ Wrap(tail_ + i - 1) \in Slots
        BY Zenon, <1>4, <3>2, RingSlots
      <4>2. buffer_'[Wrap(tail_ + i - 1)] = buffer_[Wrap(tail_ + i - 1)]
        BY Zenon, <1>4, <4>1 DEF RingInv, Threads, PopRead
      <4>3. QED
        BY Zenon, <3>2, <4>2
    <3>3. QED
      BY Zenon, <3>1, <3>2
  <2>4. Ring' = Ring
    BY Zenon, <2>1, <2>2, <2>3 DEF Ring, Wrap
  <2>5. QED
    BY Zenon, <1>2, <1>4, <2>1, <2>4
<1>5. ASSUME RingInv, RingInv',
             PopLoad \/ SeeHead \/ SeeTail \/ (\E value \in Values : PushLoad(value))
               \/ UNCHANGED vars
      PROVE  UNCHANGED <<items, delivered>>
  <2>1. /\ UNCHANGED <<head_, tail_, delivered, buffer_, popping>>
        /\ consumer' = "store" <=> consumer = "store"
    BY Zenon, <1>5 DEF PopLoad, SeeHead, SeeTail, PushLoad, indexVars, vars
  <2>2. Held' = Held
    BY Zenon, <2>1 DEF Held, Distance
  <2>3. Ring' = Ring
    BY Zenon, <2>1, <2>2 DEF Ring, Wrap
  <2>4. QED
    BY Zenon, <1>2, <1>5, <2>1, <2>3
<1>6. QED
  BY Zenon, <1>3, <1>4, <1>5

\* The ring of any capacity is a FIFO queue that holds one value less than it
\* has slots: try_push and try_pop lose, repeat and reorder nothing, whatever
\* old index values the acquire loads return.
THEOREM RingIsFifo == Spec => FifoSpec
<1>1. Init => Fifo!Init
  <2>1. SUFFICES ASSUME Init PROVE Fifo!Init
    BY Zenon
  <2>2. items = Ring /\ Held = 0
    BY <2>1, RingInvInitially, ItemsAreRing DEF Init, Held, Distance
  <2>3. items = <<>>
    <3>1. Len(items) = 0 /\ items \in Seq(Values \cup {NoValue})
      BY Zenon, <2>1, <2>2, RingInvInitially, RingIsSequence
    <3>2. QED
      BY <3>1
  <2>4. QED
    BY Zenon, <2>1, <2>3 DEF Init, Fifo!Init
<1>2. RingInv /\ RingInv' /\ [Next]_vars => [Fifo!Next]_<<items, delivered>>
  <2>1. SUFFICES ASSUME RingInv, RingInv', [Next]_vars
                 PROVE  Fifo!Next \/ UNCHANGED <<items, delivered>>
    BY Zenon
  <2>2. CASE PushStore
    <3>1. pushing \in Values
      BY Zenon, <2>1, <2>2 DEF RingInv, Threads, PushStore
    <3>2. QED
      BY Zenon, <2>1, <2>2, <3>1, PushStoreIsPush DEF Fifo!Next
  <2>3. CASE PopStore
    BY Zenon, <2>1, <2>3, PopStoreIsPop DEF Fifo!Next
  <2>4. CASE ~PushStore /\ ~PopStore
    BY Zenon, <2>1, <2>4, OtherStepsStutter DEF Next, TryPush, TryPop
  <2>5. QED
    BY Zenon, <2>2, <2>3, <2>4
<1>3. QED
  BY <1>1, <1>2, RingInvariance, PTL DEF Spec, FifoSpec, Fifo!Spec, Fifo!vars

-----------------------------------------------------------------------------
(* The books of a shard.                                                   *)

Sums == INSTANCE FiniteSums

PendingDelta == [sequence_id : Nat \cup {None}, delta : DeltaData]

-----------------------------------------------------------------------------
(* The replay                                                              *)

\* g holds the book after the replay of the first i deltas, for i up to n
IsReplay(g, book, pending, n) ==
    g = [i \in 0..n |-> IF i = 0 THEN book ELSE ReplayDelta(g[i - 1], pending[i])]

\* There is a table of the books after each of the first n pending deltas.
LEMMA ReplayExists ==
    ASSUME NEW book, NEW pending
    PROVE  \A n \in Nat : \E g : IsReplay(g, book, pending, n)
<1> DEFINE T == {n \in Nat : \E g : IsReplay(g, book, pending, n)}
<1>1. 0 \in T
  <2> DEFINE g == [i \in 0..0 |-> book]
  <2>1. IsReplay(g, book, pending, 0)
    BY DEF IsReplay
  <2>. QED
    BY Zenon, <2>1
<1>2. ASSUME NEW n \in Nat, n \in T
      PROVE  n + 1 \in T
  <2>1. PICK g : IsReplay(g, book, pending, n)
    BY Zenon, <1>2
  <2> DEFINE h == [i \in 0..(n + 1) |->
                     IF i = n + 1 THEN ReplayDelta(g[n], pending[n + 1]) ELSE g[i]]
  <2>2. \A i \in 0..n : g[i] = IF i = 0 THEN book ELSE ReplayDelta(g[i - 1], pending[i])
    BY Zenon, <2>1 DEF IsReplay
  <2>3. \A i \in 0..(n + 1) :
          h[i] = IF i = 0 THEN book ELSE ReplayDelta(h[i - 1], pending[i])
    <3> SUFFICES ASSUME NEW i \in 0..(n + 1)
                 PROVE  h[i] = IF i = 0 THEN book ELSE ReplayDelta(h[i - 1], pending[i])
      BY Zenon
    <3>1. CASE i = 0
      BY <2>2, <3>1
    <3>2. CASE i \in 1..n
      <4>1. i \in 0..n /\ i - 1 \in 0..(n + 1) /\ i # n + 1 /\ i - 1 # n + 1 /\ i # 0
        BY <3>2
      <4>2. h[i] = g[i] /\ h[i - 1] = g[i - 1]
        BY Zenon, <4>1
      <4>. QED
        BY Zenon, <2>2, <4>1, <4>2
    <3>3. CASE i = n + 1
      <4>1. h[n] = g[n] /\ h[n + 1] = ReplayDelta(g[n], pending[n + 1]) /\ n + 1 - 1 = n /\ n + 1 # 0
        OBVIOUS
      <4> HIDE DEF h
      <4>. QED
        BY <3>3, <4>1
    <3>. QED
      BY <3>1, <3>2, <3>3
  <2>4. h = [i \in 0..(n + 1) |-> h[i]]
    BY Zenon
  <2>5. IsReplay(h, book, pending, n + 1)
    <3> HIDE DEF h
    <3>. QED
      BY Zenon, <2>3, <2>4 DEF IsReplay
  <2>. QED
    BY <2>5
<1>3. Nat \subseteq T
  <2> HIDE DEF T
  <2>. QED
    BY Zenon, <1>1, <1>2, Sums!NatSetInduction
<1>. QED
  BY Zenon, <1>3

\* replay_pending_deltas: the books on the way, and the one at the end.
LEMMA ReplayUnfolds ==
    ASSUME NEW book, NEW pending \in Seq(PendingDelta)
    PROVE  \E g : /\ IsReplay(g, book, pending, Len(pending))
                  /\ Replayed(book, pending) = g[Len(pending)]
<1> DEFINE g == CHOOSE k : IsReplay(k, book, pending, Len(pending))
<1>1. IsReplay(g, book, pending, Len(pending))
  BY ReplayExists
<1>2. Replayed(book, pending) = g[Len(pending)]
  BY Zenon DEF Replayed, IsReplay
<1>. QED
  BY Zenon, <1>1, <1>2

-----------------------------------------------------------------------------
(* Levels                                                                  *)

IsLevels(side) == \A price \in DOMAIN side : price \in Nat /\ side[price] \in Nat \ {0}

\* apply_snapshot_data copies valid levels only.
LEMMA SnapshotLevels ==
    ASSUME NEW levels \in Seq(Level)
    PROVE  IsLevels(LevelsBeforeFault(levels))
<1> DEFINE read == {i \in DOMAIN levels : \A j \in 1..i : LevelIsValid(levels[j])}
           at(price) == {i \in read : levels[i].price_ticks = price}
<1>1. DOMAIN levels = 1..Len(levels) /\ Len(levels) \in Nat
  OBVIOUS
<1>2. \A i \in read : /\ levels[i].price_ticks \in Nat
                      /\ levels[i].qty_lots \in Nat \ {0}
  <2>1. \A i \in read : LevelIsValid(levels[i]) /\ levels[i] \in Level
    OBVIOUS
  <2>2. \A level \in Level : LevelIsValid(level) =>
            level.price_ticks \in Nat /\ level.qty_lots \in Nat \ {0}
    BY DEF LevelIsValid, Level
  <2>. QED
    BY Zenon, <2>1, <2>2
<1>3. ASSUME NEW i \in read
      PROVE  Latest(at(levels[i].price_ticks)) \in read
  <2>1. i \in at(levels[i].price_ticks) /\ at(levels[i].price_ticks) \in SUBSET (1..Len(levels))
    BY Zenon, <1>1
  <2>2. Latest(at(levels[i].price_ticks)) \in at(levels[i].price_ticks)
    <3> HIDE DEF at
    <3>. QED
      BY Zenon, <1>1, <2>1, Sums!MaxIsIn DEF Sums!Max, Latest
  <2>. QED
    BY Zenon, <2>2
<1>4. LevelsBeforeFault(levels) = [price \in {levels[i].price_ticks : i \in read} |->
                                     levels[Latest(at(price))].qty_lots]
  BY Zenon DEF LevelsBeforeFault
<1> HIDE DEF read, at
<1>. QED
  BY Zenon, <1>2, <1>3, <1>4 DEF IsLevels

\* A delta leaves no level without lots.
LEMMA DeltaLevels ==
    ASSUME NEW levels, IsLevels(levels), NEW price \in Nat, NEW lots \in Int
    PROVE  IsLevels(AddLots(levels, price, lots))
<1> DEFINE updated == lots + (IF price \in DOMAIN levels THEN levels[price] ELSE 0)
<1>1. updated \in Int
  BY DEF IsLevels
<1>2. AddLots(levels, price, lots) =
        IF updated <= 0 THEN [p \in DOMAIN levels \ {price} |-> levels[p]]
        ELSE [p \in DOMAIN levels \cup {price} |-> IF p = price THEN updated ELSE levels[p]]
  BY Zenon DEF AddLots, Restrict
<1> HIDE DEF updated
<1>. QED
  BY <1>1, <1>2 DEF IsLevels

-----------------------------------------------------------------------------
(* Books                                                                   *)

\* what holds also in the middle of a replay
BookIsSound(book) ==
    /\ DOMAIN book = DOMAIN EmptyBook
    /\ book.last_seq_id \in Nat \cup {None}
    /\ book.has_snapshot \in BOOLEAN /\ book.desynced \in BOOLEAN
    /\ ~(book.has_snapshot /\ book.desynced)
    /\ IsLevels(book.bids) /\ IsLevels(book.asks)

BookInv(book) ==
    /\ BookIsSound(book)
    /\ book.pending_deltas \in Seq(PendingDelta)
    /\ Len(book.pending_deltas) <= kMaxPendingDeltas
    /\ book.has_snapshot \/ book.desynced => book.pending_deltas = <<>>

\* the book took the sequence id of a snapshot
Numbered(book) == book.has_snapshot => book.last_seq_id # None

\* A market that is met for the first time.
LEMMA EmptyBookInv == BookInv(EmptyBook) /\ Numbered(EmptyBook)
<1>1. IsLevels(NoLevels)
  BY Zenon DEF IsLevels, NoLevels
<1>. QED
  BY <1>1, BookAssumption DEF EmptyBook, BookInv, BookIsSound, Numbered

\* mark_desynced forgets everything about a book.
LEMMA DesyncedInv ==
    ASSUME NEW book
    PROVE  /\ BookInv(mark_desynced(book)) /\ Numbered(mark_desynced(book))
           /\ mark_desynced(book).desynced
<1>1. IsLevels(NoLevels)
  BY Zenon DEF IsLevels, NoLevels
<1>. QED
  BY <1>1, BookAssumption DEF mark_desynced, EmptyBook, BookInv, BookIsSound, Numbered

-----------------------------------------------------------------------------
(* The parts of apply()                                                    *)

\* NormalizedEvent::effective_sequence_id is absent or a number.
LEMMA SequenceType ==
    ASSUME NEW event, EventIsTyped(event)
    PROVE  effective_sequence_id(event) \in Nat \cup {None}
BY Zenon DEF EventIsTyped, effective_sequence_id

\* advance_sequence_if_present touches the sequence id only.
LEMMA AdvanceFields ==
    ASSUME NEW book, NEW sequence_id
    PROVE  LET after == advance_sequence_if_present(book, sequence_id)
           IN  /\ after.has_snapshot = book.has_snapshot
               /\ after.desynced = book.desynced
               /\ after.bids = book.bids /\ after.asks = book.asks
               /\ after.pending_deltas = book.pending_deltas
               /\ after.last_trade = book.last_trade
               /\ DOMAIN after = DOMAIN book
BY DEF advance_sequence_if_present

\* advance_sequence_if_present stores a sequence id that is present.
LEMMA AdvanceSequence ==
    ASSUME NEW book, DOMAIN book = DOMAIN EmptyBook, NEW sequence_id
    PROVE  advance_sequence_if_present(book, sequence_id).last_seq_id =
             IF sequence_id = None THEN book.last_seq_id ELSE sequence_id
BY Zenon DEF advance_sequence_if_present, EmptyBook

\* advance_sequence_if_present touches nothing but the sequence id.
LEMMA AdvanceSound ==
    ASSUME NEW book, BookIsSound(book), NEW sequence_id \in Nat \cup {None}
    PROVE  /\ BookIsSound(advance_sequence_if_present(book, sequence_id))
           /\ Numbered(book) => Numbered(advance_sequence_if_present(book, sequence_id))
<1>1. DOMAIN book = DOMAIN EmptyBook
  BY Zenon DEF BookIsSound
<1>. QED
  BY <1>1, AdvanceFields, AdvanceSequence DEF BookIsSound, Numbered

\* apply_delta_data touches the levels only.
LEMMA ApplyDeltaFields ==
    ASSUME NEW book, NEW delta
    PROVE  LET after == apply_delta_data(book, delta)
           IN  /\ after.has_snapshot = book.has_snapshot
               /\ after.desynced = book.desynced
               /\ after.last_seq_id = book.last_seq_id
               /\ after.pending_deltas = book.pending_deltas
               /\ DOMAIN after = DOMAIN book
BY DEF apply_delta_data

\* apply_delta_data keeps levels positive: one that is used up is removed.
LEMMA ApplyDeltaSound ==
    ASSUME NEW book, BookIsSound(book), NEW delta \in DeltaData, DeltaIsValid(delta)
    PROVE  /\ BookIsSound(apply_delta_data(book, delta))
           /\ Numbered(book) => Numbered(apply_delta_data(book, delta))
<1>1. delta.price_ticks \in Nat /\ delta.delta_qty_lots \in Int
  BY DEF DeltaData, DeltaIsValid
<1>2. /\ IsLevels(AddLots(book.bids, delta.price_ticks, delta.delta_qty_lots))
      /\ IsLevels(AddLots(book.asks, delta.price_ticks, delta.delta_qty_lots))
  BY Zenon, <1>1, DeltaLevels DEF BookIsSound
<1>3. DOMAIN book = DOMAIN EmptyBook
  BY Zenon DEF BookIsSound
<1>4. LET after == apply_delta_data(book, delta)
      IN  /\ after.bids \in {book.bids,
                             AddLots(book.bids, delta.price_ticks, delta.delta_qty_lots)}
          /\ after.asks \in {book.asks,
                             AddLots(book.asks, delta.price_ticks, delta.delta_qty_lots)}
  BY Zenon, <1>3 DEF apply_delta_data, EmptyBook
<1>. QED
  BY Zenon, <1>2, <1>4, ApplyDeltaFields DEF BookIsSound, Numbered

\* A pending delta, whether it is stale, invalid or applied, leaves a sound book.
LEMMA ReplayDeltaSound ==
    ASSUME NEW book, BookIsSound(book), NEW pending \in PendingDelta
    PROVE  /\ BookIsSound(ReplayDelta(book, pending))
           /\ Numbered(book) => Numbered(ReplayDelta(book, pending))
<1>1. pending.sequence_id \in Nat \cup {None} /\ pending.delta \in DeltaData
  BY Zenon DEF PendingDelta
<1> DEFINE advanced == advance_sequence_if_present(book, pending.sequence_id)
<1>2. BookIsSound(advanced) /\ (Numbered(book) => Numbered(advanced))
  BY Zenon, <1>1, AdvanceSound
<1>3. DeltaIsValid(pending.delta) =>
        /\ BookIsSound(apply_delta_data(advanced, pending.delta))
        /\ Numbered(book) => Numbered(apply_delta_data(advanced, pending.delta))
  <2> HIDE DEF advanced
  <2>. QED
    BY Zenon, <1>1, <1>2, ApplyDeltaSound
<1>4. BookIsSound(mark_desynced(book)) /\ Numbered(mark_desynced(book))
  BY Zenon, DesyncedInv DEF BookInv
<1>. QED
  BY Zenon, <1>3, <1>4 DEF ReplayDelta

\* replay_pending_deltas of a book that has its snapshot.
LEMMA ReplayInv ==
    ASSUME NEW book, BookIsSound(book), book.pending_deltas \in Seq(PendingDelta)
    PROVE  /\ BookInv(replay_pending_deltas(book))
           /\ Numbered(book) => Numbered(replay_pending_deltas(book))
<1> DEFINE pending == book.pending_deltas
           n == Len(pending)
<1>1. PICK g : /\ IsReplay(g, book, pending, n)
               /\ Replayed(book, pending) = g[n]
  BY Zenon, ReplayUnfolds
<1>2. n \in Nat /\ \A i \in 1..n : pending[i] \in PendingDelta
  OBVIOUS
<1>3. /\ g[0] = book
      /\ \A i \in 1..n : g[i] = ReplayDelta(g[i - 1], pending[i])
  <2> HIDE DEF pending, n
  <2>1. g = [i \in 0..n |-> IF i = 0 THEN book ELSE ReplayDelta(g[i - 1], pending[i])]
    BY Zenon, <1>1 DEF IsReplay
  <2>2. 0 \in 0..n /\ \A i \in 1..n : i \in 0..n /\ i # 0
    BY <1>2
  <2>. QED
    BY Zenon, <2>1, <2>2
<1> HIDE DEF pending, n
<1> DEFINE Good(i) == BookIsSound(g[i]) /\ (Numbered(book) => Numbered(g[i]))
           T == {i \in Nat : i <= n => Good(i)}
<1>4. 0 \in T
  BY Zenon, <1>3
<1>5. ASSUME NEW i \in Nat, i \in T
      PROVE  i + 1 \in T
  <2>1. CASE i + 1 <= n
    <3>1. Good(i) /\ i + 1 \in 1..n /\ i + 1 - 1 = i
      BY <1>2, <1>5, <2>1
    <3>2. g[i + 1] = ReplayDelta(g[i], pending[i + 1]) /\ pending[i + 1] \in PendingDelta
      BY <1>2, <1>3, <3>1
    <3>. QED
      BY <3>1, <3>2, ReplayDeltaSound
  <2>. QED
    BY <2>1
<1>6. Good(n)
  <2>1. Nat \subseteq T
    <3> HIDE DEF T
    <3>. QED
      BY Zenon, <1>4, <1>5, Sums!NatSetInduction
  <2>. QED
    BY <1>2, <2>1
<1>7. replay_pending_deltas(book) = [g[n] EXCEPT !.pending_deltas = <<>>]
  BY Zenon, <1>1 DEF replay_pending_deltas, pending
<1>. QED
  BY <1>6, <1>7, BookAssumption DEF BookInv, BookIsSound, Numbered, EmptyBook

-----------------------------------------------------------------------------
(* apply()                                                                 *)

\* BookStore::apply on a snapshot, the replay of what was pending included.
LEMMA AfterSnapshotInv ==
    ASSUME NEW book, BookInv(book), NEW event, event.data \in SnapshotData, EventIsTyped(event)
    PROVE  /\ BookInv(AfterSnapshot(book, event))
           /\ Numbered(book) /\ effective_sequence_id(event) # None =>
                 Numbered(AfterSnapshot(book, event))
<1> DEFINE copied == apply_snapshot_data(book, event.data)
           synced == [copied EXCEPT !.has_snapshot = TRUE, !.desynced = FALSE,
                                    !.last_seq_id = effective_sequence_id(event)]
<1>0. DOMAIN book = DOMAIN EmptyBook /\ BookIsSound(book)
  BY Zenon DEF BookInv, BookIsSound
<1>1. /\ DOMAIN copied = DOMAIN EmptyBook
      /\ copied.last_seq_id = book.last_seq_id
      /\ copied.has_snapshot = book.has_snapshot /\ copied.desynced = book.desynced
      /\ copied.pending_deltas = book.pending_deltas
  BY <1>0 DEF apply_snapshot_data
<1>2. IsLevels(copied.bids) /\ IsLevels(copied.asks)
  <2>1. /\ IsLevels(LevelsBeforeFault(event.data.bids))
        /\ IsLevels(LevelsBeforeFault(event.data.asks))
    BY Zenon, SnapshotLevels DEF SnapshotData
  <2>2. IsLevels(NoLevels)
    BY Zenon DEF IsLevels, NoLevels
  <2>. QED
    BY Zenon, <1>0, <2>1, <2>2 DEF apply_snapshot_data, EmptyBook
<1> HIDE DEF copied
<1>3. BookInv(copied) /\ (Numbered(book) => Numbered(copied))
  BY Zenon, <1>0, <1>1, <1>2 DEF BookInv, BookIsSound, Numbered
<1>4. /\ DOMAIN synced = DOMAIN EmptyBook
      /\ synced.last_seq_id = effective_sequence_id(event)
      /\ synced.has_snapshot = TRUE /\ synced.desynced = FALSE
      /\ synced.bids = copied.bids /\ synced.asks = copied.asks
      /\ synced.pending_deltas = book.pending_deltas
  BY Zenon, <1>1 DEF EmptyBook
<1> HIDE DEF synced
<1>5. BookIsSound(synced) /\ synced.pending_deltas \in Seq(PendingDelta)
  BY Zenon, <1>2, <1>4, SequenceType DEF BookInv, BookIsSound
<1>6. effective_sequence_id(event) # None => Numbered(synced)
  BY Zenon, <1>4 DEF Numbered
<1>7. /\ BookInv(replay_pending_deltas(synced))
      /\ effective_sequence_id(event) # None => Numbered(replay_pending_deltas(synced))
  BY Zenon, <1>5, <1>6, ReplayInv
<1>8. AfterSnapshot(book, event) = replay_pending_deltas(synced) \/ AfterSnapshot(book, event) = copied
  BY Zenon DEF AfterSnapshot, copied, synced
<1>. QED
  BY Zenon, <1>3, <1>7, <1>8

\* BookStore::apply on a delta: dropped, buffered, refused or applied.
LEMMA AfterDeltaInv ==
    ASSUME NEW book, BookInv(book), NEW event, event.data \in DeltaData, EventIsTyped(event)
    PROVE  /\ BookInv(AfterDelta(book, event))
           /\ Numbered(book) => Numbered(AfterDelta(book, event))
<1> DEFINE sequence_id == effective_sequence_id(event)
           advanced == advance_sequence_if_present(book, sequence_id)
           entry == [sequence_id |-> sequence_id, delta |-> event.data]
           buffered == [book EXCEPT !.pending_deltas = Append(@, entry)]
           changed == apply_delta_data(advanced, event.data)
<1>0. DOMAIN book = DOMAIN EmptyBook /\ BookIsSound(book) /\ sequence_id \in Nat \cup {None}
  BY Zenon, SequenceType DEF BookInv, BookIsSound
<1>1. CASE book.desynced
  BY Zenon, <1>1 DEF AfterDelta
<1>2. CASE ~book.desynced /\ ~book.has_snapshot
  <2>1. CASE Len(book.pending_deltas) >= kMaxPendingDeltas
    BY Zenon, <1>2, <2>1, DesyncedInv DEF AfterDelta
  <2>2. CASE ~(Len(book.pending_deltas) >= kMaxPendingDeltas)
    <3>1. entry \in PendingDelta
      BY Zenon, <1>0 DEF PendingDelta
    <3>2. /\ buffered.pending_deltas = Append(book.pending_deltas, entry)
          /\ DOMAIN buffered = DOMAIN EmptyBook
          /\ buffered.has_snapshot = book.has_snapshot /\ buffered.desynced = book.desynced
          /\ buffered.last_seq_id = book.last_seq_id
          /\ buffered.bids = book.bids /\ buffered.asks = book.asks
      BY Zenon, <1>0 DEF EmptyBook
    <3>3. AfterDelta(book, event) = buffered
      BY Zenon, <1>2, <2>2 DEF AfterDelta
    <3> HIDE DEF buffered, entry
    <3>4. /\ Append(book.pending_deltas, entry) \in Seq(PendingDelta)
          /\ Len(Append(book.pending_deltas, entry)) <= kMaxPendingDeltas
      BY <2>2, <3>1, BookAssumption DEF BookInv
    <3>. QED
      BY Zenon, <1>0, <1>2, <3>2, <3>3, <3>4 DEF BookInv, BookIsSound, Numbered
  <2>. QED
    BY Zenon, <2>1, <2>2
<1>3. CASE ~book.desynced /\ book.has_snapshot
  <2>1. BookIsSound(advanced) /\ (Numbered(book) => Numbered(advanced))
    BY Zenon, <1>0, AdvanceSound
  <2>2. /\ advanced.has_snapshot = book.has_snapshot /\ advanced.desynced = book.desynced
        /\ advanced.pending_deltas = book.pending_deltas
    BY Zenon, AdvanceFields
  <2> HIDE DEF advanced
  <2>3. BookInv(advanced)
    BY Zenon, <2>1, <2>2 DEF BookInv
  <2>4. DeltaIsValid(event.data) => BookInv(changed) /\ (Numbered(book) => Numbered(changed))
    BY Zenon, <2>1, <2>2, <2>3, ApplyDeltaFields, ApplyDeltaSound DEF BookInv
  <2>5. AfterDelta(book, event) =
          IF ~SequenceAllows(book, sequence_id) THEN book
          ELSE IF DeltaIsValid(event.data) THEN changed ELSE advanced
    BY Zenon, <1>3 DEF AfterDelta, advanced
  <2> HIDE DEF changed
  <2>. QED
    BY Zenon, <2>1, <2>3, <2>4, <2>5
<1>. QED
  BY Zenon, <1>0, <1>1, <1>2, <1>3

\* BookStore::apply on a trade.
LEMMA AfterTradeInv ==
    ASSUME NEW book, BookInv(book), NEW event, EventIsTyped(event)
    PROVE  /\ BookInv(AfterTrade(book, event))
           /\ Numbered(book) => Numbered(AfterTrade(book, event))
<1> DEFINE sequence_id == effective_sequence_id(event)
           advanced == advance_sequence_if_present(book, sequence_id)
<1>0. BookIsSound(book) /\ sequence_id \in Nat \cup {None}
  BY Zenon, SequenceType DEF BookInv
<1>1. BookIsSound(advanced) /\ (Numbered(book) => Numbered(advanced))
  BY Zenon, <1>0, AdvanceSound
<1>2. /\ advanced.has_snapshot = book.has_snapshot /\ advanced.desynced = book.desynced
      /\ advanced.pending_deltas = book.pending_deltas
  BY Zenon, AdvanceFields
<1> HIDE DEF advanced
<1> DEFINE traded == [advanced EXCEPT !.last_trade = event.data]
<1>3. /\ DOMAIN traded = DOMAIN advanced
      /\ traded.has_snapshot = advanced.has_snapshot /\ traded.desynced = advanced.desynced
      /\ traded.last_seq_id = advanced.last_seq_id
      /\ traded.bids = advanced.bids /\ traded.asks = advanced.asks
      /\ traded.pending_deltas = advanced.pending_deltas
  OBVIOUS
<1>4. AfterTrade(book, event) = book \/ AfterTrade(book, event) = traded
  BY Zenon DEF AfterTrade, advanced
<1> HIDE DEF traded
<1>5. BookInv(traded) /\ (Numbered(book) => Numbered(traded))
  BY Zenon, <1>1, <1>2, <1>3 DEF BookInv, BookIsSound, Numbered
<1>. QED
  BY Zenon, <1>4, <1>5

-----------------------------------------------------------------------------
(* The store                                                               *)

StoreInv == \A m \in DOMAIN books : BookInv(books[m])

\* The parser refuses a snapshot or a delta without a sequence id.
Sequenced ==
    \A event \in Events :
        event.type \in {"kSnapshot", "kDelta"} => effective_sequence_id(event) # None

StoreNumbered == \A m \in DOMAIN books : Numbered(books[m])

\* The book apply works on: the one of its market, or a new one.
LEMMA BookOfInv ==
    ASSUME StoreInv, NEW m
    PROVE  BookInv(BookOf(m)) /\ (StoreNumbered => Numbered(BookOf(m)))
BY Zenon, EmptyBookInv DEF BookOf, StoreInv, StoreNumbered

\* An event changes the book of its market only.
LEMMA PutBookInv ==
    ASSUME StoreInv, NEW m, NEW book, PutBook(m, book)
    PROVE  /\ BookInv(book) => StoreInv'
           /\ StoreNumbered /\ Numbered(book) => StoreNumbered'
BY Zenon DEF PutBook, StoreInv, StoreNumbered

\* BookStore::apply keeps every book sound, and numbered if its events are.
LEMMA ApplyInv ==
    ASSUME StoreInv, NEW event, EventIsTyped(event), apply(event)
    PROVE  /\ StoreInv'
           /\ \/ effective_sequence_id(event) # None
              \/ event.type \notin {"kSnapshot", "kDelta"}
              => (StoreNumbered => StoreNumbered')
<1> DEFINE m == event.market_ticker
<1>0. BookInv(BookOf(m)) /\ (StoreNumbered => Numbered(BookOf(m)))
  BY Zenon, BookOfInv
<1>1. CASE ApplySnapshot(event)
  <2>1. event.data \in SnapshotData
    BY Zenon, <1>1 DEF ApplySnapshot, EventIsTyped
  <2>2. /\ BookInv(AfterSnapshot(BookOf(m), event))
        /\ Numbered(BookOf(m)) /\ effective_sequence_id(event) # None =>
              Numbered(AfterSnapshot(BookOf(m), event))
    BY Zenon, <1>0, <2>1, AfterSnapshotInv
  <2>. QED
    BY Zenon, <1>0, <1>1, <2>2, PutBookInv DEF ApplySnapshot
<1>2. CASE ApplyDelta(event)
  <2>1. event.data \in DeltaData
    BY Zenon, <1>2 DEF ApplyDelta, EventIsTyped
  <2>2. /\ BookInv(AfterDelta(BookOf(m), event))
        /\ Numbered(BookOf(m)) => Numbered(AfterDelta(BookOf(m), event))
    BY Zenon, <1>0, <2>1, AfterDeltaInv
  <2>. QED
    BY Zenon, <1>0, <1>2, <2>2, PutBookInv DEF ApplyDelta
<1>3. CASE ApplyTrade(event)
  <2>1. /\ BookInv(AfterTrade(BookOf(m), event))
        /\ Numbered(BookOf(m)) => Numbered(AfterTrade(BookOf(m), event))
    BY Zenon, <1>0, AfterTradeInv
  <2>. QED
    BY Zenon, <1>0, <1>3, <2>1, PutBookInv DEF ApplyTrade
<1>4. CASE ApplyOther(event)
  BY Zenon, <1>0, <1>4, PutBookInv DEF ApplyOther
<1>. QED
  BY <1>1, <1>2, <1>3, <1>4 DEF apply

\* Every book of the store stays sound, whatever events it is given.
THEOREM StoreInvariance == StoreSpec => []StoreInv
<1>1. StoreInit => StoreInv
  BY Zenon DEF StoreInit, StoreInv
<1>2. StoreInv /\ [StoreNext]_books => StoreInv'
  <2>1. ASSUME StoreInv, StoreNext PROVE StoreInv'
    <3>1. PICK event \in Events : apply(event)
      BY Zenon, <2>1 DEF StoreNext
    <3>2. EventIsTyped(event)
      BY Zenon, BookAssumption
    <3>. QED
      BY Zenon, <2>1, <3>1, <3>2, ApplyInv
  <2>2. ASSUME StoreInv, UNCHANGED books PROVE StoreInv'
    BY Zenon, <2>2 DEF StoreInv
  <2>. QED
    BY Zenon, <2>1, <2>2
<1>. QED
  BY <1>1, <1>2, PTL DEF StoreSpec

\* Whatever events a store is given, in whatever order, its books hold only
\* levels with a non-negative price and a positive quantity, and buffer no more
\* deltas than kMaxPendingDeltas (TypeOK).
THEOREM BooksAreTyped == StoreSpec => []TypeOK
<1>1. StoreInv => TypeOK
  BY DEF StoreInv, TypeOK, BookInv, BookIsSound, IsLevels
<1>. QED
  BY <1>1, StoreInvariance, PTL

\* Whatever events a store is given, a book is buffering, in sync or desynced,
\* never two of these (OneMode).
THEOREM BooksAreInOneMode == StoreSpec => []OneMode
<1>1. StoreInv => OneMode
  BY Zenon DEF StoreInv, OneMode, BookInv, BookIsSound
<1>. QED
  BY <1>1, StoreInvariance, PTL

\* A delta changes the levels of a book in sync only when its sequence id is
\* above the book's, which it then replaces.
LEMMA AfterDeltaFollowsSequence ==
    ASSUME NEW book, BookInv(book), book.has_snapshot, book.last_seq_id # None,
           NEW event, EventIsTyped(event), effective_sequence_id(event) # None,
           \/ AfterDelta(book, event).bids # book.bids
           \/ AfterDelta(book, event).asks # book.asks
    PROVE  AfterDelta(book, event).last_seq_id > book.last_seq_id
<1> DEFINE sequence_id == effective_sequence_id(event)
           advanced == advance_sequence_if_present(book, sequence_id)
<1>1. ~book.desynced /\ book.last_seq_id \in Nat /\ DOMAIN book = DOMAIN EmptyBook
  BY Zenon DEF BookInv, BookIsSound
<1>2. AfterDelta(book, event) =
        IF ~SequenceAllows(book, sequence_id) THEN book
        ELSE IF DeltaIsValid(event.data) THEN apply_delta_data(advanced, event.data)
        ELSE advanced
  BY Zenon, <1>1 DEF AfterDelta
<1>3. SequenceAllows(book, sequence_id)
  BY Zenon, <1>2
<1>4. sequence_id > book.last_seq_id
  BY Zenon, <1>3 DEF SequenceAllows
<1>5. advanced.last_seq_id = sequence_id
  BY Zenon, <1>1, AdvanceSequence
<1> HIDE DEF advanced
<1>6. AfterDelta(book, event).last_seq_id = sequence_id
  BY <1>2, <1>3, <1>5, ApplyDeltaFields
<1>. QED
  BY Zenon, <1>4, <1>6

\* A trade never changes the levels of a book.
LEMMA AfterTradeKeepsLevels ==
    ASSUME NEW book, NEW event
    PROVE  AfterTrade(book, event).bids = book.bids /\ AfterTrade(book, event).asks = book.asks
<1> DEFINE advanced == advance_sequence_if_present(book, effective_sequence_id(event))
<1>1. advanced.bids = book.bids /\ advanced.asks = book.asks
  BY Zenon, AdvanceFields
<1> HIDE DEF advanced
<1> DEFINE traded == [advanced EXCEPT !.last_trade = event.data]
<1>2. traded.bids = advanced.bids /\ traded.asks = advanced.asks
  OBVIOUS
<1>3. AfterTrade(book, event) = book \/ AfterTrade(book, event) = traded
  BY Zenon DEF AfterTrade, advanced
<1> HIDE DEF traded
<1>. QED
  BY Zenon, <1>1, <1>2, <1>3

\* When every snapshot and delta carries a sequence id, as those of the Kalshi
\* parser do, the levels of a book in sync change between snapshots only with a
\* sequence id above every one applied before (LevelsFollowSequence).
THEOREM LevelsAlwaysFollowSequence ==
    ASSUME Sequenced
    PROVE  StoreSpec => LevelsFollowSequence
<1>1. StoreInit => StoreNumbered
  BY Zenon DEF StoreInit, StoreNumbered
<1>2. StoreInv /\ StoreNumbered /\ [StoreNext]_books => StoreNumbered'
  <2>1. ASSUME StoreInv, StoreNumbered, StoreNext PROVE StoreNumbered'
    <3>1. PICK event \in Events : apply(event)
      BY Zenon, <2>1 DEF StoreNext
    <3>2. EventIsTyped(event)
      BY Zenon, BookAssumption
    <3>. QED
      BY Zenon, <2>1, <3>1, <3>2, ApplyInv DEF Sequenced
  <2>2. ASSUME StoreNumbered, UNCHANGED books PROVE StoreNumbered'
    BY Zenon, <2>2 DEF StoreNumbered
  <2>. QED
    BY Zenon, <2>1, <2>2
<1>3. ASSUME StoreInv, StoreNumbered, StoreNext, NEW m \in DOMAIN books, books[m].has_snapshot,
             ~SnapshotStep(m), ~SameLevels(m)
      PROVE  books'[m].last_seq_id > books[m].last_seq_id
  <2>1. PICK event \in Events : apply(event)
    BY Zenon, <1>3 DEF StoreNext
  <2>2. EventIsTyped(event)
    BY Zenon, BookAssumption
  <2>3. PICK book : PutBook(event.market_ticker, book)
    BY Zenon, <2>1 DEF apply, ApplySnapshot, ApplyDelta, ApplyTrade, ApplyOther
  <2>4. event.market_ticker = m /\ BookOf(m) = books[m]
    BY Zenon, <1>3, <2>3 DEF PutBook, SameLevels, BookOf
  <2>5. CASE ApplySnapshot(event)
    BY Zenon, <1>3, <2>4, <2>5 DEF SnapshotStep
  <2>6. CASE ApplyDelta(event)
    <3>1. books'[m] = AfterDelta(books[m], event) /\ effective_sequence_id(event) # None
      BY Zenon, <2>4, <2>6 DEF ApplyDelta, PutBook, Sequenced
    <3>2. BookInv(books[m]) /\ books[m].last_seq_id # None
      BY Zenon, <1>3 DEF StoreInv, StoreNumbered, Numbered
    <3>3. \/ AfterDelta(books[m], event).bids # books[m].bids
          \/ AfterDelta(books[m], event).asks # books[m].asks
      BY Zenon, <1>3, <3>1 DEF SameLevels
    <3>. QED
      BY Zenon, <1>3, <2>2, <3>1, <3>2, <3>3, AfterDeltaFollowsSequence
  <2>7. CASE ApplyTrade(event)
    <3>1. books'[m] = AfterTrade(books[m], event)
      BY Zenon, <2>4, <2>7 DEF ApplyTrade, PutBook
    <3>. QED
      BY <1>3, <3>1, AfterTradeKeepsLevels DEF SameLevels
  <2>8. CASE ApplyOther(event)
    <3>1. books'[m] = books[m]
      BY Zenon, <2>4, <2>8 DEF ApplyOther, PutBook
    <3>. QED
      BY Zenon, <1>3, <3>1 DEF SameLevels
  <2>. QED
    BY Zenon, <2>1, <2>5, <2>6, <2>7, <2>8 DEF apply
<1> DEFINE Follows == \A m \in DOMAIN books :
              (books[m].has_snapshot /\ ~SnapshotStep(m) /\ ~SameLevels(m)) =>
                  books'[m].last_seq_id > books[m].last_seq_id
<1>4. StoreInv /\ StoreNumbered /\ [StoreNext]_books => [Follows]_books
  BY Zenon, <1>3
<1>. QED
  BY <1>1, <1>2, <1>4, StoreInvariance, PTL DEF StoreSpec, LevelsFollowSequence

-----------------------------------------------------------------------------
(* What a replay takes up                                                  *)

\* h holds the book with those of the first i deltas that are at the positions
IsTakenUp(h, book, pending, positions, n) ==
    h = [i \in 0..n |->
            IF i = 0 THEN book
            ELSE IF i \in positions THEN apply_delta_data(h[i - 1], pending[i].delta)
            ELSE h[i - 1]]

\* There is such a table.
LEMMA TakenUpExists ==
    ASSUME NEW book, NEW pending, NEW positions
    PROVE  \A n \in Nat : \E h : IsTakenUp(h, book, pending, positions, n)
<1> DEFINE Step(before, i) ==
             IF i \in positions THEN apply_delta_data(before, pending[i].delta) ELSE before
           T == {n \in Nat : \E h : IsTakenUp(h, book, pending, positions, n)}
<1>1. \A h, n : IsTakenUp(h, book, pending, positions, n) <=>
                  h = [i \in 0..n |-> IF i = 0 THEN book ELSE Step(h[i - 1], i)]
  BY Zenon DEF IsTakenUp
<1> HIDE DEF Step
<1>2. 0 \in T
  <2> DEFINE h == [i \in 0..0 |-> book]
  <2>1. h = [i \in 0..0 |-> IF i = 0 THEN book ELSE Step(h[i - 1], i)]
    OBVIOUS
  <2>. QED
    BY Zenon, <1>1, <2>1
<1>3. ASSUME NEW n \in Nat, n \in T
      PROVE  n + 1 \in T
  <2>1. PICK h : h = [i \in 0..n |-> IF i = 0 THEN book ELSE Step(h[i - 1], i)]
    BY Zenon, <1>1, <1>3
  <2> DEFINE k == [i \in 0..(n + 1) |-> IF i = n + 1 THEN Step(h[n], n + 1) ELSE h[i]]
  <2>2. \A i \in 0..n : h[i] = IF i = 0 THEN book ELSE Step(h[i - 1], i)
    BY Zenon, <2>1
  <2>3. ASSUME NEW i \in 0..(n + 1)
        PROVE  k[i] = IF i = 0 THEN book ELSE Step(k[i - 1], i)
    <3>1. CASE i \in 0..n
      <4>1. /\ i # n + 1 /\ i - 1 # n + 1
            /\ i # 0 => i - 1 \in 0..(n + 1)
        BY <3>1
      <4>2. k[i] = h[i] /\ (i # 0 => k[i - 1] = h[i - 1])
        BY Zenon, <2>3, <4>1
      <4>. QED
        BY Zenon, <2>2, <3>1, <4>2
    <3>2. CASE i = n + 1
      <4>1. n + 1 # 0 /\ n + 1 - 1 = n /\ n \in 0..(n + 1) /\ n # n + 1 /\ n + 1 \in 0..(n + 1)
        OBVIOUS
      <4>2. k[n + 1] = Step(h[n], n + 1) /\ k[n] = h[n]
        BY Zenon, <4>1
      <4> HIDE DEF k
      <4>. QED
        BY <3>2, <4>1, <4>2
    <3>. QED
      BY <2>3, <3>1, <3>2
  <2>4. k = [i \in 0..(n + 1) |-> k[i]]
    BY Zenon
  <2> HIDE DEF k
  <2>5. k = [i \in 0..(n + 1) |-> IF i = 0 THEN book ELSE Step(k[i - 1], i)]
    BY Zenon, <2>3, <2>4
  <2>6. n + 1 \in Nat
    OBVIOUS
  <2>. QED
    BY Zenon, <1>1, <2>5, <2>6
<1>4. Nat \subseteq T
  <2> HIDE DEF T
  <2>. QED
    BY Zenon, <1>2, <1>3, Sums!NatSetInduction
<1>. QED
  BY Zenon, <1>4

\* The books on the way to WithDeltas, and the one at the end.
LEMMA WithDeltasUnfolds ==
    ASSUME NEW book, NEW pending \in Seq(PendingDelta), NEW positions
    PROVE  \E h : /\ IsTakenUp(h, book, pending, positions, Len(pending))
                  /\ WithDeltas(book, pending, positions) = h[Len(pending)]
<1> DEFINE h == CHOOSE k : IsTakenUp(k, book, pending, positions, Len(pending))
<1>1. IsTakenUp(h, book, pending, positions, Len(pending))
  BY TakenUpExists
<1>2. WithDeltas(book, pending, positions) = h[Len(pending)]
  BY Zenon DEF WithDeltas, IsTakenUp
<1>. QED
  BY Zenon, <1>1, <1>2

\* the highest of the numbers in S, or None where there is none
IsLast(last, S) ==
    last \in S /\ \A e \in S : e # None => last # None /\ e <= last

\* The replay compares a delta with the last number it stored: that is to compare
\* it with all numbers so far.
LEMMA LastDecides ==
    ASSUME NEW S \in SUBSET (Nat \cup {None}), NEW last, IsLast(last, S),
           NEW p \in Nat \cup {None}
    PROVE  /\ (\A e \in S : None \in {p, e} \/ p > e) <=>
                 (p = None \/ last = None \/ p > last)
           /\ (p = None \/ last = None \/ p > last) =>
                 IsLast(IF p = None THEN last ELSE p, S \cup {p})
           /\ ~(p = None \/ last = None \/ p > last) => IsLast(last, S \cup {p})
BY BookAssumption DEF IsLast

\* replay_pending_deltas applies the pending deltas that are news to the book, and
\* no other, or loses the sync.
LEMMA ReplayTakesUpNews ==
    ASSUME NEW book, BookIsSound(book), book.has_snapshot,
           NEW pending \in Seq(PendingDelta),
           NEW base, DOMAIN base = DOMAIN EmptyBook,
           base.bids = book.bids, base.asks = book.asks
    PROVE  LET news     == NewsTo(book.last_seq_id, pending)
               after    == Replayed(book, pending)
               expected == WithDeltas(base, pending, news)
           IN  /\ DOMAIN after = DOMAIN EmptyBook
               /\ IF \A i \in news : DeltaIsValid(pending[i].delta)
                  THEN /\ after.has_snapshot
                       /\ after.bids = expected.bids /\ after.asks = expected.asks
                  ELSE after.desynced
<1> DEFINE n == Len(pending)
           first == book.last_seq_id
           news == NewsTo(first, pending)
           Valid(i) == DeltaIsValid(pending[i].delta)
           Numbers(i) == {first} \cup {pending[j].sequence_id : j \in 1..i}
<1>1. PICK g : IsReplay(g, book, pending, n) /\ Replayed(book, pending) = g[n]
  BY Zenon, ReplayUnfolds
<1>2. PICK h : IsTakenUp(h, base, pending, news, n) /\ WithDeltas(base, pending, news) = h[n]
  BY Zenon, WithDeltasUnfolds
<1>3. /\ n \in Nat /\ DOMAIN pending = 1..n
      /\ \A i \in 1..n : pending[i] \in PendingDelta
  OBVIOUS
<1>4. \A i \in 1..n : pending[i].sequence_id \in Nat \cup {None}
  BY <1>3 DEF PendingDelta
<1>5. first \in Nat \cup {None}
  BY Zenon DEF BookIsSound
<1>6. news = {i \in 1..n : \A e \in Numbers(i - 1) :
                 None \in {pending[i].sequence_id, e} \/ pending[i].sequence_id > e}
  BY Zenon, <1>3 DEF NewsTo
<1>7. /\ \A i \in 0..n : Numbers(i) \in SUBSET (Nat \cup {None})
      /\ \A i \in Nat : Numbers(i + 1) = Numbers(i) \cup {pending[i + 1].sequence_id}
  <2>1. \A i \in 0..n : \A j \in 1..i : j \in 1..n
    BY <1>3
  <2>2. \A i \in Nat : \A j : j \in 1..(i + 1) <=> j \in 1..i \/ j = i + 1
    OBVIOUS
  <2>. QED
    BY Zenon, <1>4, <1>5, <2>1, <2>2
<1> HIDE DEF n, first, news, Numbers
<1>8. /\ g[0] = book /\ h[0] = base
      /\ \A i \in 1..n : /\ g[i] = ReplayDelta(g[i - 1], pending[i])
                         /\ h[i] = IF i \in news
                                   THEN apply_delta_data(h[i - 1], pending[i].delta)
                                   ELSE h[i - 1]
  <2>1. 0 \in 0..n /\ \A i \in 1..n : i \in 0..n /\ i # 0
    BY <1>3
  <2>2. g = [i \in 0..n |-> IF i = 0 THEN book ELSE ReplayDelta(g[i - 1], pending[i])]
    BY Zenon, <1>1 DEF IsReplay
  <2>3. h = [i \in 0..n |-> IF i = 0 THEN base
                           ELSE IF i \in news
                           THEN apply_delta_data(h[i - 1], pending[i].delta)
                           ELSE h[i - 1]]
    BY Zenon, <1>2 DEF IsTakenUp
  <2>4. g[0] = book /\ \A i \in 1..n : g[i] = ReplayDelta(g[i - 1], pending[i])
    BY Zenon, <2>1, <2>2
  <2>5. h[0] = base /\ \A i \in 1..n : h[i] = IF i \in news
                                   THEN apply_delta_data(h[i - 1], pending[i].delta)
                                   ELSE h[i - 1]
    BY Zenon, <2>1, <2>3
  <2>. QED
    BY Zenon, <2>4, <2>5
<1> DEFINE AllGood(i) == \A j \in news : j <= i => Valid(j)
           InStep(i) == /\ g[i].has_snapshot /\ ~g[i].desynced
                        /\ DOMAIN g[i] = DOMAIN EmptyBook /\ DOMAIN h[i] = DOMAIN EmptyBook
                        /\ g[i].bids = h[i].bids /\ g[i].asks = h[i].asks
                        /\ IsLast(g[i].last_seq_id, Numbers(i))
           Good(i) == IF AllGood(i) THEN InStep(i)
                      ELSE g[i].desynced /\ DOMAIN g[i] = DOMAIN EmptyBook
           T == {i \in Nat : i <= n => Good(i)}
<1>9. 0 \in T
  <2>1. AllGood(0)
    BY <1>3, <1>6
  <2>2. Numbers(0) = {first}
    BY DEF Numbers
  <2>3. IsLast(first, {first})
    BY <1>5 DEF IsLast
  <2>4. InStep(0)
    BY Zenon, <1>8, <2>2, <2>3 DEF BookIsSound, first
  <2>. QED
    BY Zenon, <2>1, <2>4
<1>10. ASSUME NEW i \in Nat, i + 1 <= n, Good(i)
       PROVE  Good(i + 1)
  <2> DEFINE p == pending[i + 1].sequence_id
             delta == pending[i + 1].delta
             last == g[i].last_seq_id
             allowed == p = None \/ last = None \/ p > last
  <2>1. i + 1 \in 1..n /\ i + 1 - 1 = i /\ i \in 0..n
    BY <1>3, <1>10
  <2>2. /\ g[i + 1] = ReplayDelta(g[i], pending[i + 1])
        /\ h[i + 1] = IF i + 1 \in news THEN apply_delta_data(h[i], delta) ELSE h[i]
    BY <1>8, <2>1
  <2>3. AllGood(i + 1) <=> AllGood(i) /\ (i + 1 \in news => Valid(i + 1))
    <3>1. \A j \in news : j \in 1..n
      BY Zenon, <1>6
    <3>2. \A j \in 1..n : j <= i + 1 <=> j <= i \/ j = i + 1
      BY <1>3
    <3>3. \A j \in news : j <= i + 1 <=> j <= i \/ j = i + 1
      BY Zenon, <3>1, <3>2
    <3>4. i + 1 <= i + 1
      OBVIOUS
    <3> HIDE DEF Valid
    <3>. QED
      BY Zenon, <3>3, <3>4
  <2>4. CASE ~AllGood(i)
    <3>1. g[i].desynced /\ DOMAIN g[i] = DOMAIN EmptyBook
      BY Zenon, <1>10, <2>4
    <3>2. g[i + 1] = g[i]
      BY Zenon, <2>2, <3>1 DEF ReplayDelta
    <3>. QED
      BY Zenon, <2>3, <2>4, <3>1, <3>2
  <2>5. CASE AllGood(i)
    <3>1. InStep(i)
      BY Zenon, <1>10, <2>5
    <3>2. /\ i + 1 \in news <=> allowed
          /\ allowed => IsLast(IF p = None THEN last ELSE p, Numbers(i + 1))
          /\ ~allowed => IsLast(last, Numbers(i + 1))
      <4>1. Numbers(i) \in SUBSET (Nat \cup {None}) /\ p \in Nat \cup {None}
        BY Zenon, <1>4, <1>7, <2>1
      <4>2. i + 1 \in news <=> \A e \in Numbers(i) : None \in {p, e} \/ p > e
        <5>1. i + 1 \in news <=> \A e \in Numbers(i + 1 - 1) : None \in {p, e} \/ p > e
          <6> DEFINE IsNews(k) == \A e \in Numbers(k - 1) :
                 None \in {pending[k].sequence_id, e} \/ pending[k].sequence_id > e
          <6>1. \A k \in 1..n : k \in news <=> IsNews(k)
            BY Zenon, <1>6
          <6>2. i + 1 \in news <=> IsNews(i + 1)
            <7> HIDE DEF IsNews
            <7>. QED
              BY Zenon, <2>1, <6>1
          <6>. QED
            BY <6>2
        <5>2. Numbers(i + 1 - 1) = Numbers(i)
          BY <2>1
        <5>. QED
          BY Zenon, <5>1, <5>2
      <4>3. Numbers(i + 1) = Numbers(i) \cup {p}
        BY Zenon, <1>7
      <4>4. IsLast(last, Numbers(i))
        BY Zenon, <3>1
      <4> HIDE DEF p, last
      <4>5. /\ (\A e \in Numbers(i) : None \in {p, e} \/ p > e) <=> allowed
            /\ allowed => IsLast(IF p = None THEN last ELSE p, Numbers(i) \cup {p})
            /\ ~allowed => IsLast(last, Numbers(i) \cup {p})
        BY Zenon, <4>1, <4>4, LastDecides
      <4>. QED
        BY Zenon, <4>2, <4>3, <4>5
    <3>3. SequenceAllows(g[i], p) <=> allowed
      BY Zenon DEF SequenceAllows
    <3>4. CASE ~allowed
      <4>1. g[i + 1] = g[i] /\ h[i + 1] = h[i] /\ i + 1 \notin news
        BY Zenon, <2>2, <3>2, <3>3, <3>4 DEF ReplayDelta
      <4>. QED
        BY Zenon, <2>3, <2>5, <3>1, <3>2, <3>4, <4>1
    <3>5. CASE allowed /\ ~Valid(i + 1)
      <4>1. g[i + 1] = mark_desynced(g[i])
        BY Zenon, <2>2, <3>1, <3>3, <3>5 DEF ReplayDelta
      <4>2. g[i + 1].desynced /\ DOMAIN g[i + 1] = DOMAIN EmptyBook
        BY Zenon, <4>1, DesyncedInv DEF BookInv, BookIsSound
      <4>. QED
        BY Zenon, <2>3, <3>2, <3>5, <4>2
    <3>6. CASE allowed /\ Valid(i + 1)
      <4> DEFINE advanced == advance_sequence_if_present(g[i], p)
      <4>1. g[i + 1] = apply_delta_data(advanced, delta) /\ h[i + 1] = apply_delta_data(h[i], delta)
        BY Zenon, <2>2, <3>1, <3>2, <3>3, <3>6 DEF ReplayDelta
      <4>2. /\ advanced.has_snapshot /\ ~advanced.desynced
            /\ DOMAIN advanced = DOMAIN EmptyBook
            /\ advanced.bids = h[i].bids /\ advanced.asks = h[i].asks
        <5>1. /\ advanced.has_snapshot = g[i].has_snapshot
              /\ advanced.desynced = g[i].desynced
              /\ DOMAIN advanced = DOMAIN g[i]
              /\ advanced.bids = g[i].bids /\ advanced.asks = g[i].asks
          BY AdvanceFields
        <5> HIDE DEF advanced
        <5>. QED
          BY Zenon, <3>1, <5>1
      <4>3. advanced.last_seq_id = IF p = None THEN last ELSE p
        BY Zenon, <3>1, AdvanceSequence
      <4> HIDE DEF advanced
      <4>4. \A b \in {advanced, h[i]} :
              LET after == apply_delta_data(b, delta)
              IN  /\ after.bids = IF delta.side \in {"kBid", "kBuy"}
                                  THEN AddLots(b.bids, delta.price_ticks, delta.delta_qty_lots)
                                  ELSE b.bids
                  /\ after.asks = IF delta.side \in {"kBid", "kBuy"} THEN b.asks
                                  ELSE AddLots(b.asks, delta.price_ticks, delta.delta_qty_lots)
        BY Zenon, <3>1, <4>2 DEF apply_delta_data, EmptyBook
      <4>5. InStep(i + 1)
        <5>1. g[i + 1].bids = h[i + 1].bids /\ g[i + 1].asks = h[i + 1].asks
          BY Zenon, <4>1, <4>2, <4>4
        <5>2. /\ g[i + 1].has_snapshot /\ ~g[i + 1].desynced
              /\ DOMAIN g[i + 1] = DOMAIN EmptyBook /\ DOMAIN h[i + 1] = DOMAIN EmptyBook
          <6>1. /\ g[i + 1].has_snapshot = advanced.has_snapshot
                /\ g[i + 1].desynced = advanced.desynced
                /\ DOMAIN g[i + 1] = DOMAIN advanced /\ DOMAIN h[i + 1] = DOMAIN h[i]
            BY <4>1, ApplyDeltaFields
          <6>. QED
            BY Zenon, <3>1, <4>2, <6>1
        <5>3. g[i + 1].last_seq_id = IF p = None THEN last ELSE p
          <6>1. g[i + 1].last_seq_id = advanced.last_seq_id
            BY <4>1, ApplyDeltaFields
          <6>. QED
            BY Zenon, <4>3, <6>1
        <5>4. IsLast(g[i + 1].last_seq_id, Numbers(i + 1))
          <6> HIDE DEF p, last
          <6>. QED
            BY Zenon, <3>2, <3>6, <5>3
        <5>. QED
          BY Zenon, <5>1, <5>2, <5>4
      <4>. QED
        BY Zenon, <2>3, <2>5, <3>6, <4>5
    <3>. QED
      BY Zenon, <3>4, <3>5, <3>6
  <2>. QED
    BY Zenon, <2>4, <2>5
<1>11. Good(n)
  <2>1. ASSUME NEW i \in Nat, i \in T PROVE i + 1 \in T
    <3>1. i + 1 <= n => i <= n
      BY <1>3
    <3>2. i + 1 \in Nat
      OBVIOUS
    <3> HIDE DEF Good
    <3>. QED
      BY Zenon, <1>10, <2>1, <3>1, <3>2
  <2>2. Nat \subseteq T
    <3> HIDE DEF T
    <3>. QED
      BY Zenon, <1>9, <2>1, Sums!NatSetInduction
  <2>3. n <= n
    BY <1>3
  <2> HIDE DEF Good
  <2>. QED
    BY Zenon, <1>3, <2>2, <2>3
<1>12. AllGood(n) <=> \A i \in news : DeltaIsValid(pending[i].delta)
  <2>1. \A i \in news : i <= n
    BY <1>3, <1>6
  <2>. QED
    BY Zenon, <2>1
<1>. QED
  BY Zenon, <1>1, <1>2, <1>11, <1>12 DEF news, first

\* BookStore::apply on a snapshot whose levels are valid.
LEMMA SnapshotTakesUpNews ==
    ASSUME NEW book, BookInv(book), NEW event, EventIsTyped(event),
           event.data \in SnapshotData,
           AllValid(event.data.bids), AllValid(event.data.asks)
    PROVE  LET pending  == book.pending_deltas
               news     == NewsTo(effective_sequence_id(event), pending)
               after    == AfterSnapshot(book, event)
               expected == WithDeltas(apply_snapshot_data(EmptyBook, event.data), pending, news)
           IN  IF \A i \in news : DeltaIsValid(pending[i].delta)
               THEN /\ after.has_snapshot
                    /\ after.bids = expected.bids /\ after.asks = expected.asks
               ELSE after.desynced
<1> DEFINE pending == book.pending_deltas
           number == effective_sequence_id(event)
           copied == apply_snapshot_data(book, event.data)
           base == apply_snapshot_data(EmptyBook, event.data)
           synced == [copied EXCEPT !.has_snapshot = TRUE, !.desynced = FALSE,
                                    !.last_seq_id = number]
           replayed == Replayed(synced, pending)
<1>1. DOMAIN book = DOMAIN EmptyBook /\ pending \in Seq(PendingDelta)
  BY Zenon DEF BookInv, BookIsSound
<1>2. /\ DOMAIN copied = DOMAIN EmptyBook /\ DOMAIN base = DOMAIN EmptyBook
      /\ copied.pending_deltas = pending
  BY <1>1 DEF apply_snapshot_data
<1>3. /\ copied.bids = base.bids /\ copied.asks = base.asks
      /\ base.bids = LevelsBeforeFault(event.data.bids)
      /\ base.asks = LevelsBeforeFault(event.data.asks)
  BY Zenon, <1>1 DEF apply_snapshot_data, EmptyBook
<1>4. IsLevels(base.bids) /\ IsLevels(base.asks)
  BY Zenon, <1>3, SnapshotLevels DEF SnapshotData
<1> HIDE DEF copied, base, pending
<1>5. /\ DOMAIN synced = DOMAIN EmptyBook
      /\ synced.last_seq_id = number
      /\ synced.has_snapshot = TRUE /\ synced.desynced = FALSE
      /\ synced.bids = base.bids /\ synced.asks = base.asks
      /\ synced.pending_deltas = pending
  BY Zenon, <1>2, <1>3 DEF EmptyBook
<1>6. AfterSnapshot(book, event) = [replayed EXCEPT !.pending_deltas = <<>>]
  <2>1. AfterSnapshot(book, event) = replay_pending_deltas(synced)
    BY Zenon DEF AfterSnapshot, copied
  <2> HIDE DEF synced
  <2>. QED
    BY Zenon, <1>5, <2>1 DEF replay_pending_deltas
<1> HIDE DEF synced
<1>7. BookIsSound(synced) /\ synced.has_snapshot
  BY Zenon, <1>4, <1>5, SequenceType DEF BookIsSound
<1>8. /\ DOMAIN replayed = DOMAIN EmptyBook
      /\ IF \A i \in NewsTo(number, pending) : DeltaIsValid(pending[i].delta)
         THEN /\ replayed.has_snapshot
              /\ replayed.bids = WithDeltas(base, pending, NewsTo(number, pending)).bids
              /\ replayed.asks = WithDeltas(base, pending, NewsTo(number, pending)).asks
         ELSE replayed.desynced
  <2> HIDE DEF number
  <2> DEFINE news == NewsTo(synced.last_seq_id, pending)
  <2>1. base.bids = synced.bids /\ base.asks = synced.asks /\ DOMAIN base = DOMAIN EmptyBook
    BY Zenon, <1>2, <1>5
  <2>2. /\ DOMAIN replayed = DOMAIN EmptyBook
        /\ IF \A i \in news : DeltaIsValid(pending[i].delta)
           THEN /\ replayed.has_snapshot
                /\ replayed.bids = WithDeltas(base, pending, news).bids
                /\ replayed.asks = WithDeltas(base, pending, news).asks
           ELSE replayed.desynced
    BY Zenon, <1>1, <1>7, <2>1, ReplayTakesUpNews
  <2>3. news = NewsTo(number, pending)
    BY Zenon, <1>5
  <2> HIDE DEF news, replayed
  <2>. QED
    BY Zenon, <2>2, <2>3
<1> HIDE DEF replayed
<1>9. /\ AfterSnapshot(book, event).has_snapshot = replayed.has_snapshot
      /\ AfterSnapshot(book, event).desynced = replayed.desynced
      /\ AfterSnapshot(book, event).bids = replayed.bids
      /\ AfterSnapshot(book, event).asks = replayed.asks
  BY Zenon, <1>6, <1>8 DEF EmptyBook
<1>. QED
  BY Zenon, <1>8, <1>9 DEF pending, base

\* Whatever was buffered, and in whatever order, a snapshot takes up exactly the
\* deltas it does not contain, or the book loses its sync (ReplayIsExact).
THEOREM ReplayIsAlwaysExact == StoreSpec => ReplayIsExact
<1> DEFINE Exact(event) ==
        LET m        == event.market_ticker
            pending  == BookOf(m).pending_deltas
            news     == NewsTo(effective_sequence_id(event), pending)
            expected == WithDeltas(apply_snapshot_data(EmptyBook, event.data), pending, news)
        IN  (/\ ApplySnapshot(event)
             /\ AllValid(event.data.bids) /\ AllValid(event.data.asks)) =>
                IF \A i \in news : DeltaIsValid(pending[i].delta)
                THEN /\ books'[m].has_snapshot
                     /\ books'[m].bids = expected.bids /\ books'[m].asks = expected.asks
                ELSE books'[m].desynced
<1>1. ASSUME StoreInv, NEW event \in Events
      PROVE  Exact(event)
  <2> SUFFICES ASSUME ApplySnapshot(event),
                      AllValid(event.data.bids), AllValid(event.data.asks)
               PROVE  Exact(event)
    BY Zenon
  <2>1. EventIsTyped(event) /\ event.data \in SnapshotData
    BY Zenon, BookAssumption DEF ApplySnapshot, EventIsTyped
  <2>2. BookInv(BookOf(event.market_ticker))
    BY Zenon, <1>1, BookOfInv
  <2>3. books'[event.market_ticker] = AfterSnapshot(BookOf(event.market_ticker), event)
    BY Zenon DEF ApplySnapshot, PutBook
  <2>. QED
    BY Zenon, <2>1, <2>2, <2>3, SnapshotTakesUpNews
<1>2. StoreInv => [\A event \in Events : Exact(event)]_books
  BY Zenon, <1>1
<1>. QED
  BY <1>2, StoreInvariance, PTL DEF StoreSpec, ReplayIsExact

-----------------------------------------------------------------------------
(* The extractor and the parser                                            *)

\* FirstSequence looks at its values in order: one of the first two, if it is a
\* number, goes before whatever follows.
LEMMA FirstOfTwo ==
  ASSUME NEW a, NEW b
  PROVE  /\ IsUint64(a) => FirstSequence(<<a, b>>) = a.v
         /\ (~IsUint64(a) /\ IsUint64(b)) =>
                FirstSequence(<<a, b>>) = b.v
         /\ (~IsUint64(a) /\ ~IsUint64(b)) =>
                FirstSequence(<<a, b>>) = nullopt
<1> DEFINE I == {i \in DOMAIN <<a, b>> : IsUint64(<<a, b>>[i])}
<1>0. /\ DOMAIN <<a, b>> = 1..2 /\ <<a, b>>[1] = a /\ <<a, b>>[2] = b
      /\ 1 \in 1..2 /\ 2 \in 1..2 /\ \A i \in 1..2 : i = 1 \/ i = 2
  BY Zenon, PairElements
<1>1. I \in SUBSET 1..2 /\ (1 \in I <=> IsUint64(a)) /\ (2 \in I <=> IsUint64(b))
  BY Zenon, <1>0
<1>2. 1 \in I => Min(I) = 1
  BY Zenon, <1>1, FirstIndices, LeastOfSet DEF Min
<1>3. 1 \notin I /\ 2 \in I => Min(I) = 2
  BY Zenon, <1>1, FirstIndices, LeastOfSet DEF Min
<1>4. (1 \notin I /\ 2 \notin I) <=> I = {}
  BY Zenon, <1>0, <1>1
<1>5. FirstSequence(<<a, b>>) = IF I = {} THEN nullopt ELSE <<a, b>>[Min(I)].v
  BY Zenon DEF FirstSequence
<1>. QED
  BY Zenon, <1>0, <1>1, <1>2, <1>3, <1>4, <1>5

\* The same of four values.
LEMMA FirstOfFour ==
  ASSUME NEW a, NEW b, NEW c, NEW d
  PROVE  /\ IsUint64(a) => FirstSequence(<<a, b, c, d>>) = a.v
         /\ (~IsUint64(a) /\ IsUint64(b)) =>
                FirstSequence(<<a, b, c, d>>) = b.v
<1> DEFINE s == <<a, b, c, d>>
<1>0. DOMAIN s = 1..4 /\ s[1] = a /\ s[2] = b /\ 1 \in 1..4 /\ 2 \in 1..4
  OBVIOUS
<1> HIDE DEF s
<1> DEFINE I == {i \in DOMAIN s : IsUint64(s[i])}
<1>1. I \in SUBSET 1..4 /\ (1 \in I <=> IsUint64(a)) /\ (2 \in I <=> IsUint64(b))
  BY Zenon, <1>0
<1>2. 1 \in I => Min(I) = 1
  BY Zenon, <1>1, FirstIndices, LeastOfSet DEF Min
<1>3. 1 \notin I /\ 2 \in I => Min(I) = 2
  BY Zenon, <1>1, FirstIndices, LeastOfSet DEF Min
<1>4. FirstSequence(s) = IF I = {} THEN nullopt ELSE s[Min(I)].v
  BY Zenon DEF FirstSequence
<1>5. /\ IsUint64(a) => FirstSequence(s) = a.v
      /\ (~IsUint64(a) /\ IsUint64(b)) => FirstSequence(s) = b.v
  BY Zenon, <1>0, <1>1, <1>2, <1>3, <1>4
<1>. QED
  BY Zenon, <1>5 DEF s

\* What set_sequence_from_root finds is what extract_sequence found: the root's
\* number when the root has one, and otherwise the extractor's by the fallback.
LEMMA RootSequenceIsExtracted ==
  ASSUME NEW root, NEW msg, fields.seq_id = extract_sequence(root, msg)
  PROVE  RootSequence(root) = fields.seq_id
<1> DEFINE own == FirstSequence(<<root.seq, root.seq_id>>)
           found == FirstSequence(<<root.seq, root.seq_id, msg.seq, msg.seq_id>>)
<1>1. CASE IsUint64(root.seq)
  <2>1. own = root.seq.v
    BY Zenon, <1>1, FirstOfTwo
  <2>2. found = root.seq.v
    BY Zenon, <1>1, FirstOfFour
  <2>. QED
    BY Zenon, <2>1, <2>2 DEF RootSequence, extract_sequence
<1>2. CASE ~IsUint64(root.seq) /\ IsUint64(root.seq_id)
  <2>1. own = root.seq_id.v
    BY Zenon, <1>2, FirstOfTwo
  <2>2. found = root.seq_id.v
    BY Zenon, <1>2, FirstOfFour
  <2>. QED
    BY Zenon, <2>1, <2>2 DEF RootSequence, extract_sequence
<1>3. CASE ~IsUint64(root.seq) /\ ~IsUint64(root.seq_id)
  BY Zenon, <1>3, FirstOfTwo DEF RootSequence
<1>. QED
  BY Zenon, <1>1, <1>2, <1>3

\* A book event the parser returns carries the number parse_snapshot or
\* parse_delta was given, and that is not missing.
LEMMA BookEventsAreNumbered ==
  ASSUME NEW m,
         parse(m).error = nullopt, parse(m).type # "kTrade"
  PROVE  /\ parse(m).raw_sequence_id = RootSequence(m.root)
         /\ RootSequence(m.root) # nullopt
<1> DEFINE sequence == RootSequence(m.root)
<1>1. \A error \in {"kMissingField", "kInvalidField", "kUnsupportedMessageType"} :
          Failure(error).error # nullopt
  BY Zenon, ParserAssumption DEF Failure
<1>2. \A data, type : /\ Event(type, sequence, data).raw_sequence_id = sequence
                     /\ Event(type, sequence, data).type = type
  BY DEF Event
<1>3. parse_snapshot(m.msg, sequence).error = nullopt =>
          /\ parse_snapshot(m.msg, sequence).raw_sequence_id = sequence
          /\ sequence # nullopt
  BY Zenon, <1>1, <1>2 DEF parse_snapshot
<1>4. parse_delta(m.msg, sequence).error = nullopt =>
          /\ parse_delta(m.msg, sequence).raw_sequence_id = sequence
          /\ sequence # nullopt
  BY Zenon, <1>1, <1>2 DEF parse_delta
<1>5. ASSUME NEW own, parse_trade(m.msg, own).error = nullopt
      PROVE  parse_trade(m.msg, own).type = "kTrade"
  <2>1. \A data : Event("kTrade", own, data).type = "kTrade"
    BY DEF Event
  <2>2. Failure(IF IsString(m.msg.taker_side)
                       THEN "kInvalidField" ELSE "kMissingField").error # nullopt
    BY Zenon, <1>1
  <2> DEFINE price == IF IsInt64(m.msg.yes_price) THEN m.msg.yes_price ELSE m.msg.price
             qty == get_lot_count(m.msg)
             missing == ~IsInt64(price) \/ qty = nullopt
             negative == price.v < 0 \/ qty < 0
  <2>3. CASE missing
    BY Zenon, <1>1, <1>5, <2>3 DEF parse_trade
  <2>4. CASE ~missing /\ negative
    BY Zenon, <1>1, <1>5, <2>4 DEF parse_trade
  <2> DEFINE aggressor == IF IsString(m.msg.taker_side)
                          THEN parse_trade_side(m.msg.taker_side.s) ELSE "kUnknown"
             refused == strict_field_validation /\ aggressor = "kUnknown"
             data == [price_ticks |-> price.v, qty_lots |-> qty, aggressor |-> aggressor]
  <2>5. CASE ~missing /\ ~negative /\ refused
    BY Zenon, <1>5, <2>2, <2>5 DEF parse_trade
  <2>6. CASE ~missing /\ ~negative /\ ~refused
    <3>1. parse_trade(m.msg, own) = Event("kTrade", own, data)
      BY Zenon, <2>6 DEF parse_trade
    <3>. QED
      BY Zenon, <2>1, <3>1
  <2>. QED
    BY Zenon, <2>3, <2>4, <2>5, <2>6
<1>6. CASE m.root.type.s = "orderbook_snapshot"
  BY Zenon, <1>1, <1>3, <1>6 DEF parse
<1>7. CASE m.root.type.s = "orderbook_delta"
  BY Zenon, <1>1, <1>4, <1>7 DEF parse
<1>8. CASE m.root.type.s = "trade"
  BY Zenon, <1>1, <1>5, <1>8 DEF parse
<1>9. m.root.type.s \in MessageTypes
  BY Zenon, <1>1 DEF parse
<1>. QED
  BY Zenon, <1>6, <1>7, <1>8, <1>9 DEF MessageTypes, BookTypes

\* The extractor's result stays what it read from the message, and an event is
\* what the parser made of that message.
ParserInv ==
    /\ stage \in {"routed", "parsed"} =>
           fields.seq_id = extract_sequence(message.root, message.msg)
    /\ stage = "parsed" =>
           /\ result.error = nullopt
           /\ result.type # "kTrade" =>
                  /\ result.raw_sequence_id = RootSequence(message.root)
                  /\ RootSequence(message.root) # nullopt

\* A book message is ordered by the number it was routed with (extract_sequence
\* and set_sequence_from_root agree), and a book event always has one, for every
\* message the exchange can send and every width of the integers.
THEOREM SequencesAlwaysAgree == ParserSpec => []SequencesAgree
<1>1. ParserInit => ParserInv
  BY Zenon DEF ParserInit, ParserInv
<1>2. ParserInv /\ [ParserNext]_parserVars => ParserInv'
  <2> SUFFICES ASSUME ParserInv, [ParserNext]_parserVars
               PROVE  ParserInv'
    OBVIOUS
  <2>1. CASE Route
    <3>1. CASE stage' = "routed"
      <4>1. /\ fields'.seq_id = extract_sequence(message.root, message.msg)
            /\ message' = message
        BY Zenon, <2>1, <3>1, SequenceField DEF Route
      <4>2. fields'.seq_id = extract_sequence(message.root, message.msg)'
        BY Zenon, <4>1
      <4>. QED
        BY Zenon, <3>1, <4>2 DEF ParserInv
    <3>2. CASE stage' = "dropped"
      BY Zenon, <3>2 DEF ParserInv
    <3>. QED
      BY Zenon, <2>1, <3>1, <3>2 DEF Route
  <2>2. CASE Parse
    <3>1. parse(message).error = nullopt /\ parse(message).type # "kTrade" =>
              /\ parse(message).raw_sequence_id = RootSequence(message.root)
              /\ RootSequence(message.root) # nullopt
      BY Zenon, BookEventsAreNumbered
    <3>2. /\ result' = parse(message) /\ message' = message /\ fields' = fields
          /\ stage = "routed" /\ (stage' = "parsed" => result'.error = nullopt)
      BY Zenon, <2>2 DEF Parse
    <3>. QED
      BY Zenon, <3>1, <3>2 DEF ParserInv, RootSequence
  <2>3. CASE UNCHANGED parserVars
    BY Zenon, <2>3 DEF parserVars, ParserInv, RootSequence
  <2>. QED
    BY Zenon, <2>1, <2>2, <2>3 DEF ParserNext
<1>3. ParserInv => SequencesAgree
  BY Zenon, RootSequenceIsExtracted DEF ParserInv, SequencesAgree
<1>. QED
  BY <1>1, <1>2, <1>3, PTL DEF ParserSpec
=============================================================================
