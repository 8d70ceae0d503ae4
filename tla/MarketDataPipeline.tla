------------------------ MODULE MarketDataPipeline --------------------------
(***************************************************************************)
(* The market-data path: the exchange's feed, FramePoolMessageSink, the    *)
(* frame pool and queue, LivePipeline::pump_ingest with the router, the    *)
(* sharded dispatch, the shards and their books.                           *)
(*                                                                         *)
(* Threads: the feed thread calls push_message, the main thread pumps and  *)
(* starts and stops the pipeline, each shard consumes its own queue.  The  *)
(* queues are the FIFOs that SpscQueue implements.  The exchange is        *)
(* external: it numbers the messages of a connection from 1, and sends a   *)
(* snapshot of a market before that market's deltas.                       *)
(***************************************************************************)
EXTENDS FramePool, Integers, FiniteSets

CONSTANTS
    Markets, Shards,
    ShardOf,                 \* compute_shard_id
    frame_queue_capacity, per_shard_queue_capacity,
    kMaxPendingDeltas, None,
    MaxMessages,             \* bound on the messages of the exchange
    MaxConnections,          \* bound on the connections
    MaxLots,                 \* bound on the quantity at the exchange
    MaxStarts                \* bound on the calls of start()

\* pump_ingest between its steps: the frame it holds is routed, then released
PumpState == [ref : FrameRef, stage : {"route", "release"}]

ASSUME PipelineAssumption ==
    /\ ShardOf \in [Markets -> Shards]
    /\ frame_queue_capacity >= 2 /\ per_shard_queue_capacity >= 2
    /\ kMaxPendingDeltas \in Nat /\ MaxLots \in Nat
    /\ None \notin Int /\ None \notin FrameRef /\ None \notin PumpState

VARIABLES
    exchange,          \* market -> quantity of its one level at the exchange
    connection, seq,   \* current connection, and its last sequence number
    snapshotted,       \* markets whose snapshot this connection has sent
    sink,              \* push_message: None, or the handle it holds
    frame_queue,
    pump,              \* pump_ingest: None, or the handle and where it is
    shard_queue,       \* shard -> its routed events
    books,
    running, starts,   \* the pipeline's running_, and the calls of start()
    active,            \* shards whose worker is running
    truth,             \* history: exchange after each message
    dropped,           \* history: snapshots and deltas that reached no book
    applied            \* history: market -> number of the last snapshot or delta its
                       \*          book was given, and of the last snapshot

feedVars == <<exchange, connection, seq, snapshotted, truth>>
threadVars == <<running, starts, active>>
vars == <<poolVars, feedVars, threadVars, sink, frame_queue, pump, shard_queue, books,
          dropped, applied>>

\* The store has no events of its own: Consume alone drives it.
Events == {}

Store == INSTANCE BookStore

-----------------------------------------------------------------------------
(* The exchange, and messages as the parser reads them                     *)

\* A message is a "kSnapshot", a "kDelta" or a "kTrade"; a "malformed" one, which
\* has a ticker but not the fields of its type; or a "control" message, which
\* has no ticker.  Every book has levels at one price only.  KalshiParser has the
\* fields and where they are looked for.
kPrice == 1

SnapshotData(qty) ==
    [bids |-> IF qty = 0 THEN <<>> ELSE <<[price_ticks |-> kPrice, qty_lots |-> qty]>>,
     asks |-> <<>>]

DeltaData(lots) == [side |-> "kBid", price_ticks |-> kPrice, delta_qty_lots |-> lots]

\* extract(): a message is routed by its ticker
DecodeOk(message) == message.kind # "control"

\* RoutedEventParser::parse and Parser::parse
ParseOk(message) == message.kind \in {"kSnapshot", "kDelta", "kTrade"}

parse(message) ==
    [type             |-> message.kind,
     market_ticker    |-> message.market,
     raw_sequence_id  |-> message.seq,
     meta_sequence_id |-> message.seq,
     data             |-> CASE message.kind = "kSnapshot" -> SnapshotData(message.lots)
                            [] message.kind = "kDelta"    -> DeltaData(message.lots)
                            [] OTHER                      -> "trade"]

Emitted == Len(truth)

\* the message is counted as dropped
Drop(message) ==
    dropped' = dropped \cup {d \in {message} : d.kind \in {"kSnapshot", "kDelta"}}

\* The exchange sends a message and the feed thread takes it to push_message,
\* which acquires a frame for it or drops it.  The messages of a connection share
\* one numbering, trades included (the parser would also take a trade without a
\* number, or with one of its own in msg).
push_message(kind, m, lots) ==
    LET message == [kind |-> kind, market |-> m, seq |-> seq + 1, lots |-> lots,
                    n |-> Emitted + 1]
    IN  /\ sink = None
        /\ Emitted < MaxMessages
        /\ seq' = seq + 1
        /\ exchange' = IF kind = "kDelta" THEN [exchange EXCEPT ![m] = @ + lots]
                       ELSE exchange
        /\ snapshotted' = IF kind = "kSnapshot" THEN snapshotted \cup {m} ELSE snapshotted
        /\ truth' = Append(truth, exchange')
        /\ IF CanAcquire
           THEN /\ acquire(message)
                /\ sink' = AcquiredRef
                /\ UNCHANGED dropped
           ELSE /\ Drop(message)
                /\ UNCHANGED <<poolVars, sink>>
        /\ UNCHANGED <<connection, threadVars, frame_queue, pump, shard_queue, books, applied>>

ReceiveSnapshot(m) == push_message("kSnapshot", m, exchange[m])

ReceiveDelta(m) ==
    /\ m \in snapshotted
    /\ \E lots \in {-1, 1} :
        exchange[m] + lots \in 0..MaxLots /\ push_message("kDelta", m, lots)

ReceiveOther(m) ==
    \E kind \in {"kTrade", "malformed", "control"} : push_message(kind, m, 0)

\* The connection breaks; while there is none, the exchange moves on.
Reconnect ==
    /\ sink = None
    /\ connection < MaxConnections
    /\ connection' = connection + 1
    /\ seq' = 0
    /\ snapshotted' = {}
    /\ exchange' \in [Markets -> 0..MaxLots]
    /\ UNCHANGED <<poolVars, threadVars, sink, frame_queue, pump, shard_queue, books,
                   truth, dropped, applied>>

\* Faulty variant: a frame that does not fit into the queue is not released.
PushFrame_Leaks ==
    /\ sink # None
    /\ IF Len(frame_queue) < frame_queue_capacity - 1
       THEN /\ frame_queue' = Append(frame_queue, sink)
            /\ UNCHANGED dropped
       ELSE /\ Drop(slots[sink.slot])
            /\ UNCHANGED frame_queue
    /\ sink' = None
    /\ UNCHANGED <<poolVars, feedVars, threadVars, pump, shard_queue, books, applied>>

PushFrame ==
    /\ sink # None
    /\ IF Len(frame_queue) < frame_queue_capacity - 1
       THEN /\ frame_queue' = Append(frame_queue, sink)
            /\ UNCHANGED <<poolVars, dropped>>
       ELSE /\ release(sink)
            /\ Drop(slots[sink.slot])
            /\ UNCHANGED frame_queue
    /\ sink' = None
    /\ UNCHANGED <<feedVars, threadVars, pump, shard_queue, books, applied>>

-----------------------------------------------------------------------------
(* pump_ingest, on the main thread: it is not inside stop()                *)

Stopping == active \notin {{}, Shards}

\* Faulty variant: the pump waits until a full queue can be handled in one go.
PumpPop_Batches ==
    /\ pump = None /\ ~Stopping
    /\ Len(frame_queue) = frame_queue_capacity - 1
    /\ pump' = [ref |-> Head(frame_queue), stage |-> "route"]
    /\ frame_queue' = Tail(frame_queue)
    /\ UNCHANGED <<poolVars, feedVars, threadVars, sink, shard_queue, books, dropped, applied>>

PumpPop ==
    /\ pump = None /\ ~Stopping
    /\ frame_queue # <<>>
    /\ pump' = [ref |-> Head(frame_queue), stage |-> "route"]
    /\ frame_queue' = Tail(frame_queue)
    /\ UNCHANGED <<poolVars, feedVars, threadVars, sink, shard_queue, books, dropped, applied>>

\* ShardedEventDispatch::dispatch succeeds
CanDispatch(shard) == Len(shard_queue[shard]) < per_shard_queue_capacity - 1

\* Faulty variant: a frame that is not routed is not released either.
PumpRoute_SkipsRelease ==
    LET message == slots[pump.ref.slot]
        shard   == ShardOf[message.market]
        routed  == /\ RefIsValid(pump.ref)
                   /\ DecodeOk(message)
                   /\ CanDispatch(shard)
    IN  /\ pump # None /\ pump.stage = "route"
        /\ IF routed
           THEN /\ shard_queue' = [shard_queue EXCEPT ![shard] = Append(@, message)]
                /\ pump' = [pump EXCEPT !.stage = "release"]
                /\ UNCHANGED dropped
           ELSE /\ Drop(message)
                /\ pump' = None
                /\ UNCHANGED shard_queue
        /\ UNCHANGED <<poolVars, feedVars, threadVars, sink, frame_queue, books, applied>>

\* frame() and Router::route
PumpRoute ==
    LET message == slots[pump.ref.slot]
        shard   == ShardOf[message.market]
    IN  /\ pump # None /\ pump.stage = "route"
        /\ IF /\ RefIsValid(pump.ref)
              /\ DecodeOk(message)
              /\ CanDispatch(shard)
           THEN /\ shard_queue' = [shard_queue EXCEPT ![shard] = Append(@, message)]
                /\ UNCHANGED dropped
           ELSE /\ Drop(message)
                /\ UNCHANGED shard_queue
        /\ pump' = [pump EXCEPT !.stage = "release"]
        /\ UNCHANGED <<poolVars, feedVars, threadVars, sink, frame_queue, books, applied>>

PumpRelease ==
    /\ pump # None /\ pump.stage = "release"
    /\ release(pump.ref)
    /\ pump' = None
    /\ UNCHANGED <<feedVars, threadVars, sink, frame_queue, shard_queue, books, dropped, applied>>

-----------------------------------------------------------------------------
(* The shards                                                              *)

\* One turn of Shard::run.  The handler is told of an event that was applied.
Consume(shard) ==
    LET message == Head(shard_queue[shard])
        m       == message.market
    IN  /\ shard \in active
        /\ shard_queue[shard] # <<>>
        /\ shard_queue' = [shard_queue EXCEPT ![shard] = Tail(@)]
        /\ IF ParseOk(message)
           THEN /\ Store!apply(parse(message))
                /\ applied' =
                       [applied EXCEPT ![m] =
                           [last     |-> IF message.kind = "kTrade" THEN @.last ELSE message.n,
                            snapshot |-> IF message.kind = "kSnapshot" THEN message.n
                                         ELSE @.snapshot]]
                /\ UNCHANGED dropped
           ELSE /\ Drop(message)
                /\ UNCHANGED <<books, applied>>
        /\ UNCHANGED <<poolVars, feedVars, threadVars, sink, frame_queue, pump>>

\* The shards are started one after the other.  One step stands for that: a
\* shard that is not started yet is one that has not taken its first turn, and
\* only the main thread, which is in start(), looks at running_.
Start ==
    /\ ~running /\ active = {}
    /\ starts < MaxStarts
    /\ starts' = starts + 1
    /\ active' = Shards
    /\ running' = TRUE
    /\ UNCHANGED <<poolVars, feedVars, sink, frame_queue, pump, shard_queue, books, dropped,
                   applied>>

\* stop() joins the shards one after the other, as the vector holds them.
StopShard(shard) ==
    /\ running /\ pump = None
    /\ shard \in active /\ \A other \in active : shard <= other
    /\ active' = active \ {shard}
    /\ running' = (active' # {})
    /\ UNCHANGED <<poolVars, feedVars, starts, sink, frame_queue, pump, shard_queue, books,
                   dropped, applied>>

-----------------------------------------------------------------------------
Init ==
    /\ PoolInit
    /\ exchange = [m \in Markets |-> 0]
    /\ connection = 1 /\ seq = 0 /\ snapshotted = {}
    /\ sink = None
    /\ frame_queue = <<>>
    /\ pump = None
    /\ shard_queue = [shard \in Shards |-> <<>>]
    /\ Store!StoreInit
    /\ running = FALSE /\ starts = 0 /\ active = {}
    /\ truth = <<>>
    /\ dropped = {}
    /\ applied = [m \in Markets |-> [last |-> 0, snapshot |-> 0]]

Pump == PumpPop \/ PumpRoute \/ PumpRelease

Next ==
    \/ \E m \in Markets : ReceiveSnapshot(m) \/ ReceiveDelta(m) \/ ReceiveOther(m)
    \/ Reconnect \/ PushFrame
    \/ Pump
    \/ \E shard \in Shards : Consume(shard) \/ StopShard(shard)
    \/ Start

Spec == Init /\ [][Next]_vars

\* The feed thread finishes push_message; the main thread keeps pumping between
\* start() and stop(), as the loop of the trader does, and finishes a turn of
\* pump_ingest and a stop() it is in; a started shard keeps consuming.
FairSpec ==
    /\ Spec
    /\ WF_vars(PushFrame)
    /\ WF_vars((running \/ pump # None) /\ Pump)
    /\ \A shard \in Shards : WF_vars(Consume(shard)) /\ WF_vars(Stopping /\ StopShard(shard))

-----------------------------------------------------------------------------
(* Properties                                                              *)

\* the handles that the threads and the queue hold
HeldRefs ==
    frame_queue \o (IF sink = None THEN <<>> ELSE <<sink>>)
                \o (IF pump = None THEN <<>> ELSE <<pump.ref>>)

\* No frame is leaked and none is shared: every slot is either free, once, or
\* held, once, under a handle that is still valid.  So frame() and release()
\* never fail in push_message and pump_ingest.
FrameOwnership ==
    /\ \A i \in DOMAIN HeldRefs : RefIsValid(HeldRefs[i])
    /\ \A slot \in Slots :
          Cardinality({i \in DOMAIN HeldRefs : HeldRefs[i].slot = slot})
            + Cardinality({i \in DOMAIN free_slots : free_slots[i] = slot}) = 1

\* No message that matters to the book of m was lost before the last one it was
\* given: a delta may be lost before the last snapshot, nothing after it.
Undamaged(m) ==
    \A message \in dropped :
        message.market = m =>
            \/ message.n > applied[m].last
            \/ message.kind = "kDelta" /\ message.n < applied[m].snapshot

\* Frames, queues and threads deliver the messages of a market in order, once
\* and intact: a book in sync shows what the exchange had when it sent the last
\* message the book was given, also after reconnections and restarts, as long
\* as no queue or pool on the way overflowed.
BookMatchesExchange ==
    \A m \in DOMAIN books :
        books[m].has_snapshot /\ Undamaged(m) =>
            books[m].bids = IF truth[applied[m].last][m] = 0 THEN Store!NoLevels
                            ELSE [price \in {kPrice} |-> truth[applied[m].last][m]]

\* While the pipeline runs, every frame goes back to the pool, whether its
\* message is routed, refused by the decoder or dropped by a full queue.
FramesReturn == \A slot \in Slots : in_use[slot] ~> (~in_use[slot] \/ ~running)

\* A snapshot that has a frame reaches its book, unless it is dropped on the way
\* or the pipeline is stopped.
SnapshotsArrive ==
    \A m \in Markets, n \in 1..MaxMessages :
        (/\ sink # None
         /\ slots[sink.slot].n = n
         /\ slots[sink.slot].market = m /\ slots[sink.slot].kind = "kSnapshot")
          ~> (\/ applied[m].snapshot >= n
              \/ \E message \in dropped : message.n = n
              \/ active # Shards)
=============================================================================
