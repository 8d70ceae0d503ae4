# Verification of the trader

TLA+ specifications of the trader in `src/cpp`: the order side (strategies,
risk gates, order manager, core, Kalshi adapter, paper and live transport,
position ledger), the market-data side (feed, frame pool, lock-free rings,
extractor, router, shards, parser, order books) and the application around
them (configuration, start-up, shutdown).
TLC checks small instances; TLAPS proves the central properties of both sides
for every value of the constants. `PROJECT.json` holds
the map from definitions to source lines, the runs, the mutants, the findings
and the hazards.

    tlc -workers 2 -config MCOrderManager.cfg MCOrderManager    # a run
    tlapm OrderManagerCoreProofs.tla                            # the proofs

## 1. The system

Market data flows from left to right, orders from right to left.

    exchange -> WsFeedRunner -> FramePoolMessageSink -> [frame ring] -> pump_ingest
             -> Decoder/Router -> [ring per shard] -> Shard -> BookStore -> strategy
    strategy -> ShardRiskGate -> OrderManager.submit -> [outbound queue] -> worker
             -> global gate -> portfolio gate -> adapter -> transport -> exchange
    exchange -> transport -> adapter -> OrderManagerCore -> PositionLedger

| part | state | operations | what is hard about it |
|---|---|---|---|
| OrderManagerCore | orders by client id, index by exchange id | validate and track, apply update, evaluate risk, reset | updates in any order; references between orders; limits counted over live orders |
| risk gates | none | evaluate | decide on snapshots |
| PositionLedger | positions, totals | on_order_update, snapshots | truncating averages, flips |
| OrderManager | flags, outbound queue, worker | start, stop, submit, run | threads between two locks, restart |
| Kalshi OMS adapter | none | supports, build_request, parse_update | fields that are optional |
| PaperOrderTransport | connection, answers | connect, close, send_text, recv_text | answers outlive a session |
| WsOrderTransport | socket | as above | blocking receive; fills in parts; the connection breaks |
| SPSC rings | two indices, slots | try_push, try_pop | no lock, stale loads |
| FramePool | slots, free stack, generations | acquire, release, frame | handles must be released once |
| FramePoolMessageSink | none | push_message | gives a frame back when the ring is full |
| Decoder, Router, dispatch | rings per shard | route, dispatch | drops when a ring is full |
| Kalshi extractor and parser | none | extract, parse | optional and repeated fields, read twice; conversions at the limits of the types |
| BookStore | books | apply | deltas before snapshots, sequence numbers |
| Shard, LivePipeline | threads | start, stop, run, pump_ingest | stop with work in the queues |
| WsFeedRunner, WsSession, websocket client | connection, stream | start, stop, run | closed by one thread while another uses it; failures of every step; reconnection renumbers messages |
| strategy side | per shard | on_event, submit | shards share the order manager; intents leave fields open |
| trader application | everything | start-up, pump loop, shutdown | order of the stops; a feed that is never silent |
| configuration | a record | the walk over a JSON document | conversions, defaults |
| signer, logging | - | input and output | - |

Correctness, in one sentence each: limits hold at the exchange and not only in
the core; no order is placed twice; the ledger and the exchange agree; settled
orders stay settled; money is conserved; a ring is a queue; a frame has one
owner; a book that lost nothing shows the exchange's book; the feed comes back
with all its channels; numbers survive their conversions; no thread outlives
what it calls; nothing waits for ever.

## 2. Modules

| module | models | state and actions |
|---|---|---|
| `OmsTypes` | `oms_types.hpp` | intents, updates, statuses; `None` is an empty string or optional |
| `RiskGates` | global, portfolio and shard gate | predicates over configuration, intent and snapshot |
| `OrderManagerCore` | the class of that name | `in_flight_orders`, `exchange_to_client`; one action per public call. `queued`, `checked` and `admitted` are history: the intents on their way and the lots the global gate was told of |
| `PositionLedger` | ledger and its core | `positions`, totals; `history` holds the exact cash flow, the rounding allowance and the range of prices |
| `KalshiOmsAdapter` | the class of that name | requests and messages as records of the fields that are read |
| `PaperOrderTransport` | the class of that name | `inbound_updates`; `executed` and `placements` record what the exchange did |
| `WsOrderTransport` | the class of that name, with a live exchange | `link`; `open_orders` are the orders at the exchange, which is external |
| `OrderTransport` | `IOrderTransport` | the one of the two that `run_live_oms` selects |
| `OrderManager` | the class, composed with all of the above | a step is what a thread does up to its next lock, atomic access or blocking call |
| `BoundedFifo` | - | what a single-producer single-consumer queue promises |
| `SpscQueue` | both rings | one memory access per step; stores of an index reach the other side late and in order |
| `FramePool` | the class | every call is one step under its mutex |
| `BookStore` | the class | `books`; one action per type of event |
| `MarketDataPipeline` | sink, pool, rings, router, shards, books, composed | feed, main and shard threads interleave. The exchange is external: `truth` records its book after each message |
| `KalshiParser` | extractor and parser | one message: `Route`, then `Parse`; both read the message for themselves. Integers have `IntBits`, doubles `MantissaBits`, rounding included |
| `WsTransport` | the websocket client | `connected`, `stream`; the network (`link`, `reachable`) is external |
| `WsFeedRunner` | runner and session over the client | worker and controller; a step ends at the next look at the stop token or the flag, or at a blocking call |
| `StrategyRunner` | market filter, runner, shard gate and sink in front of `OrderManager` | `handling`: the intents of the event a shard thread is busy with |
| `TraderApp` | `apps/trader/main.cpp` over `WsFeedRunner` | `main`; the pipeline is the number of frames in its queues and the order manager whether it runs |
| `TraderConfig` | `load_trader_config_from_file` | a table of the fields in the order of the walk; `ReadField` reads the next |
| `FiniteSums` | - | lemmas: induction over finite sets and numbers, sums over finite sets |
| `OrderManagerCoreProofs`, `PositionLedgerProofs` | - | theorems about the core and the ledger |
| `OrderManagerProofs` | - | theorems about the order manager's threads and the strategies |
| `OrderManagerDataProofs`, `OrderManagerRefinement` | - | what the order manager hands to core and ledger; both keep their promises inside it |
| `ComponentProofs` | - | theorems about feed and application, rings, books, parser |
| `MarketDataPipelineProofs` | - | theorems about the pipeline |
| `MC...` | - | instances for TLC |

`_Suffix` operators beside a definition are faulty variants of it. No action
uses them. They are the mutants of `PROJECT.json`: with one in the place of the
definition, the property it belongs to must fail.

Composition. `OrderManager` instantiates the core and the ledger over its own
variables and shows (`CoreSpec`) that its threads use the core only in ways the
core's specification allows; so what is proved of the core holds of the order
manager. `MarketDataPipeline` uses plain
bounded sequences for the rings; `SpscQueue` shows that the rings implement
these. `StrategyRunner` extends `OrderManager` and puts the shard threads in the
place of arbitrary submitters. `TraderApp` extends `WsFeedRunner` and adds main,
one shard and the signal. `BookStore` and `MarketDataPipeline` take normalized
events as given; `KalshiParser` is where they come from.

## 3. Runs

| run | shows | distinct states |
|---|---|---|
| `order_manager_core` | `ReferencesResolve`, `AdmittedWithinLimit`, `AdmittedQtyWithinLimit`, `OrdersOnlyAdvance` under arbitrary updates | 222,643 |
| `position_ledger` | `LotsBalance`, `AverageWithinFills`, `PnlConserved`, `TotalsAgree` | 39,004 |
| `order_manager` | `CoreSpec`, `LedgerMatchesExchange`, `OrdersSettle`, `LedgerCatchesUp`, `IntentsWaitForExchangeOnly`, `StopReturns`, both transports | 46,954 |
| `strategy_runner` | `PlacedAtMostOnce`, `PositionWithinLimit`, `MarketLimitHolds`, `CancelFollowsPlace`, strategies in front of the order manager, paper transport | 448,981 |
| `spsc_queue` | `NoSlotRace`, `FifoSpec`, `OldestIsRead` | 27,251 |
| `kalshi_parser` | `SequencesAgree`, `QtyIsWrittenCount` | 5,923 |
| `book_store` | `OneMode`, `LevelsFollowSequence`, `ReplayIsExact` | 11,351 |
| `market_data_pipeline` | `FrameOwnership`, `BookMatchesExchange` | 2,547,776 |
| `market_data_liveness` | `FramesReturn`, `SnapshotsArrive` | 99,300 |
| `trader_app` | `ReceivesAllChannels`, `StreamOutlivesClose`, `FeedRecovers` of the feed; `CalleesOutliveCallers`, `ExitIsClean`, `ShutdownCompletes` | 193,865 |
| `trader_config` | `NumbersAreAsWritten` | 121,270 |
| `book_snapshot` | violated: `SnapshotReplacesLevels` | - |

The runs of the core, the ledger and the books also check a type invariant.

Conditions that the statements carry because the code needs them:

- `PlacedAtMostOnce`, `LedgerMatchesExchange`, `PositionWithinLimit`,
  `LedgerCatchesUp` and `CancelFollowsPlace` speak of the first session, the only
  one that `main` starts.
  `start()` resets the core but keeps `outbound_queue_` and the paper exchange's
  answers. An intent left over is then sent for an order nobody tracks, and a
  fill left over matches no order and does not reach the ledger.
- `PositionWithinLimit` assumes one live order per market. The portfolio gate
  projects the ledger and does not count what is in flight.
- Live, `PositionWithinLimit` also assumes that orders are filled whole. The
  adapter reports each part of a fill as `kFilled`; the ledger gets every part,
  but after the first one the core takes the order for settled, and what is
  left of it counts for no limit.
- Live, `LedgerMatchesExchange` and `LedgerCatchesUp` hold while the connection
  lasts. The order manager does not connect again, and fills that were under
  way are not asked for. `IntentsWaitForExchangeOnly` is as strong as a blocking
  read allows: a silent exchange holds the queue up.
- `MarketLimitHolds` depends on the runner filling in the event's market: the
  core counts a replacement by the market it names, and it may name none. The
  shard gate does not help: its snapshot reports no open orders. It speaks of the
  first session too: an intent left over may be evaluated for an order of another
  market that has taken its client id.
- `CancelFollowsPlace` depends on one strategy knowing an order. `submit` makes
  an order known before it is queued, so another thread's cancel could overtake
  it.
- `SequencesAgree` is about book messages. For trades the parser prefers the
  number in `msg` and the extractor the one in the root.
- `QtyIsWrittenCount` allows for the rounding of `double`. 2^63 passes
  `get_lot_count`; it is refused because the cast, undefined in C++, gives a
  negative number on x86-64 (`CastOutOfRange`).
- `NumbersAreAsWritten` leaves out a floor for the realized profit of 2^63 or
  more, which wraps.
- `FeedRecovers` assumes that the read of a broken connection fails. The client
  sets no timeout, so a peer that vanishes without a reset is not noticed.
- `OrdersSettle` leaves out orders whose request could not be built or sent:
  the worker counts the failure and leaves the order `kPending`.
- `BookMatchesExchange` speaks of books that lost nothing. A full pool or ring
  drops messages and the book accepts gaps in the sequence. A later snapshot makes
  good for lost deltas, but not for a lost snapshot: the deltas that waited for it
  stay buffered, over a reconnection too, and are replayed over the next one.
- The pipeline takes one numbering per connection, trades included. The parser
  also takes a trade without a number, which moves no sequence, and one with a
  number of its own in `msg`, which would make later deltas look old.
- `ReplayIsExact` compares sequence numbers as they are; which connection a
  buffered delta came from is not known to the book.

### Finding

`docs/data_contract.md` says "Snapshot replaces book levels." A snapshot with a
level of quantity zero, which the parser passes, is rejected after the old levels
have been cleared and a part of the new ones copied (`book_store.cpp:41-46`). The
book stays in sync with these levels.

Two more differences were met and have no run:

- "Sequence policy: strictly increasing per book when sequence exists." (same
  document) A snapshot's sequence number is stored without a comparison
  (`book_store.cpp:140`), so an older snapshot moves the sequence back. After a
  reconnection, where the numbering starts again, this is what is wanted.
- "mode (`paper`, `dev`, etc.)" is the first of the key knobs in `README.md`, and
  the example configuration has `"mode": "paper"`. The mode is only logged:
  `main.cpp:92` goes by `runtime.execution_mode`, whose default is `kLive` and
  which the example does not set.

### Bounds

- Core: three client ids, two exchange ids (one claimed by two orders), seven
  intents of every kind, every status by either id, at most two intents waiting
  (`MCQueueBound`). Two live orders reach the limit and a third is refused.
- Ledger: four fills (`MaxFills`) of one to three lots at prices -2, 1 and 5.
  They open, add, reduce, close and flip in both directions, with averages that
  do not divide. The proofs remove the bound.
- Order manager: two arbitrary submitters and two submissions; two sessions on
  paper and one live (`MaxStarts`), where an order of two lots is filled whole or
  in parts, before or after its acknowledgement, and the connection may break at
  any moment. Longer histories are left to the run of the strategies.
- Ring: four slots, two values; the indices wrap and the loads lag as far as
  they can.
- Books: one market, sequence numbers 1 to 3, any order and any repetition;
  books share no state, so one market is enough. `kMaxPendingDeltas` is 3.
- Pipeline: two slots, rings of one entry, generations that wrap after two, one
  pending delta, four messages over two connections and two starts. Each of
  pool, frame ring and shard ring fills up in some behaviour. Four messages are
  needed: with three, no delta follows the snapshot that rebuilds a book whose
  sequence had moved on before the reconnection.
  With one entry there is no order inside a ring to get wrong here: that is
  shown by `spsc_queue`, and for rings of any capacity inside the pipeline by
  `BooksMatchExchange`.
  The liveness run has two markets on two shards, three messages and a frame
  ring of two entries, so that frames wait behind one another.
- Strategies: two shards, three events and so up to six submissions, one session,
  a limit of one order and two lots per market; decisions of one or two intents,
  with and without a market. The limits admit either of two orders in one market
  and not both, cancels and replacements race with fills, one intent cannot be
  built, one is refused by the shard gate only, and one market by the filter only.
  The limits and the order of requests are checked here, with the submitters that
  the program has; `LedgerMatchesExchange` is left to the run of the order manager,
  whose submitters are arbitrary.
- Trader and feed: two channels, so that a subscription can fail half-way; two
  failures of the network (`MaxFaults`); two frames in the frame ring, one in the
  shard's, batches of two. The feed is started once, as in `main`.
- Parser: integers of six bits and a mantissa of three, so that rounding, the
  largest integer and its neighbours all occur; floats by halves over the whole
  range; every place of a sequence number in every combination.
- Configuration: integers of four bits; every field with every value, and every
  pair of fields with good, bad and limit values. Fields are read one by one,
  and no field is looked at twice.

Runs with `CHECK_DEADLOCK FALSE` end where their bounds are used up, or where
nobody calls the system any more; a message ends parsed, failed or dropped, a
configuration read or refused, the trader exited. The runs of the core, the
ring and the books check deadlock.

### Fairness

- Order manager: a thread that is inside `submit`, `stop` or the worker's loop
  is scheduled again. Nobody is obliged to call anything. The locks are held
  for a bounded time; the only one taken under another is `error_mutex_`, under
  `core_mutex_`, and nothing is taken under it.
- Ring: the consumer polls, a store becomes visible in finite time, and a push
  that has begun is finished.
- Pipeline: a push that has begun is finished, the main thread pumps between
  `start()` and `stop()` as the loop of `apps/trader/main.cpp` does, and a
  started shard keeps polling. The feed and the controller owe nothing.
- Live: the same threads; the exchange owes nothing, not even an
  acknowledgement, so a worker may wait in `recv_text` for ever.
- Trader: main, feed worker and shard are scheduled, and Beast's calls return,
  except for the read of an open connection. Nothing is assumed of outages:
  `FeedRecovers` says what holds while the exchange stays reachable. Signals and
  messages are not owed; messages may also arrive without end.

All fairness is weak.

## 4. Proofs

Every theorem holds for all values of the constants that satisfy the assumptions
named in the modules (`CoreAssumption`, `PoolAssumption`, `OwnTargets`, ...). TLC
evaluates these assumptions in every run. Nothing else is taken for granted.

### The order core: `OrderManagerCoreProofs`

`TypeCorrect`, `ReferencesAlwaysResolve`, `AdmissionBound`, `AdmittedQtyBound`: each
`[]` of the property the run checks; `OrdersAdvance`: the action property.

The bounds are not inductive by themselves. `Custody` adds that the orders are
finitely many, so that cardinalities and sums compare; that admitted orders are
tracked, so that a new submission cannot revive one; and that queued intents
create orders, so that the gate does not wave one through. A step that admits an
order is allowed only if the snapshot, which counts all live orders but this one,
has room; every other step can only shrink the set and its lots.

### The ledger: `PositionLedgerProofs`

`TypeCorrect`, `LotsAlwaysBalance`, `AverageAlwaysWithinFills`,
`PnlAlwaysConserved`, `TotalsAlwaysAgree`, for any number of fills. The lots are
needed for the average (a position without lots has no range of prices) and both
for the money. The argument rests on `TruncatedQuotient`: the quotient lies within
one unit of the exact one and within any integer bounds of it. A fill that adds to
a position moves the average by truncation, which the history's allowance covers;
one that reduces it does not touch the average; a flip starts a new one at the
fill's price.

### Sums and inductions: `FiniteSums`

`SumFunction` is a fold, so what it gives for every set takes an induction. The
library's induction theorems have an operator as a parameter, which the provers
cannot instantiate. `FiniteSums` says the same with sets: a set of subsets of a
finite set that is not empty has a minimal member (`MinimalSubset`), a set of
numbers a least one (`LeastNat`), and so a set that contains the first and with
each the next contains all (`SubsetInduction`, `NatSetInduction`). From these
follow that the fold exists, that it unfolds at any element, and what a changed, a
new or a removed term does to it. The recursive function that replays a book's
pending deltas is treated in the same way (`ReplayExists` in `ComponentProofs`).

### The order manager: `OrderManagerProofs`, `OrderManagerDataProofs`, `OrderManagerRefinement`

For any number of submitting threads, intents, submissions and sessions, on both
transports:

- `OrdersPlacedAtMostOnce`. The batch of the worker and the queue are one line
  (`Waiting`). The invariant says where the threads can be (`PhaseInv`), what they
  hold (`HoldingsInv`), and, in the first session, that whoever may still place an
  order has tracked it, that no two of them may place the same, and that nobody
  may place one again (`SessionInv`).
- `CancelsFollowPlaces`. `TargetInv` adds that a cancel or replacement in the line
  names a tracked order which nobody behind it creates. It needs `OwnTargets`:
  strategies name their own orders only.
- `StrategiesUseManager`, `StrategyOrdersInOrder`: the shard threads with filter,
  runner and gate are submitters of the kind the manager admits, so both hold of
  the composition.
- `ManagerImplementsCore`: `Spec => CoreSpec`, the refinement, over restarts too.
  `DataInv` says that the exchange's messages, the orders' sides and the pending
  update are of their types; then every step of a thread is one step of the core or
  leaves it alone (`StepIsCoreStep`). `Unbounded` is assumed: the constants
  `Updates` and `Snapshots`, which bound the core's specification for TLC, are the
  whole types here.
- `CoreKeepsPromises` and `LedgerKeepsPromises` carry the theorems about core and
  ledger over to the running order manager (`CoreP` and `LedgerP` instantiate the
  modules with their proofs).

### Feed, application, rings, books, parser: `ComponentProofs`

- `FeedReceivesAllChannels`, `StreamAlwaysOutlivesClose`, `ExitIsAlwaysClean`,
  `CalleesAlwaysOutliveCallers`, for any number of channels and failures and any
  capacities. `FeedInv` and `AppInv` are tables of where the threads can be
  together. `AppUsesFeed` shows that main uses the feed as its specification
  allows.
- `SlotsNeverRace`, `RingIsFifo`, for every capacity. `RingInv` bounds what either
  side has seen of the other's index by what is on its way and what is stored;
  the queue is the part of the slots between the two indices.
- `BooksAreTyped`, `BooksAreInOneMode`: any events, any order.
  `LevelsAlwaysFollowSequence` assumes `Sequenced`, that snapshots and deltas are
  numbered, which the parser guarantees (`SequencesAlwaysAgree`).
- `ReplayIsAlwaysExact`: any buffer, any numbers. By induction over the buffer the
  replay is in step with the deltas it should take up: the number the code
  compares with is the highest so far (`IsLast`), and to be above it is to be above
  all (`LastDecides`).
- `SequencesAlwaysAgree`: for every message, since the parser falls back on the
  number of the extractor, and where it does not, both have taken the first of the
  root's.

### The pipeline: `MarketDataPipelineProofs`

For any number of markets, shards, messages and slots and any capacities:

- `FramesAreOwned`. `PoolInv` says that the free stack lists the slots that are not
  in use, once each; `HeldInv` that each slot in use is held in one place, with the
  generation it was given out with.
- `BooksMatchExchange`. `LineInv` says that the messages of a market are in
  flight in the order they were sent, behind those that its book was given;
  `ContentInv` that each carries what the exchange's book was when it was sent, and
  that a book which lost nothing is what its messages make of it, pending deltas
  included.

### Only model-checked

- Liveness (`OrdersSettle`, `LedgerCatchesUp`, `IntentsWaitForExchangeOnly`,
  `StopReturns`, `OldestIsRead`, `FramesReturn`, `SnapshotsArrive`, `FeedRecovers`,
  `ShutdownCompletes`): out of the provers' reach.
- `QtyIsWrittenCount` and `NumbersAreAsWritten`: they are about powers of two with
  a variable exponent, of which the provers know nothing.
- `LedgerMatchesExchange`, `PositionWithinLimit` and `MarketLimitHolds`. They need
  an invariant about every message under way and about the strategies: a
  replacement that names another side than its target's, or a cancel under the id
  of another order, would break them, and the strategies are external.

## 5. Not modelled

- The signer, the texts of subscriptions and the logging: input and output
  without state. A signer that throws is modelled as that (`credentials_sign`).
  The Polymarket paths are stubs.
- In the websocket client, the parsing of the endpoint (it is valid or not) and
  everything inside Beast and TLS. That Beast tolerates a close beside a read is
  assumed from the way the code uses it.
- Strategies: the repository has none but `NoopStrategy`, so they are external.
- The moments between the starts of two shards: `Start` is one step, since a shard
  that is not started yet is one that has not taken its first turn.
- Exits 4 and 5 of `main` and the roll-back in `LivePipeline::start`: the calls
  they guard fail only for an object that already runs.
- Counters, timestamps, trade ids and error texts; none of them decides anything
  in the modelled parts. The order of accesses to an error text, which the
  shards' shared sink writes without a lock, is not modelled.
- JSON text that does not parse: the JSON libraries are external.
- 64-bit overflow of tick-lots. Generations of frames do wrap.

## 6. Plan

1. Proofs: `LedgerMatchesExchange` and `MarketLimitHolds` from an invariant about
   the messages under way; a bound under which the ledger does not overflow.
2. A paper exchange without automatic fills under the order manager, and the
   live exchange over a restart.
