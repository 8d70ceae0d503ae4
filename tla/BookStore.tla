----------------------------- MODULE BookStore ------------------------------
(***************************************************************************)
(* BookStore: the order books of a shard.  A book is built by a snapshot   *)
(* and kept by deltas; deltas that come before the snapshot are buffered   *)
(* and replayed; too many of them desynchronise the book until the next    *)
(* snapshot.                                                               *)
(*                                                                         *)
(* A store belongs to one thread and apply() is one step.  Its callers may *)
(* hand it any event of Events in any order.  The counters of a book are   *)
(* left out.  A market belongs to one shard, so `books' can also be read   *)
(* as the union of the stores of all shards.                               *)
(***************************************************************************)
EXTENDS Integers, Sequences, Functions

CONSTANTS
    Events,              \* the normalized events that may arrive
    kMaxPendingDeltas,   \* deltas a book buffers before its snapshot
    None                 \* an absent optional

Level == [price_ticks : Int, qty_lots : Int]

SnapshotData == [bids : Seq(Level), asks : Seq(Level)]

DeltaData ==
    [side : {"kBid", "kAsk", "kBuy", "kSell", "kUnknown"}, price_ticks : Int,
     delta_qty_lots : Int]

\* NormalizedEvent
EventIsTyped(event) ==
    /\ event.raw_sequence_id \in Nat \cup {None}
    /\ event.meta_sequence_id \in Nat
    /\ event.type = "kSnapshot" => event.data \in SnapshotData
    /\ event.type = "kDelta" => event.data \in DeltaData

ASSUME BookAssumption ==
    /\ kMaxPendingDeltas \in Nat
    /\ None \notin Int
    /\ \A event \in Events : EventIsTyped(event)

VARIABLE books    \* market -> BookState, for the markets met so far

-----------------------------------------------------------------------------
(* Books                                                                   *)

NoLevels == [price \in {} |-> 0]

EmptyBook ==
    [last_seq_id    |-> None,
     has_snapshot   |-> FALSE,
     desynced       |-> FALSE,
     bids           |-> NoLevels,
     asks           |-> NoLevels,
     pending_deltas |-> <<>>,
     last_trade     |-> None]

BookOf(market) == IF market \in DOMAIN books THEN books[market] ELSE EmptyBook

effective_sequence_id(event) ==
    IF event.raw_sequence_id # None THEN event.raw_sequence_id
    ELSE IF event.meta_sequence_id # 0 THEN event.meta_sequence_id ELSE None

mark_desynced(book) ==
    [EmptyBook EXCEPT !.desynced = TRUE, !.last_trade = book.last_trade]

\* Faulty variant: an event with the last sequence id passes again.
SequenceAllows_Equal(book, sequence_id) ==
    sequence_id = None \/ book.last_seq_id = None \/ sequence_id >= book.last_seq_id

\* Gaps pass; a sequence id that is not above the last one does not.
SequenceAllows(book, sequence_id) ==
    sequence_id = None \/ book.last_seq_id = None \/ sequence_id > book.last_seq_id

advance_sequence_if_present(book, sequence_id) ==
    IF sequence_id = None THEN book ELSE [book EXCEPT !.last_seq_id = sequence_id]

-----------------------------------------------------------------------------
(* Snapshots                                                               *)

LevelIsValid(level) == level.price_ticks >= 0 /\ level.qty_lots > 0

AllValid(levels) == \A i \in DOMAIN levels : LevelIsValid(levels[i])

Latest(positions) == CHOOSE i \in positions : \A j \in positions : i >= j

\* The side as far as the levels are valid; of two levels at one price the
\* later one counts.
LevelsBeforeFault(levels) ==
    LET read == {i \in DOMAIN levels : \A j \in 1..i : LevelIsValid(levels[j])}
    IN  [price \in {levels[i].price_ticks : i \in read} |->
            levels[Latest({i \in read : levels[i].price_ticks = price})].qty_lots]

\* Both sides are cleared first, and an invalid level ends the copying where
\* it is: a rejected snapshot leaves a part of itself in the book.
apply_snapshot_data(book, snapshot) ==
    [book EXCEPT !.bids = LevelsBeforeFault(snapshot.bids),
                 !.asks = IF AllValid(snapshot.bids) THEN LevelsBeforeFault(snapshot.asks)
                          ELSE NoLevels]

-----------------------------------------------------------------------------
(* Deltas                                                                  *)

DeltaIsValid(delta) == delta.price_ticks >= 0 /\ delta.side # "kUnknown"

\* Faulty variant: a level whose quantity reaches zero stays.
AddLots_KeepsZero(levels, price, lots) ==
    LET updated == lots + (IF price \in DOMAIN levels THEN levels[price] ELSE 0)
    IN  IF updated < 0
        THEN Restrict(levels, DOMAIN levels \ {price})
        ELSE [p \in DOMAIN levels \cup {price} |-> IF p = price THEN updated ELSE levels[p]]

\* A level whose quantity is no longer positive is erased.
AddLots(levels, price, lots) ==
    LET updated == lots + (IF price \in DOMAIN levels THEN levels[price] ELSE 0)
    IN  IF updated <= 0
        THEN Restrict(levels, DOMAIN levels \ {price})
        ELSE [p \in DOMAIN levels \cup {price} |-> IF p = price THEN updated ELSE levels[p]]

apply_delta_data(book, delta) ==
    IF delta.side \in {"kBid", "kBuy"}
    THEN [book EXCEPT !.bids = AddLots(@, delta.price_ticks, delta.delta_qty_lots)]
    ELSE [book EXCEPT !.asks = AddLots(@, delta.price_ticks, delta.delta_qty_lots)]

\* Faulty variant: a stale delta is not skipped.
ReplayDelta_NoSkip(book, pending) ==
    IF book.desynced THEN book
    ELSE IF DeltaIsValid(pending.delta)
         THEN apply_delta_data(advance_sequence_if_present(book, pending.sequence_id),
                               pending.delta)
         ELSE mark_desynced(book)

\* One pending delta: dropped if stale; a fault desynchronises the book and
\* the rest is dropped.
ReplayDelta(book, pending) ==
    IF book.desynced \/ ~SequenceAllows(book, pending.sequence_id) THEN book
    ELSE IF DeltaIsValid(pending.delta)
         THEN apply_delta_data(advance_sequence_if_present(book, pending.sequence_id),
                               pending.delta)
         ELSE mark_desynced(book)

\* The pending deltas are taken one after the other, first come first.
Replayed(book, pending) ==
    LET after[i \in 0..Len(pending)] ==
            IF i = 0 THEN book ELSE ReplayDelta(after[i - 1], pending[i])
    IN  after[Len(pending)]

\* Faulty variant: the replayed deltas stay pending.
replay_pending_deltas_Keeps(book) == Replayed(book, book.pending_deltas)

replay_pending_deltas(book) ==
    [Replayed(book, book.pending_deltas) EXCEPT !.pending_deltas = <<>>]

-----------------------------------------------------------------------------
(* apply()                                                                 *)

\* Faulty variant: a snapshot does not lower the sequence id of a book.
AfterSnapshot_KeepsSequence(book, event) ==
    LET copied == apply_snapshot_data(book, event.data)
    IN  IF AllValid(event.data.bids) /\ AllValid(event.data.asks)
        THEN replay_pending_deltas(
                 [advance_sequence_if_present(copied,
                      IF SequenceAllows(book, effective_sequence_id(event))
                      THEN effective_sequence_id(event) ELSE None)
                    EXCEPT !.has_snapshot = TRUE, !.desynced = FALSE])
        ELSE copied

\* The book of the event's market after the event.
AfterSnapshot(book, event) ==
    LET copied == apply_snapshot_data(book, event.data)
    IN  IF AllValid(event.data.bids) /\ AllValid(event.data.asks)
        THEN replay_pending_deltas(
                 [copied EXCEPT !.has_snapshot = TRUE, !.desynced = FALSE,
                                !.last_seq_id = effective_sequence_id(event)])
        ELSE copied

AfterDelta(book, event) ==
    LET sequence_id == effective_sequence_id(event)
        advanced    == advance_sequence_if_present(book, sequence_id)
    IN  IF book.desynced THEN book
        ELSE IF ~book.has_snapshot
        THEN IF Len(book.pending_deltas) >= kMaxPendingDeltas
             THEN mark_desynced(book)
             ELSE [book EXCEPT !.pending_deltas =
                      Append(@, [sequence_id |-> sequence_id, delta |-> event.data])]
        ELSE IF ~SequenceAllows(book, sequence_id) THEN book
        ELSE IF DeltaIsValid(event.data) THEN apply_delta_data(advanced, event.data)
        ELSE advanced

AfterTrade(book, event) ==
    IF book.desynced \/ ~SequenceAllows(book, effective_sequence_id(event)) THEN book
    ELSE [advance_sequence_if_present(book, effective_sequence_id(event))
             EXCEPT !.last_trade = event.data]

PutBook(market, book) ==
    books' = [m \in DOMAIN books \cup {market} |-> IF m = market THEN book ELSE books[m]]

ApplySnapshot(event) ==
    /\ event.type = "kSnapshot"
    /\ PutBook(event.market_ticker, AfterSnapshot(BookOf(event.market_ticker), event))

ApplyDelta(event) ==
    /\ event.type = "kDelta"
    /\ PutBook(event.market_ticker, AfterDelta(BookOf(event.market_ticker), event))

ApplyTrade(event) ==
    /\ event.type = "kTrade"
    /\ PutBook(event.market_ticker, AfterTrade(BookOf(event.market_ticker), event))

\* Rejected, but the market has a book from now on.
ApplyOther(event) ==
    /\ event.type \in {"kHeartbeat", "kStatus"}
    /\ PutBook(event.market_ticker, BookOf(event.market_ticker))

apply(event) ==
    ApplySnapshot(event) \/ ApplyDelta(event) \/ ApplyTrade(event) \/ ApplyOther(event)

StoreInit == books = [m \in {} |-> EmptyBook]

StoreNext == \E event \in Events : apply(event)

StoreSpec == StoreInit /\ [][StoreNext]_books

-----------------------------------------------------------------------------
(* Properties                                                              *)

\* Type invariant: a level has a non-negative price and a positive quantity,
\* and no more deltas are pending than kMaxPendingDeltas.
TypeOK ==
    \A m \in DOMAIN books :
        LET book == books[m]
        IN  /\ DOMAIN book = DOMAIN EmptyBook
            /\ book.last_seq_id \in Nat \cup {None}
            /\ book.has_snapshot \in BOOLEAN /\ book.desynced \in BOOLEAN
            /\ \A side \in {book.bids, book.asks} : \A price \in DOMAIN side :
                   price >= 0 /\ side[price] > 0
            /\ Len(book.pending_deltas) <= kMaxPendingDeltas

\* A book is buffering, in sync or desynced, never two of these: deltas are
\* pending only before the snapshot, and none survive one or a desync.
OneMode ==
    \A m \in DOMAIN books :
        /\ ~(books[m].has_snapshot /\ books[m].desynced)
        /\ books[m].has_snapshot \/ books[m].desynced => books[m].pending_deltas = <<>>

SnapshotStep(m) ==
    \E event \in Events : event.market_ticker = m /\ ApplySnapshot(event)

SameLevels(m) == books'[m].bids = books[m].bids /\ books'[m].asks = books[m].asks

\* Between snapshots the levels of a book in sync change only with a sequence
\* id above every one applied before: a repeated or late delta changes nothing.
\* (The Kalshi parser requires a sequence id on snapshots and deltas.)
LevelsFollowSequence ==
    [][\A m \in DOMAIN books :
        (books[m].has_snapshot /\ ~SnapshotStep(m) /\ ~SameLevels(m)) =>
            books'[m].last_seq_id > books[m].last_seq_id]_books

\* The pending deltas that are news to a snapshot with this sequence id: their own
\* id is above the snapshot's and above that of every delta buffered earlier.
NewsTo(sequence_id, pending) ==
    {i \in DOMAIN pending :
        \A earlier \in {sequence_id} \cup {pending[j].sequence_id : j \in 1..(i - 1)} :
            None \in {pending[i].sequence_id, earlier} \/ pending[i].sequence_id > earlier}

\* The book after the deltas at these positions, whatever their sequence ids.
WithDeltas(book, pending, positions) ==
    LET after[i \in 0..Len(pending)] ==
            IF i = 0 THEN book
            ELSE IF i \in positions THEN apply_delta_data(after[i - 1], pending[i].delta)
            ELSE after[i - 1]
    IN  after[Len(pending)]

\* A snapshot that meets buffered deltas takes up exactly the ones it does not
\* contain yet: none of those it covers, that came late or came twice is added
\* again, and none of the others is lost.  One of them that cannot be applied
\* costs the book its sync, never only a part of the replay.
ReplayIsExact ==
    [][\A event \in Events :
        LET m        == event.market_ticker
            pending  == BookOf(m).pending_deltas
            news     == NewsTo(effective_sequence_id(event), pending)
            expected == WithDeltas(apply_snapshot_data(EmptyBook, event.data), pending, news)
        IN  (/\ ApplySnapshot(event)
             /\ AllValid(event.data.bids) /\ AllValid(event.data.asks)) =>
                IF \A i \in news : DeltaIsValid(pending[i].delta)
                THEN /\ books'[m].has_snapshot
                     /\ books'[m].bids = expected.bids /\ books'[m].asks = expected.asks
                ELSE books'[m].desynced]_books

\* "Snapshot replaces book levels." (docs/data_contract.md)  A snapshot of a
\* book in sync leaves the book with the snapshot's levels or as it was.
SnapshotReplacesLevels ==
    [][\A event \in Events :
        LET m == event.market_ticker
            Side(levels) == [price \in {levels[i].price_ticks : i \in DOMAIN levels} |->
                levels[Latest({i \in DOMAIN levels : levels[i].price_ticks = price})].qty_lots]
        IN  (m \in DOMAIN books /\ ApplySnapshot(event)) =>
                (books[m].has_snapshot =>
                    \/ SameLevels(m)
                    \/ /\ books'[m].bids = Side(event.data.bids)
                       /\ books'[m].asks = Side(event.data.asks))]_books
=============================================================================
