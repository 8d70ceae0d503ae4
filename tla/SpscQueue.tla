----------------------------- MODULE SpscQueue ------------------------------
(***************************************************************************)
(* The lock-free ring SpscFrameQueue, and its twin SpscRoutedEventQueue,   *)
(* one memory access per step.  One thread calls try_push, one try_pop.    *)
(*                                                                         *)
(* Each side owns one index and reads the other side's with an acquire     *)
(* load.  Such a load may return an old value: the stores of an index are  *)
(* in flight until the other side sees them, in order.  A release store    *)
(* carries the slot with it, so the slots themselves are plain memory.     *)
(***************************************************************************)
EXTENDS Naturals, Sequences

CONSTANTS
    Values,      \* what is queued: FrameRefs or RoutedEvents
    NoValue,     \* the content of a slot never written, or moved from
    requested    \* the capacity passed to the constructor

ASSUME QueueAssumption == requested \in Nat /\ NoValue \notin Values

VARIABLES
    head_, tail_,            \* as their owners last stored them
    seen_head, seen_tail,    \* what an acquire load of the other side returns
    heads_in_flight, tails_in_flight,  \* stores the other side has not seen
    buffer_,
    producer, consumer,      \* where the two threads are
    pushing,                 \* the argument of try_push
    popping,                 \* ref_out of try_pop
    delivered                \* the value the last try_pop returned

indexVars == <<head_, tail_, seen_head, seen_tail, heads_in_flight, tails_in_flight>>
vars == <<indexVars, buffer_, producer, consumer, pushing, popping, delivered>>

kMinCapacity == 2

capacity_ == IF requested < kMinCapacity THEN kMinCapacity ELSE requested

Slots == 0..(capacity_ - 1)

increment(index) == (index + 1) % capacity_

-----------------------------------------------------------------------------
(* try_push.  A call that finds the ring full returns false and changes    *)
(* nothing.                                                                *)

PushLoad(value) ==
    /\ producer = "idle"
    /\ increment(head_) # seen_tail
    /\ producer' = "write"
    /\ pushing' = value
    /\ UNCHANGED <<indexVars, buffer_, consumer, popping, delivered>>

\* Faulty variant: the value is written one slot too far.
PushWrite_NextSlot ==
    /\ producer = "write"
    /\ buffer_' = [buffer_ EXCEPT ![increment(head_)] = pushing]
    /\ producer' = "store"
    /\ UNCHANGED <<indexVars, consumer, pushing, popping, delivered>>

PushWrite ==
    /\ producer = "write"
    /\ buffer_' = [buffer_ EXCEPT ![head_] = pushing]
    /\ producer' = "store"
    /\ UNCHANGED <<indexVars, consumer, pushing, popping, delivered>>

PushStore ==
    /\ producer = "store"
    /\ head_' = increment(head_)
    /\ heads_in_flight' = Append(heads_in_flight, increment(head_))
    /\ producer' = "idle"
    /\ pushing' = NoValue
    /\ UNCHANGED <<tail_, seen_head, seen_tail, tails_in_flight, buffer_, consumer,
                   popping, delivered>>

-----------------------------------------------------------------------------
(* try_pop.  A call that finds the ring empty returns false.               *)

\* Faulty variant: a ring with one value in it counts as empty.
PopLoad_OneIsEmpty ==
    /\ consumer = "idle"
    /\ tail_ # seen_head /\ increment(tail_) # seen_head
    /\ consumer' = "read"
    /\ UNCHANGED <<indexVars, buffer_, producer, pushing, popping, delivered>>

\* Faulty variant: the ring is never found empty.
PopLoad_Unchecked ==
    /\ consumer = "idle"
    /\ consumer' = "read"
    /\ UNCHANGED <<indexVars, buffer_, producer, pushing, popping, delivered>>

PopLoad ==
    /\ consumer = "idle"
    /\ tail_ # seen_head
    /\ consumer' = "read"
    /\ UNCHANGED <<indexVars, buffer_, producer, pushing, popping, delivered>>

\* A FrameRef is copied out of its slot, a RoutedEvent moved.
PopRead ==
    /\ consumer = "read"
    /\ popping' = buffer_[tail_]
    /\ buffer_' \in {buffer_, [buffer_ EXCEPT ![tail_] = NoValue]}
    /\ consumer' = "store"
    /\ UNCHANGED <<indexVars, producer, pushing, delivered>>

PopStore ==
    /\ consumer = "store"
    /\ tail_' = increment(tail_)
    /\ tails_in_flight' = Append(tails_in_flight, increment(tail_))
    /\ delivered' = popping
    /\ popping' = NoValue
    /\ consumer' = "idle"
    /\ UNCHANGED <<head_, seen_head, seen_tail, heads_in_flight, buffer_, producer, pushing>>

-----------------------------------------------------------------------------
(* The memory system: a store becomes visible to the other side.           *)

SeeHead ==
    /\ heads_in_flight # <<>>
    /\ seen_head' = Head(heads_in_flight)
    /\ heads_in_flight' = Tail(heads_in_flight)
    /\ UNCHANGED <<head_, tail_, seen_tail, tails_in_flight, buffer_, producer, consumer,
                   pushing, popping, delivered>>

SeeTail ==
    /\ tails_in_flight # <<>>
    /\ seen_tail' = Head(tails_in_flight)
    /\ tails_in_flight' = Tail(tails_in_flight)
    /\ UNCHANGED <<head_, tail_, seen_head, heads_in_flight, buffer_, producer, consumer,
                   pushing, popping, delivered>>

-----------------------------------------------------------------------------
Init ==
    /\ head_ = 0 /\ tail_ = 0
    /\ seen_head = 0 /\ seen_tail = 0
    /\ heads_in_flight = <<>> /\ tails_in_flight = <<>>
    /\ buffer_ = [slot \in Slots |-> NoValue]
    /\ producer = "idle" /\ consumer = "idle"
    /\ pushing = NoValue /\ popping = NoValue /\ delivered = NoValue

TryPush == PushWrite \/ PushStore \/ \E value \in Values : PushLoad(value)

TryPop == PopLoad \/ PopRead \/ PopStore

Next == TryPush \/ TryPop \/ SeeHead \/ SeeTail

Spec == Init /\ [][Next]_vars

\* The consumer polls for ever; a store becomes visible in finite time; a
\* try_push that has begun is finished.  Nobody is obliged to push.
FairSpec ==
    /\ Spec
    /\ WF_vars(TryPop)
    /\ WF_vars(PushWrite \/ PushStore)
    /\ WF_vars(SeeHead) /\ WF_vars(SeeTail)

-----------------------------------------------------------------------------
(* Properties                                                              *)

\* The two threads never access one slot at the same time: the write of
\* try_push and the read of try_pop, which no lock separates, are no data race.
NoSlotRace == producer = "write" /\ consumer = "read" => head_ # tail_

\* the values in the ring, oldest first
items ==
    [i \in 1..((head_ + capacity_ - tail_) % capacity_) |->
        IF i = 1 /\ consumer = "store" THEN popping
        ELSE buffer_[(tail_ + i - 1) % capacity_]]

Fifo == INSTANCE BoundedFifo WITH Bound <- capacity_ - 1

\* The ring implements a FIFO queue that holds one value less than it has
\* slots, whatever old index values the loads return.
FifoSpec == Fifo!Spec

\* A value that has been pushed does not stay in the ring: the consumer, which
\* polls, comes to read the oldest one.
OldestIsRead == items # <<>> ~> consumer = "store"
=============================================================================
