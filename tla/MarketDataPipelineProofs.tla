---------------------- MODULE MarketDataPipelineProofs ----------------------
(***************************************************************************)
(* Proofs about the market-data path: frames are neither leaked nor        *)
(* shared, and a book that lost nothing shows the exchange's levels.       *)
(***************************************************************************)
EXTENDS MarketDataPipeline, TLAPS

\* The elements of a sequence.
LEMMA ElementsOf ==
    ASSUME NEW S, NEW s \in Seq(S)
    PROVE  Len(s) \in Nat /\ \A k \in 1..Len(s) : s[k] \in S
OBVIOUS

\* Some arithmetic of message numbers.
LEMMA Numbers ==
    \A a, b, c \in Nat :
        /\ a \in 1..b => a > 0
        /\ a > b => a > 0
        /\ a <= b /\ b < c => a <= c
        /\ a < b /\ c > b => c > a
        /\ a < b + 1 => a < b + 2
        /\ a + 1 \in Nat
OBVIOUS

-----------------------------------------------------------------------------
(* The pool                                                                *)

IsFree(slot) == \E i \in DOMAIN free_slots : free_slots[i] = slot

\* A slot is on the stack of free slots, once, exactly when it is not in use.
PoolInv ==
    /\ free_slots \in Seq(Slots)
    /\ in_use \in [Slots -> BOOLEAN]
    /\ generations \in [Slots -> 1..(GenerationRange - 1)]
    /\ DOMAIN slots = Slots
    /\ \A i, j \in DOMAIN free_slots : free_slots[i] = free_slots[j] => i = j
    /\ \A slot \in Slots : in_use[slot] <=> ~IsFree(slot)

\* The constructor of FramePool puts every slot on the stack, once.
LEMMA PoolInitially == PoolInit => PoolInv
<1> SUFFICES ASSUME PoolInit PROVE PoolInv
  BY Zenon
<1>1. slot_count \in Nat /\ Slots = 0..(slot_count - 1)
  BY Zenon, PoolAssumption DEF Slots
<1>2. /\ DOMAIN free_slots = 1..slot_count
      /\ \A i \in 1..slot_count : free_slots[i] = slot_count - i /\ slot_count - i \in Slots
  BY <1>1 DEF PoolInit
<1>3. free_slots \in Seq(Slots)
  <2>1. free_slots \in [1..slot_count -> Slots]
    BY Zenon, <1>1, <1>2 DEF PoolInit
  <2>. QED
    BY <1>1, <2>1
<1>4. \A i, j \in DOMAIN free_slots : free_slots[i] = free_slots[j] => i = j
  BY <1>1, <1>2
<1>5. \A slot \in Slots : IsFree(slot)
  <2>1. \A slot \in Slots : slot_count - slot \in 1..slot_count
                              /\ slot_count - (slot_count - slot) = slot
    BY <1>1
  <2>. QED
    BY Zenon, <1>2, <2>1 DEF IsFree
<1>. QED
  BY <1>3, <1>4, <1>5, PoolAssumption DEF PoolInit, PoolInv, kInitialGeneration

\* A generation that wraps skips zero.
LEMMA NextGenerationType ==
    ASSUME NEW generation \in 1..(GenerationRange - 1)
    PROVE  NextGeneration(generation) \in 1..(GenerationRange - 1)
<1>1. GenerationRange \in Nat /\ GenerationRange > 1
  BY Zenon, PoolAssumption
<1>2. (generation + 1) % GenerationRange \in 0..(GenerationRange - 1)
  BY <1>1
<1>. QED
  BY <1>1, <1>2 DEF NextGeneration, kInitialGeneration

\* acquire takes a free slot and leaves the others as they are.
LEMMA AcquireSlot ==
    ASSUME PoolInv, NEW content, acquire(content)
    PROVE  /\ PoolInv'
           /\ AcquiredRef \in FrameRef
           /\ ~in_use[AcquiredRef.slot] /\ in_use'[AcquiredRef.slot]
           /\ AcquiredRef.generation = generations'[AcquiredRef.slot]
           /\ slots'[AcquiredRef.slot] = content
           /\ generations' = generations
           /\ \A slot \in Slots \ {AcquiredRef.slot} :
                 in_use'[slot] = in_use[slot] /\ slots'[slot] = slots[slot]
<1> DEFINE n == Len(free_slots)
           slot == free_slots[n]
<1>1. n \in Nat \ {0} /\ DOMAIN free_slots = 1..n /\ slot \in Slots
  <2>1. free_slots # <<>> /\ free_slots \in Seq(Slots)
    BY Zenon DEF acquire, CanAcquire, PoolInv
  <2>. QED
    BY <2>1
<1>2. AcquiredRef = [slot |-> slot, generation |-> generations[slot]]
  BY Zenon DEF AcquiredRef
<1>3. AcquiredRef \in FrameRef /\ AcquiredRef.slot = slot
      /\ AcquiredRef.generation = generations[slot]
  BY Zenon, <1>1, <1>2 DEF FrameRef, PoolInv
<1>4. ~in_use[slot]
  BY <1>1 DEF PoolInv, IsFree
<1>5. /\ free_slots' = SubSeq(free_slots, 1, n - 1)
      /\ in_use' = [in_use EXCEPT ![slot] = TRUE]
      /\ slots' = [slots EXCEPT ![slot] = content]
      /\ generations' = generations
  BY Zenon, <1>3 DEF acquire
<1>6. /\ free_slots' \in Seq(Slots) /\ DOMAIN free_slots' = 1..(n - 1)
      /\ \A i \in 1..(n - 1) : free_slots'[i] = free_slots[i]
  <2>1. free_slots \in Seq(Slots)
    BY Zenon DEF PoolInv
  <2>. QED
    BY <1>1, <1>5, <2>1
<1> HIDE DEF n
<1>7. \A s \in Slots : IsFree(s)' <=> IsFree(s) /\ s # slot
  <2>1. \A i \in 1..(n - 1) : free_slots[i] # slot
    BY <1>1 DEF PoolInv
  <2>2. \A i \in 1..n : i \in 1..(n - 1) \/ i = n
    BY <1>1
  <2>. QED
    BY <1>1, <1>6, <2>1, <2>2 DEF IsFree
<1>8. \A i, j \in DOMAIN free_slots' : free_slots'[i] = free_slots'[j] => i = j
  BY <1>1, <1>6 DEF PoolInv
<1> HIDE DEF slot
<1>9. PoolInv'
  BY Zenon, <1>1, <1>5, <1>6, <1>7, <1>8 DEF PoolInv
<1>. QED
  BY Zenon, <1>1, <1>3, <1>4, <1>5, <1>9 DEF PoolInv

\* release gives the slot of a valid handle back and leaves the others.
LEMMA ReleaseSlot ==
    ASSUME PoolInv, NEW ref \in FrameRef, RefIsValid(ref), release(ref)
    PROVE  /\ PoolInv'
           /\ ~in_use'[ref.slot]
           /\ \A slot \in Slots \ {ref.slot} :
                 /\ in_use'[slot] = in_use[slot] /\ generations'[slot] = generations[slot]
                 /\ slots'[slot] = slots[slot]
<1> DEFINE slot == ref.slot
           n == Len(free_slots)
<1>1. slot \in Slots /\ in_use[slot]
  BY Zenon DEF FrameRef, RefIsValid
<1>2. /\ free_slots' = Append(free_slots, slot)
      /\ in_use' = [in_use EXCEPT ![slot] = FALSE]
      /\ slots' = [slots EXCEPT ![slot] = EmptyFrame]
      /\ generations' = [generations EXCEPT ![slot] = NextGeneration(@)]
  BY Zenon DEF release
<1>3. /\ free_slots \in Seq(Slots) /\ n \in Nat /\ DOMAIN free_slots = 1..n
      /\ free_slots' \in Seq(Slots) /\ DOMAIN free_slots' = 1..(n + 1)
      /\ free_slots'[n + 1] = slot
      /\ \A i \in 1..n : free_slots'[i] = free_slots[i]
  <2>1. free_slots \in Seq(Slots)
    BY Zenon DEF PoolInv
  <2>. QED
    BY <1>1, <1>2, <2>1
<1>4. \A i \in 1..n : free_slots[i] # slot
  BY Zenon, <1>1, <1>3 DEF PoolInv, IsFree
<1> HIDE DEF n
<1>5. \A i \in 1..(n + 1) : i \in 1..n \/ i = n + 1
  BY <1>3
<1>6. \A s \in Slots : IsFree(s)' <=> IsFree(s) \/ s = slot
  BY <1>3, <1>5 DEF IsFree
<1>7. \A i, j \in DOMAIN free_slots' : free_slots'[i] = free_slots'[j] => i = j
  BY Zenon, <1>3, <1>4, <1>5 DEF PoolInv
<1>8. generations' \in [Slots -> 1..(GenerationRange - 1)]
  <2>1. NextGeneration(generations[slot]) \in 1..(GenerationRange - 1)
    BY Zenon, <1>1, NextGenerationType DEF PoolInv
  <2>. QED
    BY Zenon, <1>1, <1>2, <2>1 DEF PoolInv
<1> HIDE DEF slot
<1>9. PoolInv'
  BY Zenon, <1>1, <1>2, <1>3, <1>6, <1>7, <1>8 DEF PoolInv
<1>. QED
  BY Zenon, <1>1, <1>2, <1>9 DEF PoolInv, slot

-----------------------------------------------------------------------------
(* Who holds a frame                                                       *)

IsQueued(slot) == \E i \in DOMAIN frame_queue : frame_queue[i].slot = slot
IsSinks(slot) == sink # None /\ sink.slot = slot
IsPumps(slot) == pump # None /\ pump.ref.slot = slot

\* The handles of the queue, of push_message and of pump_ingest are valid, no
\* two of them name one slot, and every slot in use has one.
HeldInv ==
    /\ frame_queue \in Seq(FrameRef)
    /\ sink \in FrameRef \cup {None}
    /\ pump \in PumpState \cup {None}
    /\ \A i \in DOMAIN frame_queue : RefIsValid(frame_queue[i])
    /\ sink # None => RefIsValid(sink)
    /\ pump # None => RefIsValid(pump.ref)
    /\ \A i, j \in DOMAIN frame_queue : frame_queue[i].slot = frame_queue[j].slot => i = j
    /\ \A slot \in Slots :
          /\ ~(IsQueued(slot) /\ IsSinks(slot))
          /\ ~(IsQueued(slot) /\ IsPumps(slot))
          /\ ~(IsSinks(slot) /\ IsPumps(slot))
          /\ in_use[slot] => IsQueued(slot) \/ IsSinks(slot) \/ IsPumps(slot)

OwnInv == PoolInv /\ HeldInv

\* The types of the handles that are held.
LEMMA HeldTypes ==
    ASSUME HeldInv
    PROVE  /\ \A i \in DOMAIN frame_queue : /\ frame_queue[i] \in FrameRef
                                            /\ frame_queue[i].slot \in Slots
           /\ sink # None => sink \in FrameRef /\ sink.slot \in Slots
           /\ pump # None => pump \in PumpState /\ pump.ref \in FrameRef /\ pump.ref.slot \in Slots
<1>1. \A i \in DOMAIN frame_queue : frame_queue[i] \in FrameRef
  BY DEF HeldInv
<1>. QED
  BY Zenon, <1>1 DEF HeldInv, FrameRef, PumpState

\* Nothing is held before the feed has sent anything.
LEMMA OwnInitially == Init => OwnInv
<1> SUFFICES ASSUME Init PROVE OwnInv
  BY Zenon
<1>1. PoolInv
  BY Zenon, PoolInitially DEF Init
<1>2. \A slot \in Slots : ~in_use[slot]
  BY Zenon DEF Init, PoolInit
<1>. QED
  BY <1>1, <1>2 DEF Init, OwnInv, HeldInv, IsQueued, IsSinks, IsPumps

\* push_message, when the pool has a frame.
LEMMA OwnAfterAcquire ==
    ASSUME OwnInv, sink = None, NEW content, acquire(content), sink' = AcquiredRef,
           UNCHANGED <<frame_queue, pump>>
    PROVE  OwnInv'
<1>0. PoolInv /\ HeldInv
  BY Zenon DEF OwnInv
<1> DEFINE slot == AcquiredRef.slot
<1>1. /\ PoolInv'
      /\ AcquiredRef \in FrameRef /\ slot \in Slots
      /\ ~in_use[slot] /\ in_use'[slot]
      /\ AcquiredRef.generation = generations'[slot]
      /\ generations' = generations
      /\ \A s \in Slots \ {slot} : in_use'[s] = in_use[s]
  BY Zenon, <1>0, AcquireSlot DEF FrameRef
<1>2. /\ \A i \in DOMAIN frame_queue : frame_queue[i].slot # slot
      /\ pump # None => pump.ref.slot # slot
  BY Zenon, <1>0, <1>1 DEF HeldInv, RefIsValid
<1>3. sink' # None /\ sink'.slot = slot
  BY Zenon, <1>1, PipelineAssumption
<1>4. RefIsValid(sink)'
  BY Zenon, <1>1 DEF RefIsValid
<1> HIDE DEF slot
<1>5. \A i \in DOMAIN frame_queue' : RefIsValid(frame_queue[i])'
  BY Zenon, <1>0, <1>1, <1>2, HeldTypes DEF HeldInv, RefIsValid
<1>6. pump' # None => RefIsValid(pump.ref)'
  BY Zenon, <1>0, <1>1, <1>2, HeldTypes DEF HeldInv, RefIsValid
<1>7. \A s \in Slots : /\ IsQueued(s)' <=> IsQueued(s)
                       /\ IsPumps(s)' <=> IsPumps(s)
                       /\ IsSinks(s)' <=> s = slot
                       /\ ~IsSinks(s)
  BY Zenon, <1>3 DEF IsQueued, IsPumps, IsSinks
<1>8. ~IsQueued(slot) /\ ~IsPumps(slot)
  BY Zenon, <1>2 DEF IsQueued, IsPumps
<1>9. HeldInv'
  <2>1. \A s \in Slots : /\ ~(IsQueued(s) /\ IsSinks(s))'
                         /\ ~(IsQueued(s) /\ IsPumps(s))'
                         /\ ~(IsSinks(s) /\ IsPumps(s))'
                         /\ in_use'[s] => (IsQueued(s) \/ IsSinks(s) \/ IsPumps(s))'
    BY Zenon, <1>0, <1>1, <1>7, <1>8 DEF HeldInv
  <2>2. frame_queue' \in Seq(FrameRef) /\ sink' \in FrameRef /\ pump' \in PumpState \cup {None}
    BY Zenon, <1>0, <1>1 DEF HeldInv
  <2>3. \A i, j \in DOMAIN frame_queue' : frame_queue'[i].slot = frame_queue'[j].slot => i = j
    BY Zenon, <1>0 DEF HeldInv
  <2>. QED
    BY Zenon, <1>4, <1>5, <1>6, <2>1, <2>2, <2>3 DEF HeldInv
<1>. QED
  BY Zenon, <1>1, <1>9 DEF OwnInv

\* A handle that is given back: the others stay valid.
LEMMA OthersStayValid ==
    ASSUME OwnInv, NEW ref \in FrameRef, RefIsValid(ref), release(ref),
           NEW other \in FrameRef, RefIsValid(other), other.slot # ref.slot
    PROVE  RefIsValid(other)'
<1>1. other.slot \in Slots
  BY Zenon DEF FrameRef
<1>2. in_use'[other.slot] = in_use[other.slot]
        /\ generations'[other.slot] = generations[other.slot]
  BY Zenon, <1>1, ReleaseSlot DEF OwnInv
<1>. QED
  BY Zenon, <1>2 DEF RefIsValid

\* push_message gives its frame back, when the queue is full.
LEMMA OwnAfterSinkRelease ==
    ASSUME OwnInv, sink # None, release(sink), sink' = None, UNCHANGED <<frame_queue, pump>>
    PROVE  OwnInv'
<1>0. PoolInv /\ HeldInv /\ sink \in FrameRef /\ sink.slot \in Slots /\ RefIsValid(sink)
  BY Zenon, HeldTypes DEF OwnInv, HeldInv
<1>1. /\ PoolInv' /\ ~in_use'[sink.slot]
      /\ \A s \in Slots \ {sink.slot} : in_use'[s] = in_use[s]
  BY Zenon, <1>0, ReleaseSlot
<1>2. /\ \A i \in DOMAIN frame_queue : frame_queue[i].slot # sink.slot
      /\ pump # None => pump.ref.slot # sink.slot
  BY Zenon, <1>0 DEF HeldInv, IsQueued, IsSinks, IsPumps
<1>3. \A i \in DOMAIN frame_queue' : RefIsValid(frame_queue[i])'
  BY Zenon, <1>0, <1>2, HeldTypes, OthersStayValid DEF HeldInv
<1>4. pump' # None => RefIsValid(pump.ref)'
  BY Zenon, <1>0, <1>2, HeldTypes, OthersStayValid DEF HeldInv
<1>5. \A s \in Slots : /\ IsQueued(s)' <=> IsQueued(s)
                       /\ IsPumps(s)' <=> IsPumps(s)
                       /\ ~IsSinks(s)'
                       /\ IsSinks(s) <=> s = sink.slot
  BY Zenon DEF IsQueued, IsPumps, IsSinks
<1>6. \A s \in Slots : /\ ~(IsQueued(s) /\ IsPumps(s))'
                       /\ in_use'[s] => (IsQueued(s) \/ IsSinks(s) \/ IsPumps(s))'
  BY Zenon, <1>0, <1>1, <1>5 DEF HeldInv
<1>7. frame_queue' \in Seq(FrameRef) /\ pump' \in PumpState \cup {None}
      /\ \A i, j \in DOMAIN frame_queue' : frame_queue'[i].slot = frame_queue'[j].slot => i = j
  BY Zenon, <1>0 DEF HeldInv
<1>8. HeldInv'
  BY Zenon, <1>3, <1>4, <1>5, <1>6, <1>7 DEF HeldInv
<1>. QED
  BY Zenon, <1>1, <1>8 DEF OwnInv

\* pump_ingest gives its frame back.
LEMMA OwnAfterPumpRelease ==
    ASSUME OwnInv, pump # None, release(pump.ref), pump' = None, UNCHANGED <<frame_queue, sink>>
    PROVE  OwnInv'
<1> DEFINE ref == pump.ref
<1>0. PoolInv /\ HeldInv /\ ref \in FrameRef /\ ref.slot \in Slots /\ RefIsValid(ref)
  BY Zenon, HeldTypes DEF OwnInv, HeldInv
<1>1. /\ PoolInv' /\ ~in_use'[ref.slot]
      /\ \A s \in Slots \ {ref.slot} : in_use'[s] = in_use[s]
  BY Zenon, <1>0, ReleaseSlot
<1>2. /\ \A i \in DOMAIN frame_queue : frame_queue[i].slot # ref.slot
      /\ sink # None => sink.slot # ref.slot
  BY Zenon, <1>0 DEF HeldInv, IsQueued, IsSinks, IsPumps
<1>3. \A i \in DOMAIN frame_queue' : RefIsValid(frame_queue[i])'
  BY Zenon, <1>0, <1>2, HeldTypes, OthersStayValid DEF HeldInv
<1>4. sink' # None => RefIsValid(sink)'
  BY Zenon, <1>0, <1>2, HeldTypes, OthersStayValid DEF HeldInv
<1>5. \A s \in Slots : /\ IsQueued(s)' <=> IsQueued(s)
                       /\ IsSinks(s)' <=> IsSinks(s)
                       /\ ~IsPumps(s)'
                       /\ IsPumps(s) <=> s = ref.slot
  BY Zenon DEF IsQueued, IsPumps, IsSinks
<1>6. \A s \in Slots : /\ ~(IsQueued(s) /\ IsSinks(s))'
                       /\ in_use'[s] => (IsQueued(s) \/ IsSinks(s) \/ IsPumps(s))'
  BY Zenon, <1>0, <1>1, <1>5 DEF HeldInv
<1>7. frame_queue' \in Seq(FrameRef) /\ sink' \in FrameRef \cup {None}
      /\ \A i, j \in DOMAIN frame_queue' : frame_queue'[i].slot = frame_queue'[j].slot => i = j
  BY Zenon, <1>0 DEF HeldInv
<1>8. HeldInv'
  BY Zenon, <1>3, <1>4, <1>5, <1>6, <1>7 DEF HeldInv
<1>. QED
  BY Zenon, <1>1, <1>8 DEF OwnInv

\* The frame of push_message goes into the queue.
LEMMA OwnAfterEnqueue ==
    ASSUME OwnInv, sink # None, frame_queue' = Append(frame_queue, sink), sink' = None,
           UNCHANGED <<poolVars, pump>>
    PROVE  OwnInv'
<1> DEFINE n == Len(frame_queue)
<1>0. PoolInv /\ HeldInv /\ sink \in FrameRef /\ sink.slot \in Slots /\ RefIsValid(sink)
  BY Zenon, HeldTypes DEF OwnInv, HeldInv
<1>1. /\ frame_queue \in Seq(FrameRef) /\ n \in Nat /\ DOMAIN frame_queue = 1..n
      /\ frame_queue' \in Seq(FrameRef) /\ DOMAIN frame_queue' = 1..(n + 1)
      /\ frame_queue'[n + 1] = sink
      /\ \A i \in 1..n : frame_queue'[i] = frame_queue[i]
  <2>1. frame_queue \in Seq(FrameRef)
    BY Zenon, <1>0 DEF HeldInv
  <2>. QED
    BY <1>0, <2>1
<1> HIDE DEF n
<1>2. \A i \in 1..(n + 1) : i \in 1..n \/ i = n + 1
  BY <1>1
<1>3. \A ref : RefIsValid(ref)' <=> RefIsValid(ref)
  BY Zenon DEF RefIsValid, poolVars
<1>4. \A i \in DOMAIN frame_queue' : RefIsValid(frame_queue'[i])
  BY Zenon, <1>0, <1>1, <1>2 DEF HeldInv
<1>5. \A i \in 1..n : frame_queue[i].slot # sink.slot
  BY Zenon, <1>0, <1>1 DEF HeldInv, IsQueued, IsSinks
<1>6. \A i, j \in DOMAIN frame_queue' : frame_queue'[i].slot = frame_queue'[j].slot => i = j
  BY <1>0, <1>1, <1>2, <1>5 DEF HeldInv
<1>7. \A s \in Slots : /\ IsQueued(s)' <=> IsQueued(s) \/ IsSinks(s)
                       /\ IsPumps(s)' <=> IsPumps(s)
                       /\ ~IsSinks(s)'
  BY <1>1, <1>2 DEF IsQueued, IsPumps, IsSinks
<1>8. \A s \in Slots : /\ ~(IsQueued(s) /\ IsPumps(s))'
                       /\ in_use'[s] => (IsQueued(s) \/ IsSinks(s) \/ IsPumps(s))'
  BY Zenon, <1>0, <1>7 DEF HeldInv, poolVars
<1>9. pump' \in PumpState \cup {None} /\ (pump' # None => RefIsValid(pump.ref)')
  BY Zenon, <1>0, <1>3 DEF HeldInv
<1>10. \A i \in DOMAIN frame_queue' : RefIsValid(frame_queue[i])'
  BY Zenon, <1>4 DEF RefIsValid, poolVars
<1>11. HeldInv'
  BY Zenon, <1>1, <1>6, <1>7, <1>8, <1>9, <1>10 DEF HeldInv
<1>12. PoolInv'
  BY Zenon, <1>0 DEF PoolInv, IsFree, poolVars
<1>. QED
  BY Zenon, <1>11, <1>12 DEF OwnInv

\* pump_ingest takes the first frame of the queue.
LEMMA OwnAfterDequeue ==
    ASSUME OwnInv, pump = None, frame_queue # <<>>,
           pump' = [ref |-> Head(frame_queue), stage |-> "route"],
           frame_queue' = Tail(frame_queue), UNCHANGED <<poolVars, sink>>
    PROVE  OwnInv'
<1> DEFINE n == Len(frame_queue)
           ref == Head(frame_queue)
<1>0. PoolInv /\ HeldInv
  BY Zenon DEF OwnInv
<1>1. /\ frame_queue \in Seq(FrameRef) /\ n \in Nat \ {0} /\ DOMAIN frame_queue = 1..n
      /\ frame_queue' \in Seq(FrameRef) /\ DOMAIN frame_queue' = 1..(n - 1)
      /\ ref = frame_queue[1] /\ ref \in FrameRef
      /\ \A i \in 1..(n - 1) : frame_queue'[i] = frame_queue[i + 1]
  <2>1. frame_queue \in Seq(FrameRef)
    BY Zenon, <1>0 DEF HeldInv
  <2>. QED
    BY <2>1
<1> HIDE DEF n, ref
<1>2. \A i \in 1..n : i = 1 \/ (i - 1 \in 1..(n - 1) /\ (i - 1) + 1 = i)
  BY <1>1
<1>3. \A i \in 1..(n - 1) : i + 1 \in 1..n /\ i + 1 # 1
  BY <1>1
<1>4. pump' \in PumpState /\ pump'.ref = ref /\ pump' # None
  BY <1>1, PipelineAssumption DEF PumpState, ref
<1>5. \A r : RefIsValid(r)' <=> RefIsValid(r)
  BY Zenon DEF RefIsValid, poolVars
<1>6. RefIsValid(pump.ref)' /\ (sink' # None => RefIsValid(sink)')
  BY <1>0, <1>1, <1>4 DEF HeldInv, RefIsValid, poolVars
<1>7. \A i \in DOMAIN frame_queue' : RefIsValid(frame_queue[i])'
  BY <1>0, <1>1, <1>3 DEF HeldInv, RefIsValid, poolVars
<1>8. \A i, j \in DOMAIN frame_queue' : frame_queue'[i].slot = frame_queue'[j].slot => i = j
  BY <1>0, <1>1, <1>3 DEF HeldInv
<1>9. \A s \in Slots : /\ IsQueued(s) <=> IsQueued(s)' \/ IsPumps(s)'
                       /\ ~(IsQueued(s)' /\ IsPumps(s)')
                       /\ IsSinks(s)' <=> IsSinks(s)
                       /\ ~IsPumps(s)
  <2>1. \A s \in Slots : IsQueued(s)' <=> \E i \in 1..(n - 1) : frame_queue[i + 1].slot = s
    BY Zenon, <1>1 DEF IsQueued
  <2>2. \A s \in Slots : IsPumps(s)' <=> frame_queue[1].slot = s
    BY Zenon, <1>1, <1>4 DEF IsPumps
  <2>3. \A s \in Slots : IsQueued(s) <=> \E i \in 1..n : frame_queue[i].slot = s
    BY Zenon, <1>1 DEF IsQueued
  <2>4. \A s \in Slots : IsQueued(s) <=> IsQueued(s)' \/ IsPumps(s)'
    <3>1. \A s \in Slots : IsQueued(s)' \/ IsPumps(s)' => IsQueued(s)
      <4>1. 1 \in 1..n
        BY <1>1
      <4>. QED
        BY Zenon, <1>3, <2>1, <2>2, <2>3, <4>1
    <3>2. ASSUME NEW s \in Slots, NEW i \in 1..n, frame_queue[i].slot = s
          PROVE  IsQueued(s)' \/ IsPumps(s)'
      <4>1. CASE i = 1
        BY Zenon, <2>2, <3>2, <4>1
      <4>2. CASE i # 1
        <5>1. i - 1 \in 1..(n - 1) /\ (i - 1) + 1 = i
          BY Zenon, <1>2, <4>2
        <5>. QED
          BY Zenon, <2>1, <3>2, <5>1
      <4>. QED
        BY Zenon, <4>1, <4>2
    <3>. QED
      BY Zenon, <2>3, <3>1, <3>2
  <2>5. \A s \in Slots : ~(IsQueued(s)' /\ IsPumps(s)')
    BY <1>0, <1>1, <1>3, <2>1, <2>2 DEF HeldInv
  <2>. QED
    BY Zenon, <2>4, <2>5 DEF IsSinks, IsPumps
<1>10. \A s \in Slots : /\ ~(IsQueued(s) /\ IsSinks(s))'
                        /\ ~(IsQueued(s) /\ IsPumps(s))'
                        /\ ~(IsSinks(s) /\ IsPumps(s))'
                        /\ in_use'[s] => (IsQueued(s) \/ IsSinks(s) \/ IsPumps(s))'
  BY Zenon, <1>0, <1>9 DEF HeldInv, poolVars
<1>11. HeldInv'
  BY Zenon, <1>0, <1>1, <1>4, <1>6, <1>7, <1>8, <1>10 DEF HeldInv
<1>12. PoolInv'
  BY Zenon, <1>0 DEF PoolInv, IsFree, poolVars
<1>. QED
  BY Zenon, <1>11, <1>12 DEF OwnInv

\* Router::route reads the frame.
LEMMA OwnAfterRoute ==
    ASSUME OwnInv, pump # None, pump' = [pump EXCEPT !.stage = "release"],
           UNCHANGED <<poolVars, sink, frame_queue>>
    PROVE  OwnInv'
<1>0. PoolInv /\ HeldInv /\ pump \in PumpState
  BY Zenon, HeldTypes DEF OwnInv
<1>1. pump' \in PumpState /\ pump' # None /\ pump'.ref = pump.ref
  BY Zenon, <1>0, PipelineAssumption DEF PumpState
<1>2. \A s \in Slots : /\ IsQueued(s)' <=> IsQueued(s)
                       /\ IsPumps(s)' <=> IsPumps(s)
                       /\ IsSinks(s)' <=> IsSinks(s)
  BY Zenon, <1>1 DEF IsQueued, IsPumps, IsSinks
<1>3. PoolInv'
  BY Zenon, <1>0 DEF PoolInv, IsFree, poolVars
<1>4. HeldInv'
  BY Zenon, <1>0, <1>1, <1>2 DEF HeldInv, RefIsValid, poolVars
<1>. QED
  BY Zenon, <1>3, <1>4 DEF OwnInv

\* A step that moves no handle.
LEMMA OwnUnchanged ==
    ASSUME OwnInv, UNCHANGED <<poolVars, sink, frame_queue, pump>>
    PROVE  OwnInv'
BY DEF OwnInv, PoolInv, IsFree, HeldInv, IsQueued, IsSinks, IsPumps, RefIsValid, poolVars

\* Every step of every thread keeps each frame with one owner.
LEMMA OwnStep == OwnInv /\ [Next]_vars => OwnInv'
<1> SUFFICES ASSUME OwnInv, [Next]_vars PROVE OwnInv'
  BY Zenon
<1>1. ASSUME NEW kind, NEW m, NEW lots, push_message(kind, m, lots)
      PROVE  OwnInv'
  <2>1. sink = None /\ UNCHANGED <<frame_queue, pump>>
    BY Zenon, <1>1 DEF push_message
  <2>2. CASE CanAcquire
    <3>1. PICK content : acquire(content) /\ sink' = AcquiredRef
      BY Zenon, <1>1, <2>2 DEF push_message
    <3>. QED
      BY Zenon, <2>1, <3>1, OwnAfterAcquire
  <2>3. CASE ~CanAcquire
    BY Zenon, <1>1, <2>1, <2>3, OwnUnchanged DEF push_message
  <2>. QED
    BY Zenon, <2>2, <2>3
<1>2. CASE \E m \in Markets : ReceiveSnapshot(m) \/ ReceiveDelta(m) \/ ReceiveOther(m)
  BY Zenon, <1>1, <1>2 DEF ReceiveSnapshot, ReceiveDelta, ReceiveOther
<1>3. CASE Reconnect
  BY Zenon, <1>3, OwnUnchanged DEF Reconnect
<1>4. CASE PushFrame
  <2>1. CASE Len(frame_queue) < frame_queue_capacity - 1
    BY Zenon, <1>4, <2>1, OwnAfterEnqueue DEF PushFrame
  <2>2. CASE ~(Len(frame_queue) < frame_queue_capacity - 1)
    BY Zenon, <1>4, <2>2, OwnAfterSinkRelease DEF PushFrame
  <2>. QED
    BY Zenon, <2>1, <2>2
<1>5. CASE PumpPop
  BY Zenon, <1>5, OwnAfterDequeue DEF PumpPop
<1>6. CASE PumpRoute
  BY Zenon, <1>6, OwnAfterRoute DEF PumpRoute
<1>7. CASE PumpRelease
  BY Zenon, <1>7, OwnAfterPumpRelease DEF PumpRelease
<1>8. CASE \E shard \in Shards : Consume(shard) \/ StopShard(shard)
  BY Zenon, <1>8, OwnUnchanged DEF Consume, StopShard
<1>9. CASE Start
  BY Zenon, <1>9, OwnUnchanged DEF Start
<1>10. CASE UNCHANGED vars
  BY Zenon, <1>10, OwnUnchanged DEF vars
<1>. QED
  BY Zenon, <1>2, <1>3, <1>4, <1>5, <1>6, <1>7, <1>8, <1>9, <1>10 DEF Next, Pump

\* Every slot is free or has one holder, whatever the threads do.
THEOREM OwnInvariance == Spec => []OwnInv
<1>. QED
  BY OwnInitially, OwnStep, PTL DEF Spec

\* The handles in one line: those of the queue, then push_message's, then
\* pump_ingest's.
LEMMA HeldRefsLine ==
    ASSUME OwnInv
    PROVE  LET n == Len(frame_queue)
               k == n + (IF sink = None THEN 0 ELSE 1) + (IF pump = None THEN 0 ELSE 1)
           IN  /\ n \in Nat /\ DOMAIN frame_queue = 1..n
               /\ DOMAIN HeldRefs = 1..k
               /\ \A i \in 1..n : HeldRefs[i] = frame_queue[i]
               /\ sink # None => HeldRefs[n + 1] = sink
               /\ pump # None => HeldRefs[k] = pump.ref
<1> DEFINE n == Len(frame_queue)
<1>1. /\ frame_queue \in Seq(FrameRef) /\ n \in Nat /\ DOMAIN frame_queue = 1..n
      /\ sink # None => sink \in FrameRef
      /\ pump # None => pump.ref \in FrameRef
  BY HeldTypes DEF OwnInv, HeldInv
<1>2. CASE sink = None /\ pump = None
  <2>1. HeldRefs = frame_queue
    BY <1>1, <1>2 DEF HeldRefs
  <2>. QED
    BY <1>1, <1>2, <2>1
<1>3. CASE sink # None /\ pump = None
  <2>1. HeldRefs = frame_queue \o <<sink>>
    BY <1>1, <1>3 DEF HeldRefs
  <2>. QED
    BY <1>1, <1>3, <2>1
<1>4. CASE sink = None /\ pump # None
  <2>1. HeldRefs = frame_queue \o <<pump.ref>>
    BY <1>1, <1>4 DEF HeldRefs
  <2>. QED
    BY <1>1, <1>4, <2>1
<1>5. CASE sink # None /\ pump # None
  <2>1. HeldRefs = (frame_queue \o <<sink>>) \o <<pump.ref>>
    BY Zenon, <1>5 DEF HeldRefs
  <2>2. /\ frame_queue \o <<sink>> \in Seq(FrameRef)
        /\ Len(frame_queue \o <<sink>>) = n + 1
        /\ \A i \in 1..n : (frame_queue \o <<sink>>)[i] = frame_queue[i]
        /\ (frame_queue \o <<sink>>)[n + 1] = sink
    BY <1>1, <1>5
  <2> DEFINE q == frame_queue \o <<sink>>
  <2> HIDE DEF q
  <2>3. DOMAIN (q \o <<pump.ref>>) = 1..(n + 2)
        /\ \A i \in 1..(n + 1) : (q \o <<pump.ref>>)[i] = q[i]
        /\ (q \o <<pump.ref>>)[n + 2] = pump.ref
    BY <1>1, <1>5, <2>2 DEF q
  <2>. QED
    BY <1>1, <1>5, <2>1, <2>2, <2>3 DEF q
<1>. QED
  BY Zenon, <1>2, <1>3, <1>4, <1>5

\* Every held handle is valid, no two name one slot, and every slot in use has one.
LEMMA HeldRefsOwn ==
    ASSUME OwnInv
    PROVE  /\ \A i \in DOMAIN HeldRefs : RefIsValid(HeldRefs[i]) /\ HeldRefs[i].slot \in Slots
           /\ \A i, j \in DOMAIN HeldRefs : HeldRefs[i].slot = HeldRefs[j].slot => i = j
           /\ \A slot \in Slots :
                 in_use[slot] => \E i \in DOMAIN HeldRefs : HeldRefs[i].slot = slot
<1> DEFINE n == Len(frame_queue)
           k == n + (IF sink = None THEN 0 ELSE 1) + (IF pump = None THEN 0 ELSE 1)
<1>1. /\ n \in Nat /\ DOMAIN frame_queue = 1..n
      /\ DOMAIN HeldRefs = 1..k
      /\ \A i \in 1..n : HeldRefs[i] = frame_queue[i]
      /\ sink # None => HeldRefs[n + 1] = sink
      /\ pump # None => HeldRefs[k] = pump.ref
  BY Zenon, HeldRefsLine
<1>2. HeldInv
  BY Zenon DEF OwnInv
<1>3. /\ sink = None /\ pump = None => k = n
      /\ sink # None /\ pump = None => k = n + 1
      /\ sink = None /\ pump # None => k = n + 1
      /\ sink # None /\ pump # None => k = n + 2
  <2>1. n \in Nat
    BY Zenon, <1>1
  <2> HIDE DEF n
  <2>. QED
    BY <2>1
<1> HIDE DEF n, k
<1>4. /\ \A i \in 1..k : i \in 1..n \/ (i = n + 1 /\ sink # None) \/ (i = k /\ pump # None)
      /\ 1..n \subseteq 1..k
      /\ sink # None => n + 1 \in 1..k
      /\ pump # None => k \in 1..k
  <2>1. n \in Nat
    BY Zenon, <1>1
  <2>2. CASE sink = None /\ pump = None
    BY Zenon, <1>3, <2>1, <2>2
  <2>3. CASE sink # None /\ pump = None
    BY <1>3, <2>1, <2>3
  <2>4. CASE sink = None /\ pump # None
    BY <1>3, <2>1, <2>4
  <2>5. CASE sink # None /\ pump # None
    BY <1>3, <2>1, <2>5
  <2>. QED
    BY Zenon, <2>2, <2>3, <2>4, <2>5
<1>5. ASSUME NEW i \in 1..k
      PROVE  RefIsValid(HeldRefs[i]) /\ HeldRefs[i].slot \in Slots
  BY Zenon, <1>1, <1>2, <1>4, HeldTypes DEF HeldInv
<1>6. ASSUME NEW i \in 1..k
      PROVE  \/ i \in 1..n /\ HeldRefs[i] = frame_queue[i] /\ IsQueued(HeldRefs[i].slot)
             \/ sink # None /\ i = n + 1 /\ IsSinks(HeldRefs[i].slot)
             \/ pump # None /\ i = k /\ IsPumps(HeldRefs[i].slot)
  BY Zenon, <1>1, <1>4 DEF IsQueued, IsSinks, IsPumps
<1>7. ASSUME NEW i \in 1..k, NEW j \in 1..k, HeldRefs[i].slot = HeldRefs[j].slot
      PROVE  i = j
  <2>1. HeldRefs[i].slot \in Slots
    BY Zenon, <1>5
  <2>2. CASE i \in 1..n /\ HeldRefs[i] = frame_queue[i] /\ IsQueued(HeldRefs[i].slot)
    BY Zenon, <1>1, <1>2, <1>6, <1>7, <2>1, <2>2 DEF HeldInv
  <2>3. CASE sink # None /\ i = n + 1 /\ IsSinks(HeldRefs[i].slot)
    BY Zenon, <1>2, <1>6, <1>7, <2>1, <2>3 DEF HeldInv
  <2>4. CASE pump # None /\ i = k /\ IsPumps(HeldRefs[i].slot)
    BY Zenon, <1>2, <1>6, <1>7, <2>1, <2>4 DEF HeldInv
  <2>. QED
    BY Zenon, <1>6, <2>2, <2>3, <2>4
<1>8. ASSUME NEW slot \in Slots, in_use[slot]
      PROVE  \E i \in 1..k : HeldRefs[i].slot = slot
  <2>1. IsQueued(slot) \/ IsSinks(slot) \/ IsPumps(slot)
    BY Zenon, <1>2, <1>8 DEF HeldInv
  <2>2. CASE IsQueued(slot)
    BY Zenon, <1>1, <1>4, <2>2 DEF IsQueued
  <2>3. CASE IsSinks(slot)
    BY Zenon, <1>1, <1>4, <2>3 DEF IsSinks
  <2>4. CASE IsPumps(slot)
    BY Zenon, <1>1, <1>4, <2>4 DEF IsPumps
  <2>. QED
    BY Zenon, <2>1, <2>2, <2>3, <2>4
<1>. QED
  BY Zenon, <1>1, <1>5, <1>7, <1>8

-----------------------------------------------------------------------------
(* The messages on their way                                               *)

Message ==
    [kind : {"kSnapshot", "kDelta", "kTrade", "malformed", "control"}, market : Markets,
     seq : Nat, lots : Int, n : Nat]

IsEntering(x) == sink # None /\ x = slots[sink.slot]
IsWaiting(x) == \E i \in DOMAIN frame_queue : x = slots[frame_queue[i].slot]
IsPumped(x) == pump # None /\ pump.stage = "route" /\ x = slots[pump.ref.slot]
IsRouted(x) ==
    \E shard \in Shards : \E i \in DOMAIN shard_queue[shard] : x = shard_queue[shard][i]

IsUpstream(x) == IsEntering(x) \/ IsWaiting(x) \/ IsPumped(x)

\* the messages sent, not dropped, and not yet consumed by a shard
Flight == {x \in Message : IsUpstream(x) \/ IsRouted(x)}

\* Messages travel in the order they were sent in: first into the queue, then
\* to the pump, then to the queue of the shard of their market.
LineInv ==
    /\ shard_queue \in [Shards -> Seq(Message)]
    /\ \A shard \in Shards : \A i \in DOMAIN shard_queue[shard] :
          shard = ShardOf[shard_queue[shard][i].market]
    /\ \A x : IsUpstream(x) => x \in Message
    /\ \A shard \in Shards : \A i, j \in DOMAIN shard_queue[shard] :
          i < j => shard_queue[shard][i].n < shard_queue[shard][j].n
    /\ \A i, j \in DOMAIN frame_queue :
          i < j => slots[frame_queue[i].slot].n < slots[frame_queue[j].slot].n
    /\ \A x, y : IsRouted(x) /\ IsUpstream(y) => x.n < y.n
    /\ \A x, y : IsPumped(x) /\ (IsWaiting(y) \/ IsEntering(y)) => x.n < y.n
    /\ \A x, y : IsWaiting(x) /\ IsEntering(y) => x.n < y.n
    /\ \A x \in Flight : x.n \in 1..Len(truth)

-----------------------------------------------------------------------------
(* What the messages say                                                   *)

IsBookMessage(x) == x.kind \in {"kSnapshot", "kDelta"}

\* the number of the last message before the connection of x, and before the
\* current one
Base(x) == x.n - x.seq
CurrentBase == Len(truth) - seq

\* Between the messages b + 1 and e, which belong to one connection, only a
\* delta of m changes the quantity at the exchange; those that the book of m
\* was not given are still known.
Explained(m, b, e) ==
    \A k \in Nat :
        (b < k /\ k < e /\ applied[m].last <= k) =>
            \/ truth[k + 1][m] = truth[k][m]
            \/ \E y \in Flight \cup dropped :
                  y.kind = "kDelta" /\ y.market = m /\ y.n = k + 1

\* A snapshot of m was sent after b and before e.
SnapshotSent(m, b, e) ==
    \/ applied[m].snapshot > b
    \/ \E y \in Flight \cup dropped :
          y.kind = "kSnapshot" /\ y.market = m /\ b < y.n /\ y.n < e

FeedInv ==
    /\ truth \in Seq([Markets -> Nat]) /\ exchange \in [Markets -> Nat]
    /\ seq \in 0..Len(truth)
    /\ snapshotted \subseteq Markets
    /\ seq > 0 => truth[Len(truth)] = exchange
    /\ \A m \in Markets : Explained(m, CurrentBase, Len(truth))
    /\ \A m \in snapshotted : seq > 0 /\ SnapshotSent(m, CurrentBase, Len(truth) + 1)

MessageInv(x) ==
    /\ x.seq \in 1..x.n
    /\ Base(x) = CurrentBase \/ x.n <= CurrentBase
    /\ applied[x.market].last < x.n
    /\ \A y \in Flight : x.n < y.n => Base(x) = Base(y) \/ x.n <= Base(y)
    /\ x.kind = "kSnapshot" => x.lots = truth[x.n][x.market]
    /\ x.kind = "kDelta" =>
          /\ x.seq > 1
          /\ truth[x.n][x.market] = truth[x.n - 1][x.market] + x.lots
          /\ Explained(x.market, Base(x), x.n - 1)
          /\ SnapshotSent(x.market, Base(x), x.n)

AppliedInv ==
    /\ dropped \subseteq {x \in Message : IsBookMessage(x)}
    /\ applied \in [Markets -> [last : Nat, snapshot : Nat]]
    /\ \A m \in Markets : applied[m].snapshot <= applied[m].last
                            /\ applied[m].last <= Len(truth)

NoSnapshotLost(m) ==
    \A x \in dropped : x.market = m /\ x.kind = "kSnapshot" => x.n > applied[m].last

\* A book whose snapshots all arrived never had to buffer a delta, and has not
\* seen the sequence ids of the deltas to come.
BookOk(m, book) ==
    /\ DOMAIN book = DOMAIN Store!EmptyBook
    /\ book.pending_deltas = <<>> /\ book.desynced = FALSE
    /\ book.has_snapshot = (applied[m].snapshot > 0)
    /\ book.last_seq_id \in Nat \cup {None}
    /\ book.has_snapshot =>
          /\ book.last_seq_id \in Nat
          /\ applied[m].snapshot > CurrentBase => book.last_seq_id <= seq
          /\ \A x \in Flight :
                x.market = m /\ x.kind = "kDelta" /\ Base(x) < applied[m].snapshot =>
                    book.last_seq_id < x.seq

LevelsOf(qty) == IF qty = 0 THEN Store!NoLevels ELSE [price \in {kPrice} |-> qty]

BooksInv ==
    /\ DOMAIN books \subseteq Markets
    /\ \A m \in Markets : NoSnapshotLost(m) =>
          /\ BookOk(m, Store!BookOf(m))
          /\ (applied[m].snapshot > 0 /\ Undamaged(m)) =>
                Store!BookOf(m).bids = LevelsOf(truth[applied[m].last][m])

ContentInv == FeedInv /\ (\A x \in Flight : MessageInv(x)) /\ AppliedInv /\ BooksInv

-----------------------------------------------------------------------------
(* How a step moves the messages                                           *)

\* What is queued for a shard is a message.
LEMMA RoutedType ==
    ASSUME LineInv
    PROVE  /\ \A shard \in Shards : /\ shard_queue[shard] \in Seq(Message)
                                    /\ \A i \in DOMAIN shard_queue[shard] :
                                          shard_queue[shard][i] \in Message
           /\ \A x : IsRouted(x) => x \in Message
<1>1. \A shard \in Shards : shard_queue[shard] \in Seq(Message)
  BY Zenon DEF LineInv
<1>2. \A shard \in Shards : \A i \in DOMAIN shard_queue[shard] : shard_queue[shard][i] \in Message
  BY <1>1
<1>. QED
  BY Zenon, <1>1, <1>2 DEF IsRouted

\* A message is on its way exactly when some thread or queue has it.
LEMMA FlightIs ==
    ASSUME LineInv
    PROVE  \A x : x \in Flight <=> IsUpstream(x) \/ IsRouted(x)
BY Zenon, RoutedType DEF Flight, LineInv

\* Two states of the line with the same messages at the same places.
LEMMA LineKept ==
    ASSUME LineInv, UNCHANGED <<shard_queue, frame_queue>>, Len(truth') >= Len(truth),
           Len(truth) \in Nat, Len(truth') \in Nat,
           \A i \in DOMAIN frame_queue :
              slots'[frame_queue[i].slot] = slots[frame_queue[i].slot],
           \A x : IsEntering(x)' => IsEntering(x),
           \A x : IsPumped(x)' => IsPumped(x)
    PROVE  LineInv' /\ Flight' \subseteq Flight
<1>1. \A x : (IsRouted(x)' <=> IsRouted(x)) /\ (IsWaiting(x)' <=> IsWaiting(x))
  BY Zenon DEF IsRouted, IsWaiting
<1>2. \A x : IsUpstream(x)' => IsUpstream(x)
  BY Zenon, <1>1 DEF IsUpstream
<1>3. Flight' \subseteq Flight
  BY Zenon, <1>1, <1>2 DEF Flight
<1>4. \A x \in Flight' : x.n \in 1..Len(truth')
  BY <1>3 DEF LineInv
<1>5. /\ \A shard \in Shards : \A i, j \in DOMAIN shard_queue'[shard] :
            i < j => shard_queue'[shard][i].n < shard_queue'[shard][j].n
      /\ \A i, j \in DOMAIN frame_queue' :
            i < j => slots'[frame_queue'[i].slot].n < slots'[frame_queue'[j].slot].n
  BY Zenon DEF LineInv
<1>6. /\ \A x : IsUpstream(x)' => x \in Message
      /\ \A x, y : IsRouted(x)' /\ IsUpstream(y)' => x.n < y.n
      /\ \A x, y : IsPumped(x)' /\ (IsWaiting(y)' \/ IsEntering(y)') => x.n < y.n
      /\ \A x, y : IsWaiting(x)' /\ IsEntering(y)' => x.n < y.n
  BY Zenon, <1>1, <1>2 DEF LineInv
<1>7. /\ shard_queue' \in [Shards -> Seq(Message)]
      /\ \A shard \in Shards : \A i \in DOMAIN shard_queue'[shard] :
            shard = ShardOf[shard_queue'[shard][i].market]
  BY Zenon DEF LineInv
<1>. QED
  BY Zenon, <1>3, <1>4, <1>5, <1>6, <1>7 DEF LineInv

\* The message that push_message is called with.
Sent(kind, m, lots) ==
    [kind |-> kind, market |-> m, seq |-> seq + 1, lots |-> lots, n |-> Emitted + 1]

BookMessages(S) == {x \in S : IsBookMessage(x)}

\* push_message puts its message on the way or drops it.
LEMMA SendMoves ==
    ASSUME OwnInv, LineInv, truth \in Seq([Markets -> Nat]), exchange' \in [Markets -> Nat],
           seq \in Nat,
           NEW kind \in {"kSnapshot", "kDelta", "kTrade", "malformed", "control"},
           NEW m \in Markets, NEW lots \in Int, push_message(kind, m, lots)
    PROVE  /\ LineInv'
           /\ \/ Flight' = Flight \cup {Sent(kind, m, lots)} /\ dropped' = dropped
              \/ Flight' = Flight /\ dropped' = dropped \cup BookMessages({Sent(kind, m, lots)})
<1> DEFINE message == Sent(kind, m, lots)
<1>1. /\ Len(truth) \in Nat /\ Len(truth') = Len(truth) + 1 /\ message \in Message
      /\ message.n = Len(truth) + 1
  BY DEF push_message, Sent, Message, Emitted
<1>2. sink = None /\ UNCHANGED <<shard_queue, frame_queue, pump>>
  BY Zenon DEF push_message
<1>3. CASE CanAcquire
  <2>1. acquire(message) /\ sink' = AcquiredRef /\ dropped' = dropped
    BY Zenon, <1>3 DEF push_message, Sent
  <2>2. PoolInv /\ HeldInv
    BY Zenon DEF OwnInv
  <2>3. /\ AcquiredRef \in FrameRef /\ AcquiredRef.slot \in Slots
        /\ ~in_use[AcquiredRef.slot]
        /\ slots'[AcquiredRef.slot] = message
        /\ \A slot \in Slots \ {AcquiredRef.slot} : slots'[slot] = slots[slot]
    BY Zenon, <2>1, <2>2, AcquireSlot DEF FrameRef
  <2>4. sink' # None /\ slots'[sink'.slot] = message
    BY Zenon, <2>1, <2>3, PipelineAssumption
  <2> HIDE DEF message
  <2>5. /\ \A i \in DOMAIN frame_queue :
              slots'[frame_queue[i].slot] = slots[frame_queue[i].slot]
        /\ pump # None => slots'[pump.ref.slot] = slots[pump.ref.slot]
    BY Zenon, <2>2, <2>3, HeldTypes DEF HeldInv, RefIsValid
  <2>6. \A x : /\ IsEntering(x)' <=> x = message
               /\ ~IsEntering(x)
               /\ IsWaiting(x)' <=> IsWaiting(x)
               /\ IsPumped(x)' <=> IsPumped(x)
               /\ IsRouted(x)' <=> IsRouted(x)
    BY Zenon, <1>2, <2>4, <2>5 DEF IsEntering, IsWaiting, IsPumped, IsRouted
  <2>7. \A x : IsUpstream(x)' <=> IsUpstream(x) \/ x = message
    BY Zenon, <2>6 DEF IsUpstream
  <2>8. Flight' = Flight \cup {message}
    BY Zenon, <1>1, <2>6, <2>7 DEF Flight
  <2>9. \A x : IsUpstream(x) \/ IsRouted(x) => x.n < message.n
    BY <1>1, FlightIs DEF LineInv
  <2>10. \A x \in Flight' : x.n \in 1..Len(truth')
    BY <1>1, <2>8 DEF LineInv
  <2>11. /\ \A i, j \in DOMAIN frame_queue' :
               i < j => slots'[frame_queue'[i].slot].n < slots'[frame_queue'[j].slot].n
         /\ \A shard \in Shards : \A i, j \in DOMAIN shard_queue'[shard] :
               i < j => shard_queue'[shard][i].n < shard_queue'[shard][j].n
         /\ shard_queue' \in [Shards -> Seq(Message)]
         /\ \A shard \in Shards : \A i \in DOMAIN shard_queue'[shard] :
               shard = ShardOf[shard_queue'[shard][i].market]
    BY Zenon, <1>2, <2>5 DEF LineInv
  <2>12. /\ \A x : IsUpstream(x)' => x \in Message
         /\ \A x, y : IsRouted(x)' /\ IsUpstream(y)' => x.n < y.n
         /\ \A x, y : IsPumped(x)' /\ (IsWaiting(y)' \/ IsEntering(y)') => x.n < y.n
         /\ \A x, y : IsWaiting(x)' /\ IsEntering(y)' => x.n < y.n
    BY Zenon, <1>1, <2>6, <2>7, <2>9 DEF LineInv, IsUpstream
  <2>13. LineInv'
    BY Zenon, <2>10, <2>11, <2>12 DEF LineInv
  <2>. QED
    BY Zenon, <2>1, <2>8, <2>13 DEF message
<1>4. CASE ~CanAcquire
  <2>1. UNCHANGED <<poolVars, sink>> /\ dropped' = dropped \cup BookMessages({message})
    BY Zenon, <1>4 DEF push_message, Sent, Drop, BookMessages, IsBookMessage
  <2>2. UNCHANGED slots
    BY Zenon, <2>1 DEF poolVars
  <2>3. \A x : /\ IsEntering(x)' <=> IsEntering(x)
               /\ IsPumped(x)' <=> IsPumped(x)
               /\ IsUpstream(x)' <=> IsUpstream(x)
               /\ IsRouted(x)' <=> IsRouted(x)
    BY Zenon, <1>2, <2>1, <2>2 DEF IsEntering, IsWaiting, IsPumped, IsRouted, IsUpstream
  <2>4. Flight' = Flight
    BY Zenon, <2>3 DEF Flight
  <2>5. LineInv'
    BY <1>1, <1>2, <2>2, <2>3, LineKept
  <2>. QED
    BY Zenon, <2>1, <2>4, <2>5
<1>. QED
  BY Zenon, <1>3, <1>4

\* No snapshot or delta disappears: it is still on its way or it was dropped.
Kept ==
    /\ Flight' \subseteq Flight
    /\ dropped \subseteq dropped' /\ dropped' \subseteq dropped \cup BookMessages(Flight)
    /\ BookMessages(Flight) \subseteq Flight' \cup dropped'

\* A handle that is given back: the frames of the others keep their messages.
LEMMA ReleaseKeepsOthers ==
    ASSUME OwnInv, NEW ref \in FrameRef, RefIsValid(ref), release(ref),
           NEW slot \in Slots, slot # ref.slot
    PROVE  slots'[slot] = slots[slot]
BY Zenon, ReleaseSlot DEF OwnInv

\* The second half of push_message: the message waits in the frame queue or is
\* dropped with its frame.
LEMMA PushFrameMoves ==
    ASSUME OwnInv, LineInv, Len(truth) \in Nat, PushFrame
    PROVE  LineInv' /\ Kept
<1> DEFINE message == slots[sink.slot]
<1>1. /\ sink # None /\ sink' = None /\ UNCHANGED <<shard_queue, pump, truth>>
      /\ OwnInv /\ HeldInv /\ sink \in FrameRef /\ sink.slot \in Slots /\ RefIsValid(sink)
  BY Zenon, HeldTypes DEF PushFrame, OwnInv, HeldInv, feedVars
<1>2. CASE Len(frame_queue) < frame_queue_capacity - 1
  <2> DEFINE n == Len(frame_queue)
  <2>1. /\ frame_queue' = Append(frame_queue, sink) /\ dropped' = dropped /\ slots' = slots
    BY Zenon, <1>2 DEF PushFrame, poolVars
  <2>2. /\ n \in Nat /\ DOMAIN frame_queue = 1..n
        /\ DOMAIN frame_queue' = 1..(n + 1)
        /\ frame_queue'[n + 1] = sink
        /\ \A i \in 1..n : frame_queue'[i] = frame_queue[i]
    <3>1. frame_queue \in Seq(FrameRef)
      BY Zenon, <1>1 DEF HeldInv
    <3>. QED
      BY <1>1, <2>1, <3>1
  <2> HIDE DEF n
  <2>3. \A i \in 1..(n + 1) : i \in 1..n \/ i = n + 1
    BY <2>2
  <2>4. \A x : /\ ~IsEntering(x)'
               /\ IsWaiting(x)' <=> IsWaiting(x) \/ IsEntering(x)
               /\ IsPumped(x)' <=> IsPumped(x)
               /\ IsRouted(x)' <=> IsRouted(x)
    BY <1>1, <2>1, <2>2, <2>3 DEF IsEntering, IsWaiting, IsPumped, IsRouted
  <2>5. \A x : IsUpstream(x)' <=> IsUpstream(x)
    BY Zenon, <2>4 DEF IsUpstream
  <2>6. Flight' = Flight
    BY Zenon, <2>4, <2>5 DEF Flight
  <2>7. \A i, j \in DOMAIN frame_queue' :
            i < j => slots'[frame_queue'[i].slot].n < slots'[frame_queue'[j].slot].n
    <3>1. \A i \in 1..n : slots[frame_queue[i].slot].n < message.n
      BY Zenon, <1>1, <2>2 DEF LineInv, IsWaiting, IsEntering
    <3>2. \A i, j \in 1..n : i < j => slots[frame_queue[i].slot].n < slots[frame_queue[j].slot].n
      BY Zenon, <2>2 DEF LineInv
    <3>3. \A i, j \in 1..(n + 1) : i < j => i \in 1..n
      BY <2>2
    <3>. QED
      BY <2>1, <2>2, <2>3, <3>1, <3>2, <3>3
  <2>8. /\ \A x : IsUpstream(x)' => x \in Message
        /\ \A x, y : IsRouted(x)' /\ IsUpstream(y)' => x.n < y.n
        /\ \A x, y : IsPumped(x)' /\ (IsWaiting(y)' \/ IsEntering(y)') => x.n < y.n
        /\ \A x, y : IsWaiting(x)' /\ IsEntering(y)' => x.n < y.n
    BY Zenon, <2>4, <2>5 DEF LineInv
  <2>9. /\ \A shard \in Shards : \A i, j \in DOMAIN shard_queue'[shard] :
              i < j => shard_queue'[shard][i].n < shard_queue'[shard][j].n
        /\ shard_queue' \in [Shards -> Seq(Message)]
        /\ \A shard \in Shards : \A i \in DOMAIN shard_queue'[shard] :
              shard = ShardOf[shard_queue'[shard][i].market]
        /\ \A x \in Flight' : x.n \in 1..Len(truth')
    BY Zenon, <1>1, <2>6 DEF LineInv
  <2>10. LineInv'
    BY Zenon, <2>7, <2>8, <2>9 DEF LineInv
  <2>. QED
    BY Zenon, <2>1, <2>6, <2>10 DEF Kept, BookMessages
<1>3. CASE ~(Len(frame_queue) < frame_queue_capacity - 1)
  <2>1. /\ release(sink) /\ frame_queue' = frame_queue
        /\ dropped' = dropped \cup BookMessages({message})
    BY Zenon, <1>3 DEF PushFrame, Drop, BookMessages, IsBookMessage
  <2>2. /\ \A i \in DOMAIN frame_queue :
              slots'[frame_queue[i].slot] = slots[frame_queue[i].slot]
        /\ pump # None => slots'[pump.ref.slot] = slots[pump.ref.slot]
    <3>1. /\ \A i \in DOMAIN frame_queue : frame_queue[i].slot # sink.slot
          /\ pump # None => pump.ref.slot # sink.slot
      BY Zenon, <1>1 DEF HeldInv, IsQueued, IsSinks, IsPumps
    <3>. QED
      BY Zenon, <1>1, <2>1, <3>1, HeldTypes, ReleaseKeepsOthers
  <2>3. \A x : /\ ~IsEntering(x)' /\ (IsEntering(x) <=> x = message)
               /\ IsWaiting(x)' <=> IsWaiting(x)
               /\ IsPumped(x)' <=> IsPumped(x)
               /\ IsRouted(x)' <=> IsRouted(x)
    BY Zenon, <1>1, <2>1, <2>2 DEF IsEntering, IsWaiting, IsPumped, IsRouted
  <2>4. LineInv' /\ Flight' \subseteq Flight
    BY <1>1, <2>1, <2>2, <2>3, LineKept
  <2> HIDE DEF message
  <2>5. message \in Flight /\ Flight \subseteq Flight' \cup {message}
    BY Zenon, <2>3 DEF Flight, IsUpstream, LineInv
  <2>. QED
    BY Zenon, <2>1, <2>4, <2>5 DEF Kept, BookMessages
<1>. QED
  BY Zenon, <1>2, <1>3

\* pump_ingest takes the oldest message of the frame queue.
LEMMA PumpPopMoves ==
    ASSUME OwnInv, LineInv, Len(truth) \in Nat, PumpPop
    PROVE  LineInv' /\ Kept
<1> DEFINE n == Len(frame_queue)
           ref == Head(frame_queue)
<1>1. /\ pump = None /\ frame_queue # <<>> /\ frame_queue' = Tail(frame_queue)
      /\ pump' = [ref |-> ref, stage |-> "route"]
      /\ UNCHANGED <<slots, shard_queue, truth, sink, dropped>> /\ HeldInv
  BY Zenon DEF PumpPop, OwnInv, feedVars, poolVars
<1>2. /\ n \in Nat \ {0} /\ DOMAIN frame_queue = 1..n
      /\ DOMAIN frame_queue' = 1..(n - 1)
      /\ ref = frame_queue[1] /\ ref \in FrameRef
      /\ \A i \in 1..(n - 1) : frame_queue'[i] = frame_queue[i + 1]
  <2>1. frame_queue \in Seq(FrameRef) /\ frame_queue # <<>>
    BY Zenon, <1>1 DEF HeldInv
  <2>. QED
    BY <1>1, <2>1
<1>3. pump' # None /\ pump'.ref = ref /\ pump'.stage = "route"
  <2>1. pump' \in PumpState
    BY Zenon, <1>1, <1>2 DEF PumpState
  <2>. QED
    BY Zenon, <1>1, <2>1, PipelineAssumption
<1> HIDE DEF n, ref
<1>4. \A i \in 1..n : i = 1 \/ (i - 1 \in 1..(n - 1) /\ (i - 1) + 1 = i)
  BY <1>2
<1>5. \A i \in 1..(n - 1) : i + 1 \in 1..n /\ 1 < i + 1
  BY <1>2
<1>6. \A x : /\ IsPumped(x)' <=> x = slots[frame_queue[1].slot]
             /\ ~IsPumped(x)
             /\ IsWaiting(x)' <=> \E i \in 1..(n - 1) : x = slots[frame_queue[i + 1].slot]
             /\ IsEntering(x)' <=> IsEntering(x)
             /\ IsRouted(x)' <=> IsRouted(x)
  <2>1. \A x : (IsPumped(x)' <=> x = slots[frame_queue[1].slot]) /\ ~IsPumped(x)
    BY Zenon, <1>1, <1>2, <1>3 DEF IsPumped
  <2>2. \A x : IsWaiting(x)' <=> \E i \in 1..(n - 1) : x = slots[frame_queue[i + 1].slot]
    BY Zenon, <1>1, <1>2 DEF IsWaiting
  <2>3. \A x : (IsEntering(x)' <=> IsEntering(x)) /\ (IsRouted(x)' <=> IsRouted(x))
    BY Zenon, <1>1 DEF IsEntering, IsRouted
  <2>. QED
    BY Zenon, <2>1, <2>2, <2>3
<1>7. \A x : IsWaiting(x) <=> IsWaiting(x)' \/ IsPumped(x)'
  <2>1. 1 \in 1..n
    BY <1>2
  <2>2. \A x : IsWaiting(x)' \/ IsPumped(x)' => IsWaiting(x)
    BY Zenon, <1>2, <1>5, <1>6, <2>1 DEF IsWaiting
  <2>3. ASSUME NEW x, NEW i \in 1..n, x = slots[frame_queue[i].slot]
        PROVE  IsWaiting(x)' \/ IsPumped(x)'
    <3>1. CASE i = 1
      BY Zenon, <1>6, <2>3, <3>1
    <3>2. CASE i # 1
      <4>1. i - 1 \in 1..(n - 1) /\ (i - 1) + 1 = i
        BY Zenon, <1>4, <3>2
      <4>. QED
        BY Zenon, <1>6, <2>3, <4>1
    <3>. QED
      BY Zenon, <3>1, <3>2
  <2>. QED
    BY Zenon, <1>2, <2>2, <2>3 DEF IsWaiting
<1>8. \A x : IsUpstream(x)' <=> IsUpstream(x)
  BY Zenon, <1>6, <1>7 DEF IsUpstream
<1>9. Flight' = Flight
  BY Zenon, <1>6, <1>8 DEF Flight
<1>10. \A i, j \in DOMAIN frame_queue' :
           i < j => slots'[frame_queue'[i].slot].n < slots'[frame_queue'[j].slot].n
  <2>1. \A i, j \in 1..n : i < j => slots[frame_queue[i].slot].n < slots[frame_queue[j].slot].n
    BY Zenon, <1>2 DEF LineInv
  <2>2. \A i, j \in 1..(n - 1) : i < j => i + 1 < j + 1
    BY <1>2
  <2>. QED
    BY <1>1, <1>2, <1>5, <2>1, <2>2
<1>11. \A x, y : IsPumped(x)' /\ (IsWaiting(y)' \/ IsEntering(y)') => x.n < y.n
  <2>1. \A x, y : IsPumped(x)' /\ IsWaiting(y)' => x.n < y.n
    <3>1. \A i \in 1..(n - 1) : slots[frame_queue[1].slot].n < slots[frame_queue[i + 1].slot].n
      <4>1. 1 \in 1..n
        BY <1>2
      <4>. QED
        BY Zenon, <1>2, <1>5, <4>1 DEF LineInv
    <3>. QED
      BY <1>6, <3>1
  <2>2. \A x, y : IsPumped(x)' /\ IsEntering(y)' => x.n < y.n
    BY Zenon, <1>6, <1>7 DEF LineInv
  <2>. QED
    BY Zenon, <2>1, <2>2
<1>12. /\ \A x : IsUpstream(x)' => x \in Message
       /\ \A x, y : IsRouted(x)' /\ IsUpstream(y)' => x.n < y.n
       /\ \A x, y : IsWaiting(x)' /\ IsEntering(y)' => x.n < y.n
  BY Zenon, <1>6, <1>7, <1>8 DEF LineInv
<1>13. /\ \A shard \in Shards : \A i, j \in DOMAIN shard_queue'[shard] :
             i < j => shard_queue'[shard][i].n < shard_queue'[shard][j].n
       /\ shard_queue' \in [Shards -> Seq(Message)]
       /\ \A shard \in Shards : \A i \in DOMAIN shard_queue'[shard] :
             shard = ShardOf[shard_queue'[shard][i].market]
       /\ \A x \in Flight' : x.n \in 1..Len(truth')
  BY Zenon, <1>1, <1>9 DEF LineInv
<1>14. LineInv'
  BY Zenon, <1>10, <1>11, <1>12, <1>13 DEF LineInv
<1>. QED
  BY Zenon, <1>1, <1>9, <1>14 DEF Kept, BookMessages

\* Router::route hands the message of the pump to its shard or drops it; others
\* than book messages may vanish.
LEMMA PumpRouteMoves ==
    ASSUME OwnInv, LineInv, Len(truth) \in Nat, PumpRoute
    PROVE  LineInv' /\ Kept
<1> DEFINE message == slots[pump.ref.slot]
           shard == ShardOf[message.market]
<1>1. /\ pump # None /\ pump.stage = "route" /\ pump' = [pump EXCEPT !.stage = "release"]
      /\ UNCHANGED <<slots, frame_queue, truth, sink>> /\ pump \in PumpState
  BY Zenon, HeldTypes DEF PumpRoute, OwnInv, HeldInv, feedVars, poolVars
<1>2. pump'.stage = "release"
  BY Zenon, <1>1 DEF PumpState
<1>3. IsPumped(message) /\ message \in Message /\ shard \in Shards
  <2>1. IsPumped(message)
    BY Zenon, <1>1 DEF IsPumped
  <2>2. message \in Message
    BY Zenon, <2>1 DEF LineInv, IsUpstream
  <2>. QED
    BY Zenon, <2>1, <2>2, PipelineAssumption DEF Message
<1>4. \A x : /\ ~IsPumped(x)' /\ (IsPumped(x) <=> x = message)
             /\ IsWaiting(x)' <=> IsWaiting(x)
             /\ IsEntering(x)' <=> IsEntering(x)
  BY Zenon, <1>1, <1>2 DEF IsPumped, IsWaiting, IsEntering
<1>5. CASE UNCHANGED shard_queue /\ dropped' = dropped \cup BookMessages({message})
  <2>1. LineInv' /\ Flight' \subseteq Flight
    BY <1>1, <1>4, <1>5, LineKept
  <2>2. \A x : IsRouted(x)' <=> IsRouted(x)
    BY Zenon, <1>5 DEF IsRouted
  <2> HIDE DEF message
  <2>3. message \in Flight /\ Flight \subseteq Flight' \cup {message}
    BY Zenon, <1>3, <1>4, <2>2 DEF Flight, IsUpstream
  <2>. QED
    BY Zenon, <1>5, <2>1, <2>3 DEF Kept, BookMessages
<1>6. CASE /\ shard_queue' = [shard_queue EXCEPT ![shard] = Append(@, message)]
           /\ dropped' = dropped
  <2> DEFINE q == shard_queue[shard]
             n == Len(q)
  <2>1. /\ q \in Seq(Message) /\ n \in Nat /\ DOMAIN q = 1..n
        /\ Append(q, message) \in Seq(Message) /\ DOMAIN Append(q, message) = 1..(n + 1)
        /\ Append(q, message)[n + 1] = message
        /\ \A i \in 1..n : Append(q, message)[i] = q[i]
    <3>1. q \in Seq(Message)
      BY Zenon, <1>3, RoutedType
    <3> HIDE DEF q, message
    <3>. QED
      BY <1>3, <3>1
  <2>2. /\ shard_queue \in [Shards -> Seq(Message)]
        /\ shard_queue' \in [Shards -> Seq(Message)]
        /\ shard_queue'[shard] = Append(q, message)
        /\ \A s \in Shards \ {shard} : shard_queue'[s] = shard_queue[s]
    <3>1. shard_queue \in [Shards -> Seq(Message)]
      BY Zenon DEF LineInv
    <3> HIDE DEF message
    <3>. QED
      BY Zenon, <1>3, <1>6, <2>1, <3>1
  <2> HIDE DEF n, shard, message
  <2>3. \A i \in 1..(n + 1) : i \in 1..n \/ i = n + 1
    BY <2>1
  <2>4. \A s \in Shards : \A i \in DOMAIN shard_queue'[s] :
          \/ i \in DOMAIN shard_queue[s] /\ shard_queue'[s][i] = shard_queue[s][i]
          \/ s = shard /\ i = n + 1 /\ shard_queue'[s][i] = message
    BY Zenon, <2>1, <2>2, <2>3
  <2>5. \A x : IsRouted(x)' <=> IsRouted(x) \/ x = message
    <3>1. \A x : IsRouted(x)' => IsRouted(x) \/ x = message
      BY Zenon, <2>4 DEF IsRouted
    <3>2. \A s \in Shards : \A i \in DOMAIN shard_queue[s] :
             i \in DOMAIN shard_queue'[s] /\ shard_queue'[s][i] = shard_queue[s][i]
      <4>1. \A i \in 1..n : i \in 1..(n + 1)
        BY <2>1
      <4>2. \A i \in DOMAIN q : i \in DOMAIN shard_queue'[shard] /\ shard_queue'[shard][i] = q[i]
        BY Zenon, <2>1, <2>2, <4>1
      <4>. QED
        BY Zenon, <2>2, <4>2
    <3>3. n + 1 \in DOMAIN shard_queue'[shard] /\ shard_queue'[shard][n + 1] = message
      BY <2>1, <2>2
    <3>. QED
      BY Zenon, <1>3, <3>1, <3>2, <3>3 DEF IsRouted
  <2>6. Flight' = Flight
    BY Zenon, <1>3, <1>4, <2>5 DEF Flight, IsUpstream
  <2>7. \A x : IsRouted(x) => x.n < message.n
    BY Zenon, <1>3 DEF LineInv, IsUpstream
  <2>8. \A s \in Shards : \A i, j \in DOMAIN shard_queue'[s] :
            i < j => shard_queue'[s][i].n < shard_queue'[s][j].n
    <3>1. SUFFICES ASSUME NEW s \in Shards, NEW i \in DOMAIN shard_queue'[s],
                          NEW j \in DOMAIN shard_queue'[s], i < j
                   PROVE  shard_queue'[s][i].n < shard_queue'[s][j].n
      BY Zenon
    <3>2. CASE s # shard
      BY Zenon, <2>2, <3>1, <3>2 DEF LineInv
    <3>3. CASE s = shard
      <4>1. i \in 1..(n + 1) /\ j \in 1..(n + 1) /\ i \in 1..n
        BY <2>1, <2>2, <3>1, <3>3
      <4>2. shard_queue'[s][i] = q[i] /\ IsRouted(q[i])
        BY Zenon, <1>3, <2>1, <2>2, <3>3, <4>1 DEF IsRouted
      <4>3. CASE j = n + 1
        BY Zenon, <2>1, <2>2, <2>7, <3>3, <4>2, <4>3
      <4>4. CASE j \in 1..n
        <5>1. \A a, b \in DOMAIN q : a < b => q[a].n < q[b].n
          BY Zenon, <1>3 DEF LineInv
        <5>2. i \in DOMAIN q /\ j \in DOMAIN q
          BY Zenon, <2>1, <4>1, <4>4
        <5>3. q[i].n < q[j].n
          BY Zenon, <3>1, <5>1, <5>2
        <5>. QED
          BY Zenon, <2>1, <2>2, <3>3, <4>2, <4>4, <5>3
      <4>. QED
        BY Zenon, <2>3, <4>1, <4>3, <4>4
    <3>. QED
      BY Zenon, <3>2, <3>3
  <2>9. \A s \in Shards : \A i \in DOMAIN shard_queue'[s] :
            s = ShardOf[shard_queue'[s][i].market]
    <3>1. shard = ShardOf[message.market]
      BY Zenon DEF shard
    <3>. QED
      BY Zenon, <2>4, <3>1 DEF LineInv
  <2>10. /\ \A x : IsUpstream(x)' => x \in Message
         /\ \A x, y : IsRouted(x)' /\ IsUpstream(y)' => x.n < y.n
         /\ \A x, y : IsWaiting(x)' /\ IsEntering(y)' => x.n < y.n
    BY Zenon, <1>3, <1>4, <2>5 DEF LineInv, IsUpstream
  <2>11. /\ \A i, j \in DOMAIN frame_queue' :
               i < j => slots'[frame_queue'[i].slot].n < slots'[frame_queue'[j].slot].n
         /\ \A x \in Flight' : x.n \in 1..Len(truth')
    BY Zenon, <1>1, <2>6 DEF LineInv
  <2>12. LineInv'
    BY Zenon, <1>4, <2>2, <2>8, <2>9, <2>10, <2>11 DEF LineInv
  <2>. QED
    BY Zenon, <1>6, <2>6, <2>12 DEF Kept, BookMessages
<1>. QED
  BY Zenon, <1>5, <1>6 DEF PumpRoute, Drop, BookMessages, IsBookMessage

\* The frame goes back to the pool when its message has left it.
LEMMA PumpReleaseMoves ==
    ASSUME OwnInv, LineInv, Len(truth) \in Nat, PumpRelease
    PROVE  LineInv' /\ Kept
<1>1. /\ pump # None /\ pump.stage = "release" /\ release(pump.ref) /\ pump' = None
      /\ UNCHANGED <<frame_queue, sink, shard_queue, truth, dropped>>
      /\ HeldInv /\ pump.ref \in FrameRef /\ pump.ref.slot \in Slots /\ RefIsValid(pump.ref)
  BY Zenon, HeldTypes DEF PumpRelease, OwnInv, HeldInv, feedVars
<1>2. /\ \A i \in DOMAIN frame_queue : frame_queue[i].slot # pump.ref.slot
      /\ sink # None => sink.slot # pump.ref.slot
  BY Zenon, <1>1 DEF HeldInv, IsQueued, IsSinks, IsPumps
<1>3. /\ \A i \in DOMAIN frame_queue : slots'[frame_queue[i].slot] = slots[frame_queue[i].slot]
      /\ sink # None => slots'[sink.slot] = slots[sink.slot]
  BY Zenon, <1>1, <1>2, HeldTypes, ReleaseKeepsOthers
<1>4. \A x : /\ ~IsPumped(x)' /\ ~IsPumped(x)
             /\ IsWaiting(x)' <=> IsWaiting(x)
             /\ IsEntering(x)' <=> IsEntering(x)
             /\ IsRouted(x)' <=> IsRouted(x)
  BY Zenon, <1>1, <1>3 DEF IsPumped, IsWaiting, IsEntering, IsRouted
<1>5. LineInv'
  BY <1>1, <1>3, <1>4, LineKept
<1>6. Flight' = Flight
  BY Zenon, <1>4 DEF Flight, IsUpstream
<1>. QED
  BY Zenon, <1>1, <1>5, <1>6 DEF Kept, BookMessages

\* A shard takes the oldest message of its market.
LEMMA ConsumeMoves ==
    ASSUME LineInv, Len(truth) \in Nat, NEW shard \in Shards, Consume(shard),
           NEW x, x = Head(shard_queue[shard])
    PROVE  /\ LineInv' /\ dropped' = dropped
           /\ x \in Flight /\ Flight' \subseteq Flight /\ Flight \subseteq Flight' \cup {x}
           /\ \A y \in Flight' : y.market = x.market => x.n < y.n
<1> DEFINE q == shard_queue[shard]
           n == Len(q)
<1>1. /\ q # <<>> /\ shard_queue' = [shard_queue EXCEPT ![shard] = Tail(@)]
      /\ UNCHANGED <<slots, frame_queue, truth, sink, pump>>
  BY Zenon DEF Consume, feedVars, poolVars
<1>2. /\ q \in Seq(Message) /\ Tail(q) \in Seq(Message) /\ n \in Nat \ {0}
      /\ DOMAIN q = 1..n /\ DOMAIN Tail(q) = 1..(n - 1)
      /\ x = q[1] /\ \A i \in 1..(n - 1) : Tail(q)[i] = q[i + 1]
  <2>1. q \in Seq(Message) /\ q # <<>>
    BY Zenon, <1>1, RoutedType
  <2> HIDE DEF q
  <2>2. x = Head(q)
    BY Zenon DEF q
  <2>. QED
    BY <2>1, <2>2
<1>3. /\ shard_queue' \in [Shards -> Seq(Message)]
      /\ shard_queue'[shard] = Tail(q)
      /\ \A s \in Shards \ {shard} : shard_queue'[s] = shard_queue[s]
  <2>1. shard_queue \in [Shards -> Seq(Message)]
    BY Zenon DEF LineInv
  <2>. QED
    BY Zenon, <1>1, <1>2, <2>1
<1> HIDE DEF n
<1>4. \A i \in 1..(n - 1) : i + 1 \in 1..n /\ 1 < i + 1
  BY <1>2
<1>5. 1 \in 1..n /\ \A i \in 1..n : i = 1 \/ (i - 1 \in 1..(n - 1) /\ (i - 1) + 1 = i)
  BY <1>2
<1>6. \A i \in DOMAIN shard_queue'[shard] :
         /\ i \in 1..(n - 1) /\ i + 1 \in DOMAIN q
         /\ shard_queue'[shard][i] = q[i + 1]
  BY Zenon, <1>2, <1>3, <1>4
<1>7. IsRouted(x) /\ x \in Message
  BY Zenon, <1>2, <1>5, RoutedType DEF IsRouted
<1>8. \A y : IsRouted(y)' => IsRouted(y) /\ (y.market = x.market => x.n < y.n)
  <2>1. SUFFICES ASSUME NEW s \in Shards, NEW i \in DOMAIN shard_queue'[s]
                 PROVE  /\ IsRouted(shard_queue'[s][i])
                        /\ shard_queue'[s][i].market = x.market => x.n < shard_queue'[s][i].n
    BY DEF IsRouted
  <2>2. CASE s = shard
    <3>1. shard_queue'[s][i] = q[i + 1] /\ i + 1 \in DOMAIN q /\ i \in 1..(n - 1)
      BY Zenon, <1>6, <2>2
    <3>2. q[1].n < q[i + 1].n
      BY Zenon, <1>2, <1>4, <1>5, <3>1 DEF LineInv
    <3>. QED
      BY Zenon, <1>2, <3>1, <3>2 DEF IsRouted
  <2>3. CASE s # shard
    <3>1. i \in DOMAIN shard_queue[s] /\ shard_queue'[s][i] = shard_queue[s][i]
      BY Zenon, <1>3, <2>3
    <3>2. s = ShardOf[shard_queue[s][i].market] /\ shard = ShardOf[x.market]
      BY <1>2, <1>5, <3>1 DEF LineInv
    <3>. QED
      BY Zenon, <2>3, <3>1, <3>2 DEF IsRouted
  <2>. QED
    BY Zenon, <2>2, <2>3
<1>9. \A y : IsRouted(y) => IsRouted(y)' \/ y = x
  <2>1. SUFFICES ASSUME NEW y, NEW s \in Shards, NEW i \in DOMAIN shard_queue[s],
                        y = shard_queue[s][i]
                 PROVE  IsRouted(y)' \/ y = x
    BY Zenon DEF IsRouted
  <2>2. CASE s # shard
    BY Zenon, <1>3, <2>1, <2>2 DEF IsRouted
  <2>3. CASE s = shard /\ i # 1
    <3>1. i - 1 \in 1..(n - 1) /\ (i - 1) + 1 = i
      BY Zenon, <1>2, <1>5, <2>3
    <3>2. i - 1 \in DOMAIN shard_queue'[shard] /\ shard_queue'[shard][i - 1] = q[i]
      BY Zenon, <1>2, <1>3, <3>1
    <3>. QED
      BY Zenon, <2>1, <2>3, <3>2 DEF IsRouted
  <2>. QED
    BY Zenon, <1>2, <2>1, <2>2, <2>3
<1>10. \A y : /\ IsEntering(y)' <=> IsEntering(y)
              /\ IsWaiting(y)' <=> IsWaiting(y)
              /\ IsPumped(y)' <=> IsPumped(y)
              /\ IsUpstream(y)' <=> IsUpstream(y)
  BY Zenon, <1>1 DEF IsEntering, IsWaiting, IsPumped, IsUpstream
<1>11. /\ x \in Flight /\ Flight' \subseteq Flight /\ Flight \subseteq Flight' \cup {x}
  BY Zenon, <1>7, <1>8, <1>9, <1>10 DEF Flight
<1>12. \A y \in Flight' : y.market = x.market => x.n < y.n
  <2>1. \A y : IsUpstream(y) => x.n < y.n
    BY Zenon, <1>7 DEF LineInv
  <2>. QED
    BY Zenon, <1>8, <1>10, <2>1 DEF Flight
<1>13. \A s \in Shards : \A i, j \in DOMAIN shard_queue'[s] :
            i < j => shard_queue'[s][i].n < shard_queue'[s][j].n
  <2>1. \A i, j \in DOMAIN shard_queue'[shard] :
            i < j => shard_queue'[shard][i].n < shard_queue'[shard][j].n
    <3>1. \A i, j \in 1..(n - 1) : i < j => i + 1 < j + 1
      BY <1>2
    <3>2. \A i, j \in DOMAIN q : i < j => q[i].n < q[j].n
      BY Zenon DEF LineInv
    <3>. QED
      BY Zenon, <1>6, <3>1, <3>2
  <2>. QED
    BY Zenon, <1>3, <2>1 DEF LineInv
<1>14. \A s \in Shards : \A i \in DOMAIN shard_queue'[s] :
            s = ShardOf[shard_queue'[s][i].market]
  <2>1. \A s \in Shards : \A i \in DOMAIN shard_queue[s] : s = ShardOf[shard_queue[s][i].market]
    BY Zenon DEF LineInv
  <2>2. \A i \in DOMAIN shard_queue'[shard] : shard = ShardOf[shard_queue'[shard][i].market]
    BY <1>6, <2>1
  <2>. QED
    BY Zenon, <1>3, <2>1, <2>2
<1>15. /\ \A y : IsUpstream(y)' => y \in Message
       /\ \A y, z : IsRouted(y)' /\ IsUpstream(z)' => y.n < z.n
       /\ \A y, z : IsPumped(y)' /\ (IsWaiting(z)' \/ IsEntering(z)') => y.n < z.n
       /\ \A y, z : IsWaiting(y)' /\ IsEntering(z)' => y.n < z.n
  BY Zenon, <1>8, <1>10 DEF LineInv
<1>16. /\ \A i, j \in DOMAIN frame_queue' :
             i < j => slots'[frame_queue'[i].slot].n < slots'[frame_queue'[j].slot].n
       /\ \A y \in Flight' : y.n \in 1..Len(truth')
  BY Zenon, <1>1, <1>11 DEF LineInv
<1>17. LineInv'
  BY Zenon, <1>3, <1>13, <1>14, <1>15, <1>16 DEF LineInv
<1>18. dropped' = dropped
  BY Zenon DEF Consume, ParseOk, Drop
<1>. QED
  BY Zenon, <1>11, <1>12, <1>17, <1>18

-----------------------------------------------------------------------------
(* What a step does to the contents                                        *)

\* The types of the messages on their way or dropped.
LEMMA KnownTypes ==
    ASSUME AppliedInv
    PROVE  \A y \in Flight \cup dropped :
              /\ y \in Message /\ y.market \in Markets
              /\ y.n \in Nat /\ y.seq \in Nat /\ y.lots \in Int
BY Zenon DEF AppliedInv, Flight, Message

\* Neither the exchange nor a book moves: PushFrame, the pump, Start, StopShard,
\* and a shard that consumes a message it cannot parse.
LEMMA ContentKept ==
    ASSUME ContentInv, Kept, UNCHANGED <<truth, exchange, seq, snapshotted, books, applied>>
    PROVE  ContentInv'
<1>1. \A y \in Flight \cup dropped : IsBookMessage(y) => y \in Flight' \cup dropped'
  BY Zenon DEF Kept, BookMessages
<1>2. \A m, b, e : Explained(m, b, e) => Explained(m, b, e)'
  BY Zenon, <1>1 DEF Explained, IsBookMessage
<1>3. \A m, b, e : SnapshotSent(m, b, e) => SnapshotSent(m, b, e)'
  BY Zenon, <1>1 DEF SnapshotSent, IsBookMessage
<1>4. CurrentBase' = CurrentBase
  BY Zenon DEF CurrentBase
<1>5. FeedInv'
  BY Zenon, <1>2, <1>3, <1>4 DEF ContentInv, FeedInv
<1>6. \A x \in Flight' : MessageInv(x)'
  BY Zenon, <1>2, <1>3, <1>4 DEF ContentInv, MessageInv, Base, Kept
<1>7. AppliedInv'
  BY Zenon DEF ContentInv, AppliedInv, Kept, BookMessages, Flight
<1>8. BooksInv'
  BY <1>4 DEF ContentInv, BooksInv, NoSnapshotLost, BookOk, Undamaged, Kept, Base,
              Store!BookOf
<1>. QED
  BY Zenon, <1>5, <1>6, <1>7, <1>8 DEF ContentInv

\* A new connection numbers its messages from the beginning, and the exchange
\* may have moved on while nobody listened.
LEMMA ContentAfterReconnect ==
    ASSUME ContentInv, LineInv, Reconnect, Flight' = Flight, UNCHANGED dropped
    PROVE  ContentInv'
<1>1. /\ seq' = 0 /\ snapshotted' = {} /\ exchange' \in [Markets -> Nat]
      /\ UNCHANGED <<truth, books, applied>>
  BY PipelineAssumption DEF Reconnect
<1>2. /\ truth \in Seq([Markets -> Nat]) /\ Len(truth) \in Nat /\ seq \in 0..Len(truth)
      /\ AppliedInv
  BY DEF ContentInv, FeedInv
<1>3. CurrentBase' = Len(truth) /\ CurrentBase = Len(truth) - seq
  BY <1>1, <1>2 DEF CurrentBase
<1>4. /\ \A m, b, e : Explained(m, b, e) => Explained(m, b, e)'
      /\ \A m, b, e : SnapshotSent(m, b, e) => SnapshotSent(m, b, e)'
  BY Zenon, <1>1 DEF Explained, SnapshotSent
<1>5. FeedInv'
  <2>1. \A m \in Markets : Explained(m, CurrentBase, Len(truth))'
    BY <1>1, <1>2, <1>3 DEF Explained
  <2>. QED
    BY <1>1, <1>2, <2>1 DEF FeedInv
<1>6. \A x \in Flight' : MessageInv(x)'
  <2>1. \A x \in Flight : x.n <= Len(truth)
    BY DEF LineInv
  <2>. QED
    BY Zenon, <1>1, <1>3, <1>4, <2>1 DEF ContentInv, MessageInv, Base
<1>7. AppliedInv'
  BY Zenon, <1>1 DEF ContentInv, AppliedInv
<1>8. BooksInv'
  <2>1. \A m \in Markets : ~(applied'[m].snapshot > CurrentBase')
    BY <1>1, <1>2, <1>3 DEF AppliedInv
  <2>2. \A m \in Markets : BookOk(m, Store!BookOf(m)) => BookOk(m, Store!BookOf(m))'
    BY Zenon, <1>1, <2>1 DEF BookOk, Base, Store!BookOf
  <2>. QED
    BY Zenon, <1>1, <2>2 DEF ContentInv, BooksInv, NoSnapshotLost, Undamaged, Store!BookOf
<1>. QED
  BY Zenon, <1>5, <1>6, <1>7, <1>8 DEF ContentInv

\* push_message: what was known stays known, and the new message is known if it
\* is a snapshot or a delta.
LEMMA ContentAfterSend ==
    ASSUME ContentInv, LineInv,
           NEW kind \in {"kSnapshot", "kDelta", "kTrade", "malformed", "control"},
           NEW m \in Markets, NEW lots \in Int, push_message(kind, m, lots),
           kind = "kSnapshot" => lots = exchange[m],
           kind = "kDelta" => m \in snapshotted /\ exchange[m] + lots \in Nat,
           \/ Flight' = Flight \cup {Sent(kind, m, lots)} /\ dropped' = dropped
           \/ Flight' = Flight /\ dropped' = dropped \cup BookMessages({Sent(kind, m, lots)})
    PROVE  ContentInv'
<1>0. PICK message, n, base :
         message = Sent(kind, m, lots) /\ n = Len(truth) /\ base = Len(truth) - seq
  BY Zenon
<1>1. /\ seq' = seq + 1 /\ truth' = Append(truth, exchange')
      /\ exchange' = IF kind = "kDelta" THEN [exchange EXCEPT ![m] = @ + lots] ELSE exchange
      /\ snapshotted' = IF kind = "kSnapshot" THEN snapshotted \cup {m} ELSE snapshotted
      /\ UNCHANGED <<books, applied>>
  BY Zenon DEF push_message
<1>2. /\ truth \in Seq([Markets -> Nat]) /\ n \in Nat /\ seq \in 0..n
      /\ exchange \in [Markets -> Nat] /\ AppliedInv
      /\ CurrentBase = base /\ base = n - seq /\ base \in 0..n
  BY <1>0 DEF ContentInv, FeedInv, CurrentBase
<1>3. /\ message \in Message /\ message.kind = kind /\ message.market = m
      /\ message.seq = seq + 1 /\ message.lots = lots /\ message.n = n + 1
  BY <1>0, <1>2 DEF Sent, Message, Emitted
<1>4. /\ exchange' \in [Markets -> Nat]
      /\ kind = "kDelta" => exchange'[m] = exchange[m] + lots
      /\ kind # "kDelta" => exchange'[m] = exchange[m]
      /\ \A o \in Markets : o # m => exchange'[o] = exchange[o]
  BY Zenon, <1>1, <1>2
<1>5. /\ truth' \in Seq([Markets -> Nat]) /\ Len(truth') = n + 1
      /\ \A k \in 1..n : truth'[k] = truth[k]
      /\ truth'[n + 1] = exchange'
  BY <1>0, <1>1, <1>2, <1>4
<1>6. CurrentBase' = base /\ Base(message) = base
  BY <1>1, <1>2, <1>3, <1>5 DEF CurrentBase, Base
<1>7. /\ Flight' \subseteq Flight \cup {message}
      /\ Flight \cup dropped \subseteq Flight' \cup dropped'
      /\ IsBookMessage(message) => message \in Flight' \cup dropped'
      /\ dropped \subseteq dropped' /\ dropped' \subseteq dropped \cup BookMessages({message})
  BY Zenon, <1>0 DEF BookMessages
<1>8. /\ base \in Nat
      /\ \A x \in Flight : x \in Message /\ x.n \in 1..n /\ x.seq \in Nat
      /\ \A x \in Flight' \cup dropped' : x.n \in Nat
  <2>1. base \in Nat /\ \A x \in Flight : x \in Message /\ x.n \in 1..n /\ x.seq \in Nat
    BY <1>0, <1>2, KnownTypes DEF LineInv
  <2>2. \A x \in Flight \cup dropped : x.n \in Nat
    BY Zenon, <1>2, KnownTypes
  <2>3. message.n \in Nat
    BY <1>2, <1>3
  <2>4. \A x \in Flight' \cup dropped' : x \in Flight \cup dropped \/ x = message
    BY Zenon, <1>7 DEF BookMessages
  <2>. QED
    BY Zenon, <2>1, <2>2, <2>3, <2>4
<1>9. \A o \in Markets, b \in Nat, e \in Int :
         Explained(o, b, e) /\ e <= n => Explained(o, b, e)'
  <2>1. SUFFICES ASSUME NEW o \in Markets, NEW b \in Nat, NEW e \in Int, Explained(o, b, e),
                        e <= n
                 PROVE  Explained(o, b, e)'
    BY Zenon
  <2>2. ASSUME NEW k \in Nat, b < k, k < e, applied[o].last <= k
        PROVE  \/ truth'[k + 1][o] = truth'[k][o]
               \/ \E y \in Flight' \cup dropped' :
                     y.kind = "kDelta" /\ y.market = o /\ y.n = k + 1
    <3>1. k \in 1..n /\ k + 1 \in 1..n
      BY <1>2, <2>1, <2>2
    <3>2. \/ truth[k + 1][o] = truth[k][o]
          \/ \E y \in Flight \cup dropped :
                y.kind = "kDelta" /\ y.market = o /\ y.n = k + 1
      BY Zenon, <2>1, <2>2 DEF Explained
    <3>. QED
      BY Zenon, <1>5, <1>7, <3>1, <3>2
  <2>. QED
    BY Zenon, <1>1, <2>2 DEF Explained
<1>10. \A o \in Markets, b \in Nat, e \in Int : SnapshotSent(o, b, e) => SnapshotSent(o, b, e)'
  BY Zenon, <1>1, <1>7 DEF SnapshotSent
<1>11. \A o \in Markets : Explained(o, base, n)' /\ Explained(o, base, n + 1)'
  <2>1. \A o \in Markets : Explained(o, base, n)
    BY Zenon, <1>0, <1>2 DEF ContentInv, FeedInv
  <2>2. \A o \in Markets : Explained(o, base, n)'
    BY <1>2, <1>8, <1>9, <2>1
  <2>3. ASSUME NEW o \in Markets, base < n
        PROVE  \/ truth'[n + 1][o] = truth'[n][o]
               \/ \E y \in Flight' \cup dropped' :
                     y.kind = "kDelta" /\ y.market = o /\ y.n = n + 1
    <3>1. truth'[n] = exchange
      <4>1. seq > 0 /\ n \in 1..n
        BY <1>2, <2>3
      <4>. QED
        BY Zenon, <1>0, <1>5, <4>1 DEF ContentInv, FeedInv
    <3>2. CASE kind = "kDelta" /\ o = m
      BY Zenon, <1>3, <1>7, <3>2 DEF IsBookMessage
    <3>3. CASE ~(kind = "kDelta" /\ o = m)
      BY Zenon, <1>4, <1>5, <3>1, <3>3
    <3>. QED
      BY Zenon, <3>2, <3>3
  <2>4. ASSUME NEW o \in Markets
        PROVE  Explained(o, base, n + 1)'
    <3>1. ASSUME NEW k \in Nat, base < k, k < n + 1, applied[o].last <= k
          PROVE  \/ truth'[k + 1][o] = truth'[k][o]
                 \/ \E y \in Flight' \cup dropped' :
                       y.kind = "kDelta" /\ y.market = o /\ y.n = k + 1
      <4>1. CASE k = n
        BY Zenon, <2>3, <3>1, <4>1
      <4>2. CASE k < n
        BY Zenon, <1>1, <2>2, <3>1, <4>2 DEF Explained
      <4>. QED
        BY <1>2, <3>1, <4>1, <4>2
    <3>. QED
      BY Zenon, <1>1, <3>1 DEF Explained
  <2>. QED
    BY Zenon, <2>2, <2>4
<1>12. FeedInv'
  <2>1. \A o \in snapshotted : seq > 0 /\ SnapshotSent(o, base, n + 1)
    BY Zenon, <1>0, <1>2 DEF ContentInv, FeedInv
  <2>2. \A o \in snapshotted' : SnapshotSent(o, base, n + 2)'
    <3>1. SUFFICES ASSUME NEW o \in snapshotted' PROVE SnapshotSent(o, base, n + 2)'
      BY Zenon
    <3>2. CASE o \in snapshotted
      <4>1. o \in Markets
        BY Zenon, <3>2 DEF ContentInv, FeedInv
      <4>2. SnapshotSent(o, base, n + 1)'
        BY <1>2, <1>8, <1>10, <2>1, <3>2, <4>1
      <4>. QED
        BY ZenonT(30), <1>1, <1>2, <1>8, <4>2, Numbers DEF SnapshotSent
    <3>3. CASE o \notin snapshotted
      <4>1. o = m /\ kind = "kSnapshot"
        BY Zenon, <1>1, <3>1, <3>3
      <4>2. message \in Flight' \cup dropped' /\ base < n + 1 /\ n + 1 < n + 2
        BY <1>2, <1>3, <1>7, <4>1 DEF IsBookMessage
      <4>. QED
        BY Zenon, <1>3, <4>1, <4>2 DEF SnapshotSent
    <3>. QED
      BY Zenon, <3>2, <3>3
  <2>3. /\ seq' \in 0..Len(truth') /\ seq' > 0 /\ snapshotted' \subseteq Markets
        /\ truth'[Len(truth')] = exchange' /\ Len(truth') + 1 = n + 2
    <3>1. snapshotted' \subseteq Markets
      BY Zenon, <1>1 DEF ContentInv, FeedInv
    <3>. QED
      BY <1>1, <1>2, <1>5, <3>1
  <2>. QED
    BY Zenon, <1>4, <1>5, <1>6, <1>11, <2>2, <2>3 DEF FeedInv
<1>13. ASSUME NEW x \in Flight
       PROVE  MessageInv(x)'
  <2>1. MessageInv(x) /\ x.n \in 1..n /\ x.seq \in 1..x.n /\ x.market \in Markets
    BY Zenon, <1>2, <1>8, <1>13, KnownTypes DEF ContentInv, MessageInv
  <2>2. Base(x) \in Nat /\ x.n - 1 \in Int /\ x.n - 1 <= n
    BY <1>2, <2>1 DEF Base
  <2>3. Base(x) = CurrentBase' \/ x.n <= CurrentBase'
    BY Zenon, <1>2, <1>6, <2>1 DEF MessageInv
  <2>4. \A y \in Flight' : x.n < y.n => Base(x) = Base(y) \/ x.n <= Base(y)
    BY Zenon, <1>2, <1>6, <1>7, <2>1 DEF MessageInv
  <2>5. truth'[x.n] = truth[x.n]
    BY Zenon, <1>5, <2>1
  <2>6. x.kind = "kDelta" =>
          /\ x.seq > 1
          /\ truth'[x.n][x.market] = truth'[x.n - 1][x.market] + x.lots
          /\ Explained(x.market, Base(x), x.n - 1)'
          /\ SnapshotSent(x.market, Base(x), x.n)'
    <3>1. x.kind = "kDelta" => x.n - 1 \in 1..n
      <4>1. x.kind = "kDelta" => x.seq > 1
        BY Zenon, <2>1 DEF MessageInv
      <4>. QED
        BY <1>2, <2>1, <4>1
    <3>2. Explained(x.market, Base(x), x.n - 1) => Explained(x.market, Base(x), x.n - 1)'
      BY Zenon, <1>9, <2>1, <2>2
    <3>3. SnapshotSent(x.market, Base(x), x.n) => SnapshotSent(x.market, Base(x), x.n)'
      BY <1>10, <2>1, <2>2
    <3>. QED
      BY Zenon, <1>5, <2>1, <2>5, <3>1, <3>2, <3>3 DEF MessageInv
  <2>. QED
    BY Zenon, <1>1, <2>1, <2>3, <2>4, <2>5, <2>6 DEF MessageInv
<1>14. MessageInv(message)'
  <2>1. message.seq \in 1..message.n /\ Base(message) = CurrentBase'
    BY <1>2, <1>3, <1>6
  <2>2. applied[m].last < n + 1
    BY <1>0, <1>2 DEF AppliedInv
  <2>3. \A y \in Flight' : ~(n + 1 < y.n)
    <3>1. \A y \in Flight : ~(n + 1 < y.n)
      BY <1>2, <1>8
    <3>. QED
      BY <1>2, <1>3, <1>7, <3>1
  <2>4. kind = "kSnapshot" => lots = truth'[n + 1][m]
    BY Zenon, <1>4, <1>5
  <2>5. CASE kind = "kDelta"
    <3>1. seq > 0 /\ SnapshotSent(m, base, n + 1) /\ n \in 1..n /\ truth[n] = exchange
      BY <1>0, <1>2, <2>5 DEF ContentInv, FeedInv
    <3>2. truth'[n + 1][m] = truth'[n][m] + lots
      BY Zenon, <1>4, <1>5, <2>5, <3>1
    <3>3. Explained(m, base, n)' /\ SnapshotSent(m, base, n + 1)'
      BY <1>2, <1>8, <1>10, <1>11, <3>1
    <3>4. n + 1 - 1 = n /\ seq + 1 > 1
      BY <1>2, <3>1
    <3>5. /\ truth'[message.n][m] = truth'[message.n - 1][m] + lots
          /\ Explained(m, Base(message), message.n - 1)'
          /\ SnapshotSent(m, Base(message), message.n)'
      <4>1. message.n = n + 1 /\ message.n - 1 = n /\ Base(message) = base
        BY <1>2, <1>3, <1>6, SMT
      <4>. QED
        BY Zenon, <3>2, <3>3, <4>1
    <3>. QED
      BY Zenon, <1>1, <1>3, <2>1, <2>2, <2>3, <2>5, <3>4, <3>5 DEF MessageInv
  <2>6. CASE kind # "kDelta"
    BY Zenon, <1>1, <1>3, <2>1, <2>2, <2>3, <2>4, <2>6 DEF MessageInv
  <2>. QED
    BY Zenon, <2>5, <2>6
<1>15. \A x \in Flight' : MessageInv(x)'
  BY Zenon, <1>7, <1>13, <1>14
<1>16. AppliedInv'
  <2>1. BookMessages({message}) \subseteq {x \in Message : IsBookMessage(x)}
    BY Zenon, <1>3 DEF BookMessages
  <2>2. \A o \in Markets : applied[o].last <= n => applied[o].last <= n + 1
    BY <1>2 DEF AppliedInv
  <2>. QED
    BY Zenon, <1>0, <1>1, <1>2, <1>5, <1>7, <2>1, <2>2 DEF AppliedInv
<1>17. BooksInv'
  <2>1. SUFFICES ASSUME NEW o \in Markets, NoSnapshotLost(o)'
                 PROVE  /\ BookOk(o, Store!BookOf(o))'
                        /\ (applied'[o].snapshot > 0 /\ Undamaged(o)') =>
                              Store!BookOf(o)'.bids = LevelsOf(truth'[applied'[o].last][o])
    <3>1. DOMAIN books' \subseteq Markets
      BY Zenon, <1>1 DEF ContentInv, BooksInv
    <3>. QED
      BY Zenon, <3>1 DEF BooksInv
  <2>2. /\ BookOk(o, Store!BookOf(o))
        /\ (applied[o].snapshot > 0 /\ Undamaged(o)') =>
              Store!BookOf(o).bids = LevelsOf(truth[applied[o].last][o])
    BY Zenon, <1>1, <1>7, <2>1 DEF ContentInv, BooksInv, NoSnapshotLost, Undamaged
  <2>3. applied[o].snapshot > 0 => truth'[applied[o].last] = truth[applied[o].last]
    <3>1. applied[o].snapshot > 0 => applied[o].last \in 1..n
      BY <1>0, <1>2 DEF AppliedInv
    <3>. QED
      BY Zenon, <1>5, <3>1
  <2>4. BookOk(o, Store!BookOf(o))'
    <3>1. /\ Store!BookOf(o)' = Store!BookOf(o) /\ CurrentBase' = CurrentBase
          /\ applied' = applied /\ seq' = seq + 1
      BY Zenon, <1>1, <1>2, <1>6 DEF Store!BookOf
    <3>2. Store!BookOf(o).has_snapshot => \A x \in Flight' :
             x.market = o /\ x.kind = "kDelta" /\ Base(x) < applied[o].snapshot =>
                    Store!BookOf(o).last_seq_id < x.seq
      BY <1>2, <1>3, <1>6, <1>7, <2>2 DEF BookOk
    <3>3. Store!BookOf(o).last_seq_id \in Nat /\ Store!BookOf(o).last_seq_id <= seq =>
             Store!BookOf(o).last_seq_id <= seq + 1
      BY <1>2
    <3>. QED
      BY Zenon, <2>2, <3>1, <3>2, <3>3 DEF BookOk
  <2>. QED
    BY Zenon, <1>1, <2>2, <2>3, <2>4 DEF Store!BookOf
<1>. QED
  BY Zenon, <1>12, <1>15, <1>16, <1>17 DEF ContentInv

-----------------------------------------------------------------------------
(* What an event does to a book                                            *)

\* A parsed message is ordered by the number the exchange gave it.
LEMMA ParsedSequence ==
    ASSUME NEW x \in Message
    PROVE  Store!effective_sequence_id(parse(x)) = x.seq
<1>1. parse(x).raw_sequence_id = x.seq /\ x.seq \in Nat
  BY Zenon DEF parse, Message
<1>. QED
  BY <1>1, PipelineAssumption DEF Store!effective_sequence_id

\* A delta adds its lots to the level, and removes a level that is used up.
LEMMA LevelsAfterDelta ==
    ASSUME NEW qty \in Nat, NEW lots \in Int, qty + lots \in Nat
    PROVE  Store!AddLots(LevelsOf(qty), kPrice, lots) = LevelsOf(qty + lots)
<1> DEFINE levels == LevelsOf(qty)
<1>1. /\ DOMAIN levels = IF qty = 0 THEN {} ELSE {kPrice}
      /\ qty # 0 => levels[kPrice] = qty
      /\ \A p \in DOMAIN levels : p = kPrice
  BY Zenon DEF LevelsOf, Store!NoLevels
<1> DEFINE updated == lots + (IF kPrice \in DOMAIN levels THEN levels[kPrice] ELSE 0)
<1>2. updated = qty + lots
  BY <1>1
<1>3. Store!AddLots(levels, kPrice, lots) =
        IF updated <= 0 THEN [p \in DOMAIN levels \ {kPrice} |-> levels[p]]
        ELSE [p \in DOMAIN levels \cup {kPrice} |-> IF p = kPrice THEN updated ELSE levels[p]]
  BY Zenon DEF Store!AddLots, Store!Restrict
<1> HIDE DEF levels, updated
<1>4. CASE qty + lots = 0
  <2>1. Store!AddLots(levels, kPrice, lots) = [p \in {} |-> levels[p]]
    BY <1>1, <1>2, <1>3, <1>4
  <2>. QED
    BY Zenon, <1>4, <2>1 DEF LevelsOf, Store!NoLevels, levels
<1>5. CASE qty + lots # 0
  <2>1. DOMAIN levels \cup {kPrice} = {kPrice}
    BY Zenon, <1>1
  <2>2. Store!AddLots(levels, kPrice, lots) = [p \in {kPrice} |-> qty + lots]
    BY <1>2, <1>3, <1>5, <2>1
  <2>. QED
    BY Zenon, <1>5, <2>2 DEF LevelsOf, levels
<1>. QED
  BY Zenon, <1>4, <1>5

\* A snapshot of the exchange has no invalid level and is copied whole.
LEMMA LevelsOfSnapshot ==
    ASSUME NEW qty \in Nat
    PROVE  /\ Store!AllValid(SnapshotData(qty).bids) /\ Store!AllValid(SnapshotData(qty).asks)
           /\ Store!LevelsBeforeFault(SnapshotData(qty).bids) = LevelsOf(qty)
<1> DEFINE bids == SnapshotData(qty).bids
<1>1. SnapshotData(qty).asks = <<>>
  BY Zenon DEF SnapshotData
<1>2. Store!AllValid(<<>>)
  BY DEF Store!AllValid
<1> DEFINE read == {i \in DOMAIN bids : \A j \in 1..i : Store!LevelIsValid(bids[j])}
<1>3. Store!LevelsBeforeFault(bids) = [price \in {bids[i].price_ticks : i \in read} |->
            bids[Store!Latest({i \in read : bids[i].price_ticks = price})].qty_lots]
  BY Zenon DEF Store!LevelsBeforeFault
<1>4. CASE qty = 0
  <2>1. bids = <<>>
    BY Zenon, <1>4 DEF SnapshotData
  <2>2. read = {}
    BY <2>1
  <2> HIDE DEF bids, read
  <2>3. Store!LevelsBeforeFault(bids) = Store!NoLevels
    BY Zenon, <1>3, <2>2 DEF Store!NoLevels
  <2>. QED
    BY Zenon, <1>1, <1>2, <1>4, <2>1, <2>3 DEF LevelsOf, bids
<1>5. CASE qty # 0
  <2> DEFINE level == [price_ticks |-> kPrice, qty_lots |-> qty]
  <2>1. bids = <<level>> /\ DOMAIN bids = {1} /\ bids[1] = level
    BY <1>5 DEF SnapshotData
  <2>2. level.price_ticks = kPrice /\ level.qty_lots = qty /\ Store!LevelIsValid(level)
    BY <1>5 DEF Store!LevelIsValid, kPrice
  <2> HIDE DEF bids, level
  <2>3. read = {1}
    <3>1. 1..1 = {1}
      OBVIOUS
    <3>. QED
      BY Zenon, <2>1, <2>2, <3>1
  <2>4. Store!AllValid(bids)
    BY Zenon, <2>1, <2>2 DEF Store!AllValid
  <2> HIDE DEF read
  <2>5. {bids[i].price_ticks : i \in read} = {kPrice}
    BY Zenon, <2>1, <2>2, <2>3
  <2>6. {i \in read : bids[i].price_ticks = kPrice} = {1} /\ Store!Latest({1}) = 1
    BY <2>1, <2>2, <2>3 DEF Store!Latest
  <2>7. Store!LevelsBeforeFault(bids) = [price \in {kPrice} |-> qty]
    BY SMTT(20), <1>3, <2>1, <2>2, <2>5, <2>6
  <2>. QED
    BY Zenon, <1>1, <1>2, <1>5, <2>4, <2>7 DEF LevelsOf, bids
<1>. QED
  BY Zenon, <1>4, <1>5

\* BookStore::apply on a new delta of a book in sync.
LEMMA BookAfterDelta ==
    ASSUME NEW book, DOMAIN book = DOMAIN Store!EmptyBook,
           book.desynced = FALSE, book.has_snapshot = TRUE, book.last_seq_id \in Nat,
           NEW x \in Message, x.kind = "kDelta", book.last_seq_id < x.seq,
           NEW after, after = Store!AfterDelta(book, parse(x))
    PROVE  /\ DOMAIN after = DOMAIN Store!EmptyBook
           /\ after.pending_deltas = book.pending_deltas
           /\ after.desynced = FALSE /\ after.has_snapshot = TRUE
           /\ after.last_seq_id = x.seq
           /\ after.bids = Store!AddLots(book.bids, kPrice, x.lots)
<1> DEFINE event == parse(x)
           advanced == [book EXCEPT !.last_seq_id = x.seq]
<1>1. /\ event.data = DeltaData(x.lots) /\ Store!effective_sequence_id(event) = x.seq
      /\ x.seq \in Nat /\ x.seq # None
  <2>1. event.data = DeltaData(x.lots) /\ x.seq \in Nat
    BY Zenon DEF parse, Message
  <2>. QED
    BY <2>1, ParsedSequence, PipelineAssumption
<1>2. /\ event.data.side = "kBid" /\ event.data.price_ticks = kPrice
      /\ event.data.delta_qty_lots = x.lots
  BY <1>1 DEF DeltaData
<1>3. Store!SequenceAllows(book, x.seq) /\ Store!DeltaIsValid(event.data)
  BY <1>2 DEF Store!SequenceAllows, Store!DeltaIsValid, kPrice
<1>4. Store!advance_sequence_if_present(book, x.seq) = advanced
  BY Zenon, <1>1 DEF Store!advance_sequence_if_present
<1> HIDE DEF event
<1>5. after = Store!apply_delta_data(advanced, event.data)
  BY Zenon, <1>1, <1>3, <1>4 DEF Store!AfterDelta, event
<1>6. after = [advanced EXCEPT !.bids = Store!AddLots(@, kPrice, x.lots)]
  BY Zenon, <1>2, <1>5 DEF Store!apply_delta_data
<1>7. /\ DOMAIN advanced = DOMAIN book
      /\ advanced.pending_deltas = book.pending_deltas /\ advanced.desynced = book.desynced
      /\ advanced.has_snapshot = book.has_snapshot /\ advanced.bids = book.bids
      /\ advanced.last_seq_id = x.seq
  BY Zenon DEF Store!EmptyBook
<1> HIDE DEF advanced
<1>. QED
  BY Zenon, <1>6, <1>7 DEF Store!EmptyBook

\* BookStore::apply on a trade.
LEMMA BookAfterTrade ==
    ASSUME NEW book, DOMAIN book = DOMAIN Store!EmptyBook,
           book.last_seq_id \in Nat \cup {None},
           NEW x \in Message, x.kind = "kTrade",
           NEW after, after = Store!AfterTrade(book, parse(x))
    PROVE  /\ DOMAIN after = DOMAIN Store!EmptyBook
           /\ after.pending_deltas = book.pending_deltas
           /\ after.desynced = book.desynced /\ after.has_snapshot = book.has_snapshot
           /\ after.last_seq_id = book.last_seq_id \/ after.last_seq_id = x.seq
           /\ after.bids = book.bids
<1> DEFINE event == parse(x)
           advanced == [book EXCEPT !.last_seq_id = x.seq]
           traded == [advanced EXCEPT !.last_trade = event.data]
<1>1. Store!effective_sequence_id(event) = x.seq /\ x.seq \in Nat /\ x.seq # None
  BY ParsedSequence, PipelineAssumption DEF Message
<1>2. Store!advance_sequence_if_present(book, x.seq) = advanced
  BY Zenon, <1>1 DEF Store!advance_sequence_if_present
<1>3. after = book \/ after = traded
  <2> HIDE DEF event
  <2>. QED
    BY Zenon, <1>1, <1>2 DEF Store!AfterTrade, event
<1>4. /\ DOMAIN advanced = DOMAIN book
      /\ advanced.pending_deltas = book.pending_deltas /\ advanced.desynced = book.desynced
      /\ advanced.has_snapshot = book.has_snapshot /\ advanced.bids = book.bids
      /\ advanced.last_seq_id = x.seq
  BY Zenon DEF Store!EmptyBook
<1> HIDE DEF advanced, event
<1>5. /\ DOMAIN traded = DOMAIN book
      /\ traded.pending_deltas = book.pending_deltas /\ traded.desynced = book.desynced
      /\ traded.has_snapshot = book.has_snapshot /\ traded.bids = book.bids
      /\ traded.last_seq_id = x.seq
  BY Zenon, <1>4 DEF Store!EmptyBook
<1> HIDE DEF traded
<1>. QED
  BY Zenon, <1>3, <1>5

\* A replay of nothing.
LEMMA NothingToReplay ==
    ASSUME NEW book
    PROVE  Store!Replayed(book, <<>>) = book
<1> DEFINE table(f) == f = [i \in 0..Len(<<>>) |->
                              IF i = 0 THEN book ELSE Store!ReplayDelta(f[i - 1], <<>>[i])]
           f == CHOOSE k : table(k)
           g == [i \in 0..0 |-> book]
<1>1. Len(<<>>) = 0 /\ \A i \in 0..0 : i = 0
  OBVIOUS
<1>2. table(g)
  BY Zenon, <1>1
<1>3. table(f)
  BY Zenon, <1>2
<1>4. f[0] = book
  BY <1>1, <1>3
<1>5. Store!Replayed(book, <<>>) = f[Len(<<>>)]
  BY Zenon DEF Store!Replayed
<1>. QED
  BY Zenon, <1>1, <1>4, <1>5

\* A book that had to buffer nothing.
LEMMA BookAfterSnapshot ==
    ASSUME NEW book, DOMAIN book = DOMAIN Store!EmptyBook, book.pending_deltas = <<>>,
           NEW x \in Message, x.kind = "kSnapshot", x.lots \in Nat,
           NEW after, after = Store!AfterSnapshot(book, parse(x))
    PROVE  /\ DOMAIN after = DOMAIN Store!EmptyBook
           /\ after.pending_deltas = <<>>
           /\ after.desynced = FALSE /\ after.has_snapshot = TRUE
           /\ after.last_seq_id = x.seq
           /\ after.bids = LevelsOf(x.lots)
<1> DEFINE event == parse(x)
           copied == Store!apply_snapshot_data(book, event.data)
           synced == [copied EXCEPT !.has_snapshot = TRUE, !.desynced = FALSE,
                                    !.last_seq_id = x.seq]
<1>1. /\ event.data = SnapshotData(x.lots) /\ Store!effective_sequence_id(event) = x.seq
  <2>1. event.data = SnapshotData(x.lots)
    BY Zenon DEF parse
  <2>. QED
    BY Zenon, <2>1, ParsedSequence
<1>2. /\ Store!AllValid(event.data.bids) /\ Store!AllValid(event.data.asks)
      /\ Store!LevelsBeforeFault(event.data.bids) = LevelsOf(x.lots)
  BY Zenon, <1>1, LevelsOfSnapshot
<1> HIDE DEF event
<1>3. /\ DOMAIN copied = DOMAIN book /\ copied.pending_deltas = <<>>
      /\ copied.bids = LevelsOf(x.lots)
  BY Zenon, <1>2 DEF Store!apply_snapshot_data, Store!EmptyBook
<1> HIDE DEF copied
<1>4. /\ DOMAIN synced = DOMAIN book /\ synced.pending_deltas = <<>>
      /\ synced.bids = LevelsOf(x.lots) /\ synced.has_snapshot = TRUE
      /\ synced.desynced = FALSE /\ synced.last_seq_id = x.seq
  BY Zenon, <1>3 DEF Store!EmptyBook
<1>5. after = Store!replay_pending_deltas(synced)
  BY Zenon, <1>1, <1>2 DEF Store!AfterSnapshot, event, copied
<1> HIDE DEF synced
<1>6. after = [synced EXCEPT !.pending_deltas = <<>>]
  BY Zenon, <1>4, <1>5, NothingToReplay DEF Store!replay_pending_deltas
<1>. QED
  BY Zenon, <1>4, <1>6 DEF Store!EmptyBook

\* BookStore::apply changes the book of its event only.
LEMMA StoreMoves ==
    ASSUME NEW x \in Message, Store!apply(parse(x))
    PROVE  /\ DOMAIN books' = DOMAIN books \cup {x.market}
           /\ \A o : o # x.market => Store!BookOf(o)' = Store!BookOf(o)
           /\ x.kind = "kSnapshot" =>
                Store!BookOf(x.market)' = Store!AfterSnapshot(Store!BookOf(x.market), parse(x))
           /\ x.kind = "kDelta" =>
                Store!BookOf(x.market)' = Store!AfterDelta(Store!BookOf(x.market), parse(x))
           /\ x.kind = "kTrade" =>
                Store!BookOf(x.market)' = Store!AfterTrade(Store!BookOf(x.market), parse(x))
<1>1. parse(x).type = x.kind /\ parse(x).market_ticker = x.market
  BY Zenon DEF parse
<1>2. ASSUME NEW book, Store!PutBook(x.market, book)
      PROVE  /\ DOMAIN books' = DOMAIN books \cup {x.market}
             /\ \A o : o # x.market => Store!BookOf(o)' = Store!BookOf(o)
             /\ Store!BookOf(x.market)' = book
  BY Zenon, <1>2 DEF Store!PutBook, Store!BookOf
<1>3. CASE Store!ApplySnapshot(parse(x))
  BY Zenon, <1>1, <1>2, <1>3 DEF Store!ApplySnapshot
<1>4. CASE Store!ApplyDelta(parse(x))
  BY Zenon, <1>1, <1>2, <1>4 DEF Store!ApplyDelta
<1>5. CASE Store!ApplyTrade(parse(x))
  BY Zenon, <1>1, <1>2, <1>5 DEF Store!ApplyTrade
<1>6. CASE Store!ApplyOther(parse(x))
  BY Zenon, <1>1, <1>6 DEF Store!ApplyOther, Message
<1>. QED
  BY Zenon, <1>3, <1>4, <1>5, <1>6 DEF Store!apply

-----------------------------------------------------------------------------
(* What a shard does to the contents                                       *)

\* x was the oldest message of its market, and is no longer on its way.
Taken(x) ==
    /\ dropped' = dropped
    /\ x \in Flight /\ Flight' \subseteq Flight /\ Flight \subseteq Flight' \cup {x}
    /\ \A y \in Flight' : y.market = x.market => x.n < y.n

\* The history of the book that was given x.
Given(x) ==
    /\ applied' \in [Markets -> [last : Nat, snapshot : Nat]]
    /\ \A o \in Markets : o # x.market => applied'[o] = applied[o]
    /\ applied'[x.market].last =
          IF x.kind = "kTrade" THEN applied[x.market].last ELSE x.n
    /\ applied'[x.market].snapshot =
          IF x.kind = "kSnapshot" THEN x.n ELSE applied[x.market].snapshot

\* A shard that consumes a message it can parse gives it to the book.
LEMMA ConsumeGives ==
    ASSUME AppliedInv, NEW shard \in Shards, Consume(shard), NEW x \in Message,
           x = Head(shard_queue[shard]), ParseOk(x)
    PROVE  Given(x) /\ Store!apply(parse(x))
<1>1. /\ applied \in [Markets -> [last : Nat, snapshot : Nat]]
      /\ x.market \in Markets /\ x.n \in Nat
  BY Zenon DEF AppliedInv, Message
<1> DEFINE entry == [last |-> IF x.kind = "kTrade" THEN applied[x.market].last ELSE x.n,
                     snapshot |-> IF x.kind = "kSnapshot" THEN x.n
                                  ELSE applied[x.market].snapshot]
<1>2. applied' = [applied EXCEPT ![x.market] = entry] /\ Store!apply(parse(x))
  BY Zenon DEF Consume
<1>3. entry \in [last : Nat, snapshot : Nat]
  BY Zenon, <1>1
<1>4. /\ entry.last = IF x.kind = "kTrade" THEN applied[x.market].last ELSE x.n
      /\ entry.snapshot = IF x.kind = "kSnapshot" THEN x.n ELSE applied[x.market].snapshot
  BY Zenon
<1> HIDE DEF entry
<1>. QED
  BY Zenon, <1>1, <1>2, <1>3, <1>4 DEF Given

\* A message that was taken numbers its book below every later message of its
\* connection.
LEMMA SequenceGrows ==
    ASSUME NEW x \in Message, NEW y \in Flight, MessageInv(x), y \in Message,
           x.n < y.n, Base(y) < x.n
    PROVE  x.seq < y.seq
<1>1. x.n \in Nat /\ x.seq \in Nat /\ y.n \in Nat /\ y.seq \in Nat
  BY Zenon DEF Message
<1>2. Base(x) = Base(y) \/ x.n <= Base(y)
  BY Zenon DEF MessageInv
<1>. QED
  BY <1>1, <1>2 DEF Base

\* The messages of the current connection are numbered up to seq.
LEMMA SequenceIsCurrent ==
    ASSUME NEW x \in Message, MessageInv(x), x.n \in 1..Len(truth), Len(truth) \in Nat,
           seq \in 0..Len(truth), x.n > CurrentBase
    PROVE  x.seq <= seq
<1>1. x.n \in Nat /\ x.seq \in Nat
  BY Zenon DEF Message
<1>2. Base(x) = CurrentBase \/ x.n <= CurrentBase
  BY Zenon DEF MessageInv
<1>. QED
  BY <1>1, <1>2 DEF Base, CurrentBase

\* Every snapshot and delta that a book is given leaves the explanation of what
\* came after it.
LEMMA FeedAfterConsume ==
    ASSUME ContentInv, LineInv, NEW x, Taken(x), Given(x), ParseOk(x),
           UNCHANGED <<truth, exchange, seq, snapshotted>>
    PROVE  FeedInv' /\ (\A y \in Flight' : MessageInv(y)') /\ AppliedInv'
<1>1. /\ x \in Flight /\ x \in Message /\ x.market \in Markets /\ x.n \in Nat
      /\ MessageInv(x) /\ x.n \in 1..Len(truth)
      /\ AppliedInv /\ dropped' = dropped
  BY Zenon, KnownTypes DEF ContentInv, Taken, LineInv
<1>2. /\ applied[x.market].last \in Nat /\ applied[x.market].snapshot \in Nat
      /\ applied[x.market].last < x.n
      /\ applied[x.market].snapshot <= applied[x.market].last
  BY Zenon, <1>1 DEF MessageInv, AppliedInv
<1>3. /\ applied' \in [Markets -> [last : Nat, snapshot : Nat]]
      /\ applied \in [Markets -> [last : Nat, snapshot : Nat]]
      /\ \A o \in Markets : /\ applied[o].last <= applied'[o].last
                            /\ applied[o].snapshot <= applied'[o].snapshot
      /\ x.kind # "kTrade" => applied'[x.market].last = x.n
      /\ x.kind = "kSnapshot" => applied'[x.market].snapshot = x.n
  <2>1. applied \in [Markets -> [last : Nat, snapshot : Nat]]
    BY Zenon, <1>1 DEF AppliedInv
  <2>. QED
    BY SMTT(20), <1>1, <1>2, <2>1 DEF Given
<1>4. CurrentBase' = CurrentBase
  BY Zenon DEF CurrentBase
<1>5. \A y \in Flight \cup dropped : y \in Flight' \cup dropped' \/ y = x
  BY Zenon DEF Taken
<1>6. ASSUME NEW o \in Markets, NEW b, NEW e, Explained(o, b, e)
      PROVE  Explained(o, b, e)'
  <2>1. ASSUME NEW k \in Nat, b < k, k < e, applied'[o].last <= k
        PROVE  \/ truth[k + 1][o] = truth[k][o]
               \/ \E y \in Flight' \cup dropped' :
                     y.kind = "kDelta" /\ y.market = o /\ y.n = k + 1
    <3>1. applied[o].last <= k
      BY <1>3, <2>1
    <3>2. CASE \E y \in Flight \cup dropped : y.kind = "kDelta" /\ y.market = o /\ y.n = k + 1
      <4>1. PICK y \in Flight \cup dropped : y.kind = "kDelta" /\ y.market = o /\ y.n = k + 1
        BY Zenon, <3>2
      <4>2. y # x
        BY <1>3, <2>1, <4>1
      <4>. QED
        BY Zenon, <1>5, <4>1, <4>2
    <3>. QED
      BY Zenon, <1>6, <2>1, <3>1, <3>2 DEF Explained
  <2>. QED
    BY Zenon, <2>1 DEF Explained
<1>7. ASSUME NEW o \in Markets, NEW b \in Int, NEW e, SnapshotSent(o, b, e)
      PROVE  SnapshotSent(o, b, e)'
  <2>1. CASE applied[o].snapshot > b
    BY <1>3, <2>1 DEF SnapshotSent
  <2>2. CASE \E y \in Flight \cup dropped :
               y.kind = "kSnapshot" /\ y.market = o /\ b < y.n /\ y.n < e
    <3>1. PICK y \in Flight \cup dropped :
               y.kind = "kSnapshot" /\ y.market = o /\ b < y.n /\ y.n < e
      BY Zenon, <2>2
    <3>2. CASE y = x
      BY Zenon, <1>1, <1>3, <3>1, <3>2 DEF SnapshotSent
    <3>3. CASE y # x
      BY Zenon, <1>5, <3>1, <3>3 DEF SnapshotSent
    <3>. QED
      BY Zenon, <3>2, <3>3
  <2>. QED
    BY Zenon, <1>7, <2>1, <2>2 DEF SnapshotSent
<1>8. /\ truth \in Seq([Markets -> Nat]) /\ Len(truth) \in Nat /\ seq \in 0..Len(truth)
      /\ CurrentBase \in Int /\ snapshotted \subseteq Markets
  BY DEF ContentInv, FeedInv, CurrentBase
<1>9. FeedInv'
  BY Zenon, <1>4, <1>6, <1>7, <1>8 DEF ContentInv, FeedInv
<1>10. ASSUME NEW y \in Flight'
       PROVE  MessageInv(y)'
  <2>1. /\ y \in Flight /\ MessageInv(y) /\ y.market \in Markets
        /\ y.n \in Nat /\ y.seq \in Nat /\ Base(y) \in Int
    BY <1>1, KnownTypes DEF ContentInv, Taken, Base
  <2>2. applied'[y.market].last < y.n
    <3>1. CASE y.market = x.market
      BY <1>1, <1>2, <2>1, <3>1 DEF Given, Taken
    <3>2. CASE y.market # x.market
      BY Zenon, <2>1, <3>2 DEF Given, MessageInv
    <3>. QED
      BY Zenon, <3>1, <3>2
  <2>3. /\ Explained(y.market, Base(y), y.n - 1) => Explained(y.market, Base(y), y.n - 1)'
        /\ SnapshotSent(y.market, Base(y), y.n) => SnapshotSent(y.market, Base(y), y.n)'
    BY Zenon, <1>6, <1>7, <2>1
  <2>4. \A z \in Flight' : y.n < z.n => Base(y) = Base(z) \/ y.n <= Base(z)
    BY Zenon, <2>1 DEF MessageInv, Taken
  <2>. QED
    BY Zenon, <1>4, <2>1, <2>2, <2>3, <2>4 DEF MessageInv
<1>11. AppliedInv'
  <2>1. \A o \in Markets : applied'[o].snapshot <= applied'[o].last
                             /\ applied'[o].last <= Len(truth)
    <3>1. \A o \in Markets : applied[o].snapshot <= applied[o].last
                               /\ applied[o].last <= Len(truth)
      BY Zenon, <1>1 DEF AppliedInv
    <3>2. ASSUME NEW o \in Markets
          PROVE  applied'[o].snapshot <= applied'[o].last /\ applied'[o].last <= Len(truth)
      <4>1. CASE o = x.market
        BY <1>1, <1>2, <1>8, <3>1, <4>1 DEF Given
      <4>2. CASE o # x.market
        BY Zenon, <3>1, <4>2 DEF Given
      <4>. QED
        BY Zenon, <4>1, <4>2
    <3>. QED
      BY Zenon, <3>2
  <2>. QED
    BY Zenon, <1>1, <1>3, <2>1 DEF AppliedInv
<1>. QED
  BY Zenon, <1>9, <1>10, <1>11

\* As long as no delta is missing, the quantity does not move.
QuantityStays ==
    \A m \in Markets, last \in Nat, b \in Int, e \in Nat :
        (/\ last = applied[m].last /\ b < last /\ last <= e /\ Explained(m, b, e)
         /\ \A y \in Flight \cup dropped :
               y.kind = "kDelta" /\ y.market = m => ~(last < y.n /\ y.n <= e)) =>
            truth[e][m] = truth[last][m]

\* The book of the message that was taken.
LEMMA TakenBook ==
    ASSUME ContentInv, LineInv, NEW x, Taken(x), Given(x), ParseOk(x),
           Store!apply(parse(x)), UNCHANGED <<truth, seq>>, NoSnapshotLost(x.market)',
           QuantityStays
    PROVE  /\ BookOk(x.market, Store!BookOf(x.market))'
           /\ (applied'[x.market].snapshot > 0 /\ Undamaged(x.market)') =>
                 Store!BookOf(x.market)'.bids =
                    LevelsOf(truth'[applied'[x.market].last][x.market])
<1>1. PICK m, before, after :
         /\ m = x.market /\ before = Store!BookOf(m) /\ after = Store!BookOf(m)'
  BY Zenon
<1>2. /\ x \in Flight /\ x \in Message /\ m \in Markets /\ x.n \in Nat /\ x.seq \in Nat
      /\ x.lots \in Int /\ MessageInv(x) /\ x.n \in 1..Len(truth)
      /\ AppliedInv /\ dropped' = dropped /\ Flight' \subseteq Flight
  BY Zenon, <1>1, KnownTypes DEF ContentInv, Taken, LineInv
<1>3. PICK last, snapshot : last = applied[m].last /\ snapshot = applied[m].snapshot
  BY Zenon
<1>4. /\ last \in Nat /\ snapshot \in Nat /\ last < x.n /\ snapshot <= last
  BY Zenon, <1>1, <1>2, <1>3 DEF MessageInv, AppliedInv
<1>5. /\ truth \in Seq([Markets -> Nat]) /\ Len(truth) \in Nat /\ seq \in 0..Len(truth)
      /\ CurrentBase \in Int /\ CurrentBase' = CurrentBase
  BY DEF ContentInv, FeedInv, CurrentBase
<1>6. /\ applied'[m].last = IF x.kind = "kTrade" THEN last ELSE x.n
      /\ applied'[m].snapshot = IF x.kind = "kSnapshot" THEN x.n ELSE snapshot
  BY Zenon, <1>1, <1>3 DEF Given
<1>7. NoSnapshotLost(m)
  <2>1. \A y \in dropped : y.n \in Nat
    BY Zenon, <1>2, KnownTypes
  <2>. QED
    BY <1>1, <1>2, <1>3, <1>4, <1>6, <2>1 DEF NoSnapshotLost
<1>8. /\ BookOk(m, before)
      /\ (snapshot > 0 /\ Undamaged(m)) => before.bids = LevelsOf(truth[last][m])
  BY Zenon, <1>1, <1>2, <1>3, <1>7 DEF ContentInv, BooksInv
\* the sequence ids, if the book takes the one of x
<1>9. ASSUME after.last_seq_id = x.seq, applied'[m].snapshot <= x.n
      PROVE  /\ after.last_seq_id \in Nat
             /\ applied'[m].snapshot > CurrentBase' => after.last_seq_id <= seq'
             /\ \A y \in Flight' :
                   y.market = m /\ y.kind = "kDelta" /\ Base(y) < applied'[m].snapshot =>
                       after.last_seq_id < y.seq
  <2>1. applied'[m].snapshot \in Nat
    BY Zenon, <1>2, <1>4, <1>6
  <2>2. applied'[m].snapshot > CurrentBase' => after.last_seq_id <= seq'
    BY <1>2, <1>5, <1>9, <2>1, SequenceIsCurrent
  <2>3. ASSUME NEW y \in Flight', y.market = m, Base(y) < applied'[m].snapshot
        PROVE  x.seq < y.seq
    <3>1. y \in Flight /\ y \in Message /\ y.n \in Nat /\ y.seq \in Nat /\ Base(y) \in Int
      BY <1>2, <2>3, KnownTypes DEF Base
    <3>2. x.n < y.n
      BY Zenon, <1>1, <2>3 DEF Taken
    <3>3. Base(y) < x.n
      BY <1>2, <1>9, <2>1, <2>3, <3>1
    <3>. QED
      BY Zenon, <1>2, <3>1, <3>2, <3>3, SequenceGrows
  <2>. QED
    BY Zenon, <1>2, <1>9, <2>2, <2>3
<1>10. CASE x.kind = "kSnapshot"
  <2>1. after = Store!AfterSnapshot(before, parse(x))
    BY Zenon, <1>1, <1>2, <1>10, StoreMoves
  <2>2. x.lots = truth[x.n][m] /\ x.lots \in Nat
    <3>1. x.lots = truth[x.n][m]
      BY ZenonT(30), <1>1, <1>2, <1>10 DEF MessageInv
    <3>2. truth[x.n] \in [Markets -> Nat]
      BY ZenonT(30), <1>2, <1>5, ElementsOf
    <3>. QED
      BY ZenonT(30), <1>2, <3>1, <3>2
  <2>3. /\ DOMAIN after = DOMAIN Store!EmptyBook /\ after.pending_deltas = <<>>
        /\ after.desynced = FALSE /\ after.has_snapshot = TRUE
        /\ after.last_seq_id = x.seq /\ after.bids = LevelsOf(x.lots)
    <3>1. DOMAIN before = DOMAIN Store!EmptyBook /\ before.pending_deltas = <<>>
      BY Zenon, <1>8 DEF BookOk
    <3>. QED
      BY ZenonT(30), <1>2, <1>10, <2>1, <2>2, <3>1, BookAfterSnapshot
  <2>4. applied'[m].snapshot = x.n /\ applied'[m].last = x.n /\ x.n > 0
    BY ZenonT(30), <1>2, <1>5, <1>6, <1>10, Numbers
  <2>5. BookOk(m, after)'
    <3>1. applied'[m].snapshot <= x.n
      BY <1>2, <2>4
    <3>2. /\ applied'[m].snapshot > CurrentBase' => after.last_seq_id <= seq'
          /\ \A y \in Flight' :
                y.market = m /\ y.kind = "kDelta" /\ Base(y) < applied'[m].snapshot =>
                    after.last_seq_id < y.seq
      BY Zenon, <1>9, <2>3, <3>1
    <3>. QED
      BY Zenon, <1>2, <2>3, <2>4, <3>2 DEF BookOk
  <2>. QED
    BY Zenon, <1>1, <2>2, <2>3, <2>4, <2>5
<1>11. CASE x.kind = "kTrade"
  <2>1. after = Store!AfterTrade(before, parse(x))
    BY Zenon, <1>1, <1>2, <1>11, StoreMoves
  <2>2. /\ DOMAIN before = DOMAIN Store!EmptyBook /\ before.last_seq_id \in Nat \cup {None}
        /\ before.pending_deltas = <<>> /\ before.desynced = FALSE
    BY Zenon, <1>8 DEF BookOk
  <2>3. /\ DOMAIN after = DOMAIN Store!EmptyBook
        /\ after.pending_deltas = <<>> /\ after.desynced = FALSE
        /\ after.has_snapshot = before.has_snapshot
        /\ after.last_seq_id = before.last_seq_id \/ after.last_seq_id = x.seq
        /\ after.bids = before.bids
    BY <1>2, <1>11, <2>1, <2>2, BookAfterTrade
  <2>4. applied'[m].snapshot = snapshot /\ applied'[m].last = last /\ snapshot <= x.n
    BY <1>2, <1>4, <1>6, <1>11
  <2>5. BookOk(m, after)'
    <3>1. CASE after.last_seq_id = x.seq
      BY Zenon, <1>2, <1>3, <1>8, <1>9, <2>3, <2>4, <3>1 DEF BookOk
    <3>2. CASE after.last_seq_id = before.last_seq_id
      BY Zenon, <1>2, <1>3, <1>5, <1>8, <2>3, <2>4, <3>2 DEF BookOk
    <3>. QED
      BY Zenon, <2>3, <3>1, <3>2
  <2>6. Undamaged(m)' => Undamaged(m)
    BY Zenon, <1>2, <1>3, <2>4 DEF Undamaged
  <2>. QED
    BY Zenon, <1>1, <1>8, <2>3, <2>4, <2>5, <2>6
<1>12. CASE x.kind = "kDelta"
  <2>1. /\ x.seq > 1 /\ x.n - 1 \in Nat /\ Base(x) \in Nat /\ last <= x.n - 1
        /\ truth[x.n][m] = truth[x.n - 1][m] + x.lots
        /\ Explained(m, Base(x), x.n - 1) /\ SnapshotSent(m, Base(x), x.n)
    <3>1. /\ x.seq > 1 /\ x.seq \in 1..x.n
          /\ truth[x.n][m] = truth[x.n - 1][m] + x.lots
          /\ Explained(m, Base(x), x.n - 1) /\ SnapshotSent(m, Base(x), x.n)
      BY Zenon, <1>1, <1>2, <1>12 DEF MessageInv
    <3>2. x.n - 1 \in Nat /\ Base(x) \in Nat /\ last <= x.n - 1
      BY <1>2, <1>4, <3>1 DEF Base
    <3>. QED
      BY Zenon, <3>1, <3>2
  <2>2. applied'[m].snapshot = snapshot /\ applied'[m].last = x.n
    BY Zenon, <1>6, <1>12
  <2>3. \A y \in Flight \cup dropped : y.n \in Nat
    BY Zenon, <1>2, KnownTypes
  <2>4. \A y \in Flight : y.market = m => ~(y.n < x.n)
    BY <1>1, <1>2, <2>3 DEF Taken
  <2>5. snapshot > Base(x)
    <3>1. ASSUME NEW y \in Flight \cup dropped, y.kind = "kSnapshot", y.market = m, y.n < x.n
          PROVE  FALSE
      <4>1. y \in dropped
        BY Zenon, <2>4, <3>1
      <4>2. y.n > x.n
        BY Zenon, <1>1, <1>2, <2>2, <3>1, <4>1 DEF NoSnapshotLost
      <4>. QED
        BY <1>2, <2>3, <3>1, <4>2
    <3>. QED
      BY Zenon, <1>3, <2>1, <3>1 DEF SnapshotSent
  <2>6. /\ DOMAIN before = DOMAIN Store!EmptyBook /\ before.pending_deltas = <<>>
        /\ before.desynced = FALSE /\ before.has_snapshot = TRUE
        /\ before.last_seq_id \in Nat /\ before.last_seq_id < x.seq
    <3>1. snapshot > 0
      BY <1>4, <2>1, <2>5
    <3>. QED
      BY Zenon, <1>1, <1>2, <1>3, <1>8, <1>12, <2>5, <3>1 DEF BookOk
  <2>7. after = Store!AfterDelta(before, parse(x))
    BY ZenonT(30), <1>1, <1>2, <1>12, StoreMoves
  <2>8. /\ DOMAIN after = DOMAIN Store!EmptyBook /\ after.pending_deltas = <<>>
        /\ after.desynced = FALSE /\ after.has_snapshot = TRUE
        /\ after.last_seq_id = x.seq
        /\ after.bids = Store!AddLots(before.bids, kPrice, x.lots)
    BY ZenonT(30), <1>2, <1>12, <2>6, <2>7, BookAfterDelta
  <2>9. BookOk(m, after)'
    <3>1. snapshot > 0 /\ snapshot <= x.n
      BY ZenonT(30), <1>2, <1>4, <2>1, <2>5, Numbers
    <3>. QED
      BY Zenon, <1>2, <1>9, <2>2, <2>8, <3>1 DEF BookOk
  <2>10. ASSUME Undamaged(m)'
         PROVE  after.bids = LevelsOf(truth[x.n][m])
    <3>1. \A y \in dropped : y.market = m =>
             \/ y.n > x.n
             \/ y.kind = "kDelta" /\ y.n < snapshot
      BY Zenon, <1>2, <2>2, <2>10 DEF Undamaged
    <3>2. Undamaged(m)
      BY ZenonT(30), <1>2, <1>3, <1>4, <2>3, <3>1, Numbers DEF Undamaged
    <3>3. before.bids = LevelsOf(truth[last][m])
      <4>1. snapshot > 0
        BY SMTT(30), <1>4, <2>1, <2>5
      <4>. QED
        BY Zenon, <1>8, <3>2, <4>1
    <3>4. \A y \in Flight \cup dropped :
             y.kind = "kDelta" /\ y.market = m => ~(last < y.n /\ y.n <= x.n - 1)
      BY <1>2, <1>4, <2>3, <2>4, <3>1
    <3>5. truth[x.n - 1][m] = truth[last][m]
      <4>1. PICK b, e : b = Base(x) /\ e = x.n - 1
        BY Zenon
      <4>2. b \in Int /\ e \in Nat /\ b < last /\ last <= e /\ Explained(m, b, e)
        BY <1>4, <2>1, <2>5, <4>1
      <4>3. \A y \in Flight \cup dropped :
               y.kind = "kDelta" /\ y.market = m => ~(last < y.n /\ y.n <= e)
        BY Zenon, <3>4, <4>1
      <4>4. truth[e][m] = truth[last][m]
        BY ZenonT(30), <1>2, <1>3, <1>4, <4>2, <4>3 DEF QuantityStays
      <4>. QED
        BY Zenon, <4>1, <4>4
    <3>6. truth[last][m] \in Nat /\ truth[x.n][m] \in Nat
      <4>1. last \in 1..Len(truth)
        <5>1. /\ x.n \in 1..Len(truth) /\ Len(truth) \in Nat /\ last \in Nat /\ snapshot \in Nat
              /\ last < x.n /\ snapshot <= last /\ snapshot > Base(x) /\ Base(x) \in Nat
          BY Zenon, <1>2, <1>4, <1>5, <2>1, <2>5
        <5>. QED
          BY <5>1
      <4>2. \A k \in 1..Len(truth) : truth[k] \in [Markets -> Nat]
        BY ZenonT(30), <1>5, ElementsOf
      <4>. QED
        BY Zenon, <1>2, <4>1, <4>2
    <3>. QED
      BY Zenon, <1>2, <2>1, <2>8, <3>3, <3>5, <3>6, LevelsAfterDelta
  <2>. QED
    BY Zenon, <1>1, <2>2, <2>9, <2>10
<1>. QED
  BY Zenon, <1>10, <1>11, <1>12 DEF ParseOk

-----------------------------------------------------------------------------
(* The pipeline                                                            *)

DeliveryInv == LineInv /\ ContentInv

\* Nothing has been sent.
LEMMA DeliveryInitially == Init => DeliveryInv
<1>1. SUFFICES ASSUME Init PROVE DeliveryInv
  BY Zenon
<1>2. /\ sink = None /\ frame_queue = <<>> /\ pump = None /\ truth = <<>> /\ dropped = {}
      /\ shard_queue = [shard \in Shards |-> <<>>]
      /\ seq = 0 /\ snapshotted = {} /\ exchange = [m \in Markets |-> 0]
      /\ applied = [m \in Markets |-> [last |-> 0, snapshot |-> 0]]
      /\ books = [m \in {} |-> Store!EmptyBook]
  BY Zenon, <1>1 DEF Init, Store!StoreInit
<1>3. \A x : ~IsUpstream(x) /\ ~IsRouted(x)
  BY <1>2 DEF IsUpstream, IsEntering, IsWaiting, IsPumped, IsRouted
<1>4. Flight = {}
  BY Zenon, <1>3 DEF Flight
<1>5. LineInv
  <2>1. /\ shard_queue \in [Shards -> Seq(Message)]
        /\ \A shard \in Shards : DOMAIN shard_queue[shard] = {}
        /\ DOMAIN frame_queue = {}
    BY <1>2
  <2>2. /\ \A x : IsUpstream(x) => x \in Message
        /\ \A x, y : IsRouted(x) /\ IsUpstream(y) => x.n < y.n
        /\ \A x, y : IsPumped(x) /\ (IsWaiting(y) \/ IsEntering(y)) => x.n < y.n
        /\ \A x, y : IsWaiting(x) /\ IsEntering(y) => x.n < y.n
    BY Zenon, <1>3 DEF IsUpstream
  <2>. QED
    BY Zenon, <1>4, <2>1, <2>2 DEF LineInv
<1>6. FeedInv
  <2>1. Len(truth) = 0 /\ truth \in Seq([Markets -> Nat]) /\ CurrentBase = 0
    BY <1>2 DEF CurrentBase
  <2>2. \A m \in Markets : Explained(m, CurrentBase, Len(truth))
    BY <2>1 DEF Explained
  <2>. QED
    BY <1>2, <2>1, <2>2 DEF FeedInv
<1>7. /\ applied \in [Markets -> [last : Nat, snapshot : Nat]]
      /\ \A m \in Markets : applied[m].last = 0 /\ applied[m].snapshot = 0
  BY Zenon, <1>2
<1>8. AppliedInv
  BY <1>2, <1>7 DEF AppliedInv
<1>9. BooksInv
  <2>1. \A m \in Markets : Store!BookOf(m) = Store!EmptyBook
    BY Zenon, <1>2 DEF Store!BookOf
  <2>2. \A m \in Markets : BookOk(m, Store!EmptyBook)
    <3>1. /\ Store!EmptyBook.last_seq_id = None /\ Store!EmptyBook.has_snapshot = FALSE
          /\ Store!EmptyBook.desynced = FALSE /\ Store!EmptyBook.pending_deltas = <<>>
      BY Zenon DEF Store!EmptyBook
    <3>2. \A m \in Markets : (applied[m].snapshot > 0) = FALSE
      BY <1>7
    <3>. QED
      BY Zenon, <3>1, <3>2 DEF BookOk
  <2>. QED
    BY <1>2, <1>7, <2>1, <2>2 DEF BooksInv
<1>. QED
  BY Zenon, <1>4, <1>5, <1>6, <1>8, <1>9 DEF DeliveryInv, ContentInv

\* Induction over the natural numbers, and cardinalities.
Sums == INSTANCE FiniteSums

\* By induction from the last message that the book was given.
LEMMA QuantityHolds == QuantityStays
<1>0. SUFFICES ASSUME NEW m \in Markets, NEW last \in Nat, NEW b \in Int, NEW e \in Nat,
                      last = applied[m].last, b < last, last <= e, Explained(m, b, e),
                      \A y \in Flight \cup dropped :
                         y.kind = "kDelta" /\ y.market = m => ~(last < y.n /\ y.n <= e)
               PROVE  truth[e][m] = truth[last][m]
  BY DEF QuantityStays
<1> DEFINE T == {i \in Nat : last + i <= e => truth[last + i][m] = truth[last][m]}
<1>1. 0 \in T
  OBVIOUS
<1>2. ASSUME NEW i \in Nat, i \in T
      PROVE  i + 1 \in T
  <2>1. SUFFICES ASSUME last + (i + 1) <= e
                 PROVE  truth[last + (i + 1)][m] = truth[last][m]
    OBVIOUS
  <2>2. PICK k \in Nat : k = last + i
    OBVIOUS
  <2>3. /\ b < k /\ k < e /\ last <= k /\ last + (i + 1) = k + 1
        /\ last < k + 1 /\ k + 1 <= e /\ truth[k][m] = truth[last][m]
    BY SMTT(20), <1>0, <1>2, <2>1, <2>2
  <2>4. truth[k + 1][m] = truth[k][m]
    BY Zenon, <1>0, <2>3 DEF Explained
  <2>. QED
    BY Zenon, <2>3, <2>4
<1>3. Nat \subseteq T
  <2> HIDE DEF T
  <2>. QED
    BY Zenon, <1>1, <1>2, Sums!NatSetInduction
<1>4. e - last \in Nat /\ last + (e - last) = e
  BY <1>0
<1>. QED
  BY SMTT(20), <1>3, <1>4

\* Shard::run: the next message of a shard, whatever it is and whether or not it
\* parses.
LEMMA ContentAfterConsume ==
    ASSUME ContentInv, LineInv, NEW shard \in Shards, Consume(shard),
           NEW x, x = Head(shard_queue[shard]), Taken(x)
    PROVE  ContentInv'
<1>1. /\ x \in Message /\ AppliedInv /\ UNCHANGED <<truth, exchange, seq, snapshotted>>
      /\ x \in Flight /\ x.market \in Markets
  BY Zenon, KnownTypes DEF ContentInv, Taken, Consume, feedVars
<1>2. CASE ~ParseOk(x)
  <2>1. UNCHANGED <<books, applied>>
    BY Zenon, <1>2 DEF Consume
  <2>2. Kept
    BY Zenon, <1>2 DEF Taken, Kept, BookMessages, IsBookMessage, ParseOk
  <2>. QED
    BY Zenon, <1>1, <2>1, <2>2, ContentKept
<1>3. CASE ParseOk(x)
  <2>1. Given(x) /\ Store!apply(parse(x))
    BY Zenon, <1>1, <1>3, ConsumeGives
  <2>2. FeedInv' /\ (\A y \in Flight' : MessageInv(y)') /\ AppliedInv'
    BY SMTT(20), <1>1, <1>3, <2>1, FeedAfterConsume
  <2>3. /\ DOMAIN books' = DOMAIN books \cup {x.market}
        /\ \A o : o # x.market => Store!BookOf(o)' = Store!BookOf(o)
    BY Zenon, <1>1, <2>1, StoreMoves
  <2>4. DOMAIN books' \subseteq Markets
    BY ZenonT(30), <1>1, <2>3 DEF ContentInv, BooksInv
  <2>5. ASSUME NEW o \in Markets, o # x.market, NoSnapshotLost(o)'
        PROVE  /\ BookOk(o, Store!BookOf(o))'
               /\ (applied'[o].snapshot > 0 /\ Undamaged(o)') =>
                     Store!BookOf(o)'.bids = LevelsOf(truth'[applied'[o].last][o])
    <3>1. applied'[o] = applied[o] /\ dropped' = dropped /\ Flight' \subseteq Flight
      BY Zenon, <2>1, <2>5 DEF Given, Taken
    <3>2. NoSnapshotLost(o) /\ (Undamaged(o)' => Undamaged(o))
      BY Zenon, <2>5, <3>1 DEF NoSnapshotLost, Undamaged
    <3>3. /\ BookOk(o, Store!BookOf(o))
          /\ (applied[o].snapshot > 0 /\ Undamaged(o)) =>
                Store!BookOf(o).bids = LevelsOf(truth[applied[o].last][o])
      BY ZenonT(30), <2>5, <3>2 DEF ContentInv, BooksInv
    <3>4. Store!BookOf(o)' = Store!BookOf(o) /\ CurrentBase' = CurrentBase
      BY SMTT(20), <1>1, <2>3, <2>5 DEF CurrentBase
    <3>5. BookOk(o, Store!BookOf(o))'
      BY ZenonT(30), <1>1, <3>1, <3>3, <3>4 DEF BookOk
    <3>. QED
      BY ZenonT(30), <1>1, <3>1, <3>2, <3>3, <3>4, <3>5
  <2>6. ASSUME NoSnapshotLost(x.market)'
        PROVE  /\ BookOk(x.market, Store!BookOf(x.market))'
               /\ (applied'[x.market].snapshot > 0 /\ Undamaged(x.market)') =>
                     Store!BookOf(x.market)'.bids =
                        LevelsOf(truth'[applied'[x.market].last][x.market])
    BY ZenonT(30), <1>1, <1>3, <2>1, <2>6, QuantityHolds, TakenBook
  <2>7. BooksInv'
    <3>1. \A o \in Markets : NoSnapshotLost(o)' =>
             /\ BookOk(o, Store!BookOf(o))'
             /\ (applied'[o].snapshot > 0 /\ Undamaged(o)') =>
                   Store!BookOf(o)'.bids = LevelsOf(truth'[applied'[o].last][o])
      BY Zenon, <2>5, <2>6
    <3>. QED
      BY Zenon, <2>4, <3>1 DEF BooksInv
  <2>. QED
    BY Zenon, <2>2, <2>7 DEF ContentInv
<1>. QED
  BY Zenon, <1>2, <1>3

\* Every step of every thread keeps the order and the meaning of the messages.
LEMMA DeliveryStep == OwnInv /\ DeliveryInv /\ [Next]_vars => DeliveryInv'
<1> SUFFICES ASSUME OwnInv, DeliveryInv, [Next]_vars PROVE DeliveryInv'
  BY ZenonT(30)
<1>1. /\ LineInv /\ ContentInv /\ Len(truth) \in Nat /\ truth \in Seq([Markets -> Nat])
      /\ seq \in Nat /\ exchange \in [Markets -> Nat] /\ snapshotted \subseteq Markets
  BY DEF DeliveryInv, ContentInv, FeedInv
<1>2. ASSUME NEW kind \in {"kSnapshot", "kDelta", "kTrade", "malformed", "control"},
             NEW m \in Markets, NEW lots \in Int, push_message(kind, m, lots),
             kind = "kSnapshot" => lots = exchange[m],
             kind = "kDelta" => m \in snapshotted /\ exchange[m] + lots \in Nat
      PROVE  DeliveryInv'
  <2>1. exchange' \in [Markets -> Nat]
    BY Zenon, <1>1, <1>2 DEF push_message
  <2>2. /\ LineInv'
        /\ \/ Flight' = Flight \cup {Sent(kind, m, lots)} /\ dropped' = dropped
           \/ Flight' = Flight /\ dropped' = dropped \cup BookMessages({Sent(kind, m, lots)})
    BY Zenon, <1>1, <1>2, <2>1, SendMoves
  <2>. QED
    BY Zenon, <1>1, <1>2, <2>2, ContentAfterSend DEF DeliveryInv
<1>3. ASSUME NEW m \in Markets, ReceiveSnapshot(m)
      PROVE  DeliveryInv'
  BY <1>1, <1>2, <1>3 DEF ReceiveSnapshot
<1>4. ASSUME NEW m \in Markets, ReceiveDelta(m)
      PROVE  DeliveryInv'
  <2>1. PICK lots \in {-1, 1} :
           exchange[m] + lots \in 0..MaxLots /\ push_message("kDelta", m, lots)
    BY Zenon, <1>4 DEF ReceiveDelta
  <2>2. lots \in Int /\ exchange[m] + lots \in Nat /\ m \in snapshotted
    BY <1>4, <2>1, PipelineAssumption DEF ReceiveDelta
  <2>. QED
    BY Zenon, <1>2, <2>1, <2>2
<1>5. ASSUME NEW m \in Markets, ReceiveOther(m)
      PROVE  DeliveryInv'
  <2>1. PICK kind \in {"kTrade", "malformed", "control"} : push_message(kind, m, 0)
    BY Zenon, <1>5 DEF ReceiveOther
  <2>. QED
    BY <1>2, <2>1
<1>6. ASSUME UNCHANGED <<slots, sink, frame_queue, pump, shard_queue, truth>>
      PROVE  LineInv' /\ Flight' = Flight
  <2>1. \A x : /\ IsEntering(x)' <=> IsEntering(x)
               /\ IsPumped(x)' <=> IsPumped(x)
               /\ IsUpstream(x)' <=> IsUpstream(x)
               /\ IsRouted(x)' <=> IsRouted(x)
    BY Zenon, <1>6 DEF IsEntering, IsWaiting, IsPumped, IsUpstream, IsRouted
  <2>2. LineInv'
    BY <1>1, <1>6, <2>1, LineKept
  <2>. QED
    BY Zenon, <2>1, <2>2 DEF Flight
<1>7. CASE Reconnect
  <2>1. LineInv' /\ Flight' = Flight /\ dropped' = dropped
    BY Zenon, <1>6, <1>7 DEF Reconnect, poolVars
  <2>. QED
    BY Zenon, <1>1, <1>7, <2>1, ContentAfterReconnect DEF DeliveryInv
<1>8. ASSUME LineInv', Kept, UNCHANGED <<feedVars, books, applied>>
      PROVE  DeliveryInv'
  <2>1. UNCHANGED <<truth, exchange, seq, snapshotted, books, applied>>
    BY Zenon, <1>8 DEF feedVars
  <2>. QED
    BY <1>1, <1>8, <2>1, ContentKept DEF DeliveryInv
<1>9. CASE PushFrame
  BY SMTT(20), <1>1, <1>8, <1>9, PushFrameMoves DEF PushFrame
<1>10. CASE PumpPop
  BY SMTT(20), <1>1, <1>8, <1>10, PumpPopMoves DEF PumpPop
<1>11. CASE PumpRoute
  BY ZenonT(30), <1>1, <1>8, <1>11, PumpRouteMoves DEF PumpRoute
<1>12. CASE PumpRelease
  BY <1>1, <1>8, <1>12, PumpReleaseMoves DEF PumpRelease
<1>13. ASSUME NEW shard \in Shards, Consume(shard)
       PROVE  DeliveryInv'
  <2>1. PICK x : x = Head(shard_queue[shard])
    BY Zenon
  <2>2. LineInv' /\ Taken(x)
    BY Zenon, <1>1, <1>13, <2>1, ConsumeMoves DEF Taken
  <2>. QED
    BY <1>1, <1>13, <2>1, <2>2, ContentAfterConsume DEF DeliveryInv
<1>14. ASSUME UNCHANGED <<poolVars, feedVars, sink, frame_queue, pump, shard_queue, books,
                          dropped, applied>>
       PROVE  DeliveryInv'
  <2>1. LineInv' /\ Flight' = Flight
    BY Zenon, <1>6, <1>14 DEF poolVars, feedVars
  <2>2. Kept
    BY Zenon, <1>14, <2>1 DEF Kept, BookMessages
  <2>. QED
    BY SMTT(20), <1>8, <1>14, <2>1, <2>2
<1>15. ASSUME NEW shard \in Shards, StopShard(shard)
       PROVE  DeliveryInv'
  BY Zenon, <1>14, <1>15 DEF StopShard
<1>16. CASE Start
  BY Zenon, <1>14, <1>16 DEF Start
<1>17. CASE UNCHANGED vars
  BY Zenon, <1>14, <1>17 DEF vars
<1>. QED
  BY SMTT(20), <1>3, <1>4, <1>5, <1>7, <1>9, <1>10, <1>11, <1>12, <1>13, <1>15, <1>16, <1>17
     DEF Next, Pump

\* The messages of a market travel in order, and what the books were given, what
\* is on its way and what was dropped together explain the exchange.
THEOREM DeliveryInvariance == Spec => []DeliveryInv
<1>. QED
  BY OwnInvariance, DeliveryInitially, DeliveryStep, PTL DEF Spec

\* LivePipeline, Router, Shard and BookStore: for any number of markets, shards,
\* frames and reconnections, a book in sync shows what the exchange had when it
\* sent the last message the book was given, if nothing that matters was lost.
THEOREM BooksMatchExchange == Spec => []BookMatchesExchange
<1>1. DeliveryInv => BookMatchesExchange
  <2>1. SUFFICES ASSUME DeliveryInv, NEW m \in DOMAIN books, books[m].has_snapshot,
                        Undamaged(m)
                 PROVE  books[m].bids = LevelsOf(truth[applied[m].last][m])
    BY Zenon DEF BookMatchesExchange, LevelsOf
  <2>2. BooksInv /\ m \in Markets /\ Store!BookOf(m) = books[m]
    BY Zenon, <2>1 DEF DeliveryInv, ContentInv, BooksInv, Store!BookOf
  <2>3. NoSnapshotLost(m)
    BY Zenon, <2>1 DEF Undamaged, NoSnapshotLost
  <2>4. applied[m].snapshot > 0
    BY Zenon, <2>1, <2>2, <2>3 DEF BooksInv, BookOk
  <2>. QED
    BY <2>1, <2>2, <2>3, <2>4 DEF BooksInv
<1>. QED
  BY <1>1, DeliveryInvariance, PTL

-----------------------------------------------------------------------------
(* The frames                                                              *)

\* Cardinality, as the theorems on finite sets name it.
LEMMA SameCardinality == \A S : Sums!Cardinality(S) = Cardinality(S)
BY Zenon DEF Sums!Cardinality, Cardinality, Sums!IsFiniteSet, IsFiniteSet

\* No frame is leaked and none is shared, however the feed thread, the main
\* thread and the shards interleave: every slot of the pool is free, once, or
\* held, once, under a valid handle (FrameOwnership).
THEOREM FramesAreOwned == Spec => []FrameOwnership
<1>1. ASSUME OwnInv PROVE FrameOwnership
  <2>1. /\ \A i \in DOMAIN HeldRefs : RefIsValid(HeldRefs[i]) /\ HeldRefs[i].slot \in Slots
        /\ \A i, j \in DOMAIN HeldRefs : HeldRefs[i].slot = HeldRefs[j].slot => i = j
        /\ \A slot \in Slots :
              in_use[slot] => \E i \in DOMAIN HeldRefs : HeldRefs[i].slot = slot
    BY Zenon, <1>1, HeldRefsOwn
  <2>2. ASSUME NEW slot \in Slots
        PROVE  Cardinality({i \in DOMAIN HeldRefs : HeldRefs[i].slot = slot})
                 + Cardinality({i \in DOMAIN free_slots : free_slots[i] = slot}) = 1
    <3> DEFINE H == {i \in DOMAIN HeldRefs : HeldRefs[i].slot = slot}
               F == {i \in DOMAIN free_slots : free_slots[i] = slot}
    <3>1. CASE in_use[slot]
      <4>1. PICK i \in DOMAIN HeldRefs : HeldRefs[i].slot = slot
        BY Zenon, <2>1, <3>1
      <4>2. H = {i}
        BY <2>1, <4>1
      <4>3. F = {}
        BY Zenon, <1>1, <3>1 DEF OwnInv, PoolInv, IsFree
      <4>4. Cardinality(H) = 1 /\ Cardinality(F) = 0
        BY Zenon, <4>2, <4>3, SameCardinality, Sums!FS_EmptySet, Sums!FS_Singleton
      <4>. QED
        BY <4>4
    <3>2. CASE ~in_use[slot]
      <4>1. PICK i \in DOMAIN free_slots : free_slots[i] = slot
        BY Zenon, <1>1, <3>2 DEF OwnInv, PoolInv, IsFree
      <4>2. F = {i}
        BY Zenon, <1>1, <4>1 DEF OwnInv, PoolInv
      <4>3. H = {}
        BY <2>1, <3>2 DEF RefIsValid
      <4>4. Cardinality(H) = 0 /\ Cardinality(F) = 1
        BY Zenon, <4>2, <4>3, SameCardinality, Sums!FS_EmptySet, Sums!FS_Singleton
      <4>. QED
        BY <4>4
    <3>. QED
      BY Zenon, <3>1, <3>2
  <2>. QED
    BY Zenon, <2>1, <2>2 DEF FrameOwnership
<1>. QED
  BY <1>1, OwnInvariance, PTL
=============================================================================
