----------------------------- MODULE FramePool ------------------------------
(***************************************************************************)
(* FramePool: a fixed set of frame slots with generation-checked handles.  *)
(* Every call holds the pool's mutex and is one step.  A FrameRef names a  *)
(* slot and the generation it was handed out in; its sizes and timestamps  *)
(* are left out.                                                           *)
(***************************************************************************)
EXTENDS Naturals, Sequences

CONSTANTS
    slot_count,         \* capacity of the pool
    GenerationRange     \* 2^64 in the code: where a generation wraps to 0

ASSUME PoolAssumption == slot_count \in Nat /\ GenerationRange \in Nat /\ GenerationRange > 1

VARIABLES
    free_slots,      \* stack of free slots
    in_use,          \* slot -> handed out and not yet released
    generations,     \* slot -> generation
    slots            \* slot -> content of the frame

poolVars == <<free_slots, in_use, generations, slots>>

Slots == 0..(slot_count - 1)

kInitialGeneration == 1

FrameRef == [slot : Slots, generation : 1..(GenerationRange - 1)]

\* RawFrame{}
EmptyFrame == "empty"

PoolInit ==
    /\ free_slots = [i \in 1..slot_count |-> slot_count - i]
    /\ in_use = [slot \in Slots |-> FALSE]
    /\ generations = [slot \in Slots |-> kInitialGeneration]
    /\ slots = [slot \in Slots |-> EmptyFrame]

CanAcquire == free_slots # <<>>

\* The handle that acquire returns.
AcquiredRef ==
    LET slot == free_slots[Len(free_slots)]
    IN  [slot |-> slot, generation |-> generations[slot]]

\* acquire, and the caller's writing of the frame: the slot is its own
acquire(content) ==
    LET slot == AcquiredRef.slot
    IN  /\ CanAcquire
        /\ free_slots' = SubSeq(free_slots, 1, Len(free_slots) - 1)
        /\ in_use' = [in_use EXCEPT ![slot] = TRUE]
        /\ slots' = [slots EXCEPT ![slot] = content]
        /\ UNCHANGED generations

\* The check of release and of frame.
RefIsValid(ref) == in_use[ref.slot] /\ ref.generation = generations[ref.slot]

\* 0 is skipped when the counter wraps.
NextGeneration(generation) ==
    IF (generation + 1) % GenerationRange = 0 THEN kInitialGeneration
    ELSE (generation + 1) % GenerationRange

\* The content of a free slot, which acquire clears, is cleared here.
release(ref) ==
    IF RefIsValid(ref)
    THEN /\ in_use' = [in_use EXCEPT ![ref.slot] = FALSE]
         /\ generations' = [generations EXCEPT ![ref.slot] = NextGeneration(@)]
         /\ free_slots' = Append(free_slots, ref.slot)
         /\ slots' = [slots EXCEPT ![ref.slot] = EmptyFrame]
    ELSE UNCHANGED poolVars
=============================================================================
