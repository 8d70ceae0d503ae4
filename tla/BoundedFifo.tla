---------------------------- MODULE BoundedFifo -----------------------------
(***************************************************************************)
(* What a single-producer single-consumer queue promises: values come out  *)
(* in the order they went in, each one once, and no more than Bound are    *)
(* inside.                                                                 *)
(***************************************************************************)
EXTENDS Naturals, Sequences

CONSTANTS Values, Bound, NoValue

VARIABLES
    items,      \* the values inside, oldest first
    delivered   \* the value the last pop returned

vars == <<items, delivered>>

Init == items = <<>> /\ delivered = NoValue

Push(value) ==
    /\ Len(items) < Bound
    /\ items' = Append(items, value)
    /\ UNCHANGED delivered

Pop ==
    /\ items # <<>>
    /\ items' = Tail(items)
    /\ delivered' = Head(items)

Next == Pop \/ \E value \in Values : Push(value)

Spec == Init /\ [][Next]_vars
=============================================================================
