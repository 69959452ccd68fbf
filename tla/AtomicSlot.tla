----------------------------- MODULE AtomicSlot -----------------------------
(***************************************************************************)
(* What clients may see of a hash slot, wherever it is stored: one set of  *)
(* keys that only their own commands change.  A key may be out of reach    *)
(* for a while, but no node answers for it with anything but the truth.    *)
(***************************************************************************)
CONSTANT Keys

VARIABLES
    data,     \* the keys that exist in the slot
    answers   \* per key, what a command sent now may be answered: a set of
              \* "exists" and "missing", empty when no node answers

vars == <<data, answers>>

Right(D) == {a \in [Keys -> SUBSET {"exists", "missing"}] :
                \A k \in Keys : a[k] \subseteq {IF k \in D THEN "exists" ELSE "missing"}}

Init == data \in SUBSET Keys /\ answers \in Right(data)

Write(k) == data' \in {data \cup {k}, data \ {k}} /\ answers' \in Right(data')

\* The slot or some of its keys change their place.
Move == UNCHANGED data /\ answers' \in Right(data)

Next == Move \/ \E k \in Keys : Write(k)

Spec == Init /\ [][Next]_vars
=============================================================================
