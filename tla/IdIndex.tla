------------------------------- MODULE IdIndex -------------------------------
(***************************************************************************)
(* What IdIndexMap promises an order book: a partial function from order   *)
(* ids to pool slots.  The books use its operators on their id_index;      *)
(* IdIndexMap is shown to implement the specification.                     *)
(***************************************************************************)
EXTENDS Functions

CONSTANTS OrderIds, Values
VARIABLE index

EmptyIndex == <<>>

\* (mutant) The entry stays.
keep_entry(map, id) == map

erase(map, id) == Restrict(map, DOMAIN map \ {id})

\* An id that is present keeps its value.
insert(map, id, value) ==
    [k \in DOMAIN map \union {id} |-> IF k \in DOMAIN map THEN map[k] ELSE value]

Init == index = EmptyIndex

Insert ==
    \E id \in OrderIds \ DOMAIN index, v \in Values : index' = insert(index, id, v)

Erase == \E id \in DOMAIN index : index' = erase(index, id)

Clear == index' = EmptyIndex

Next == Insert \/ Erase \/ Clear

Spec == Init /\ [][Next]_index
=============================================================================
