------------------------------ MODULE IndexSet ------------------------------
(***************************************************************************)
(* What Bitset promises OrderBookArray: a set of indices that changes one  *)
(* index at a time, and the nearest member in either direction.            *)
(***************************************************************************)
EXTENDS Naturals, FiniteSetsExt

CONSTANT nullopt
VARIABLE bits

find_next_set(set, from) ==
    LET I == {i \in set : i >= from} IN IF I = {} THEN nullopt ELSE Min(I)

find_prev_set(set, from) ==
    LET I == {i \in set : i <= from} IN IF I = {} THEN nullopt ELSE Max(I)

Init == bits = {}

\* One index at most enters or leaves.
Next == Cardinality(bits \ bits') + Cardinality(bits' \ bits) <= 1

Spec == Init /\ [][Next]_bits
=============================================================================
