---------------------------- MODULE MCIdIndexMap ----------------------------
(* Small instances of IdIndexMap for TLC. *)
EXTENDS IdIndexMap, TLC

\* Keys differ only in where they hash, which `mixed` permutes with them.
Symmetry == Permutations(OrderIds)
=============================================================================
