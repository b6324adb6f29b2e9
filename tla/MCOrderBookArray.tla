--------------------------- MODULE MCOrderBookArray ---------------------------
(* Small instances of OrderBookArray for TLC. *)
EXTENDS OrderBookArray, MCRequestSets, TLC

CONSTANTS MCPrices, MCOwnPrices

MCRequests == RequestsOver(OrderIds, MCPrices, MCOwnPrices)

\* Ids are only ever compared for equality.
Symmetry == Permutations(OrderIds)
=============================================================================
