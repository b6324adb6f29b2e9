--------------------------- MODULE MCOrderBookMap ---------------------------
(* Small instances of OrderBookMap for TLC. *)
EXTENDS OrderBookMap, MCRequestSets, TLC

CONSTANTS MCPrices, MCOwnPrices

MCRequests == RequestsOver(OrderIds, MCPrices, MCOwnPrices)

\* Ids are only ever compared for equality.
Symmetry == Permutations(OrderIds)
=============================================================================
