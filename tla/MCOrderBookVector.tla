--------------------------- MODULE MCOrderBookVector ---------------------------
(* Small instances of OrderBookVector for TLC. *)
EXTENDS OrderBookVector, MCRequestSets, TLC

CONSTANTS MCPrices, MCOwnPrices

MCRequests == RequestsOver(OrderIds, MCPrices, MCOwnPrices)

\* Ids are only ever compared for equality.
Symmetry == Permutations(OrderIds)
=============================================================================
