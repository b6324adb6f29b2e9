---------------------------- MODULE MCOrderBook ----------------------------
(* Small instances of OrderBook for TLC. *)
EXTENDS OrderBook, TLC

CONSTANTS MCPrices, MCQuantities, MCParticipants

\* A market order's price is never read, nor whether it is GTC or IOC: one
\* value stands for all.  An order that validation refuses for its quantity
\* or price is refused whatever else it says.
MCRequests ==
    {o \in Order(OrderIds, MCPrices \cup {0}, MCQuantities, MCParticipants) :
        IF o.remaining <= 0 THEN o.price = 1 /\ o.type = "Limit" /\ o.tif = "GTC"
        ELSE IF o.price <= 0 /\ o.type = "Limit" THEN o.tif = "GTC"
        ELSE o.type = "Market" => o.price = kMarketOrderPrice /\ o.tif # "IOC"}

\* Ids are only ever compared for equality.
Symmetry == Permutations(OrderIds)
=============================================================================
