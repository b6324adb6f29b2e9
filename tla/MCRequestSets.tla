---------------------------- MODULE MCRequestSets ----------------------------
(* Sets of orders for the small instances of the three books. *)
EXTENDS LobTypes, FiniteSetsExt

Limit(ids, tif, side, price, qty, participant) ==
    {o \in Order(ids, {price}, {qty}, {participant}) :
        o.type = "Limit" /\ o.tif = tif /\ o.side = side}
Market(ids, tif, participant) ==
    {o \in Order(ids, {kMarketOrderPrice}, {2}, {participant}) :
        o.type = "Market" /\ o.tif = tif}

\* Orders that may rest, without a participant at every price and of
\* participant 1 at own_prices; orders of participant 1 that may not, large
\* enough to sweep two makers; orders that validation refuses.  An amend
\* makes larger orders out of these.
RequestsOver(ids, prices, own_prices) ==
    UNION {Limit(ids, "GTC", s, p, 1, kNoParticipant) : s \in Side, p \in prices}
    \cup UNION {Limit(ids, "GTC", s, p, 1, 1) : s \in Side, p \in own_prices}
    \cup UNION {Limit(ids, "FOK", s, p, 2, 1) : s \in Side, p \in own_prices}
    \cup Limit(ids, "IOC", "Sell", Min(prices), 2, 1)
    \cup UNION {Market(ids, tif, 1) : tif \in {"GTC", "FOK"}}
    \cup Limit(ids, "GTC", "Buy", 1, 0, 1)
    \cup Limit(ids, "GTC", "Sell", 0, 1, 1)
=============================================================================
