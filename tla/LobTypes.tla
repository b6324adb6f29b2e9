------------------------------ MODULE LobTypes ------------------------------
(***************************************************************************)
(* The vocabulary of types.hpp and order.hpp: enumerations, sentinels, the *)
(* Order record and the ExecutionReport handed back to a caller.           *)
(*                                                                         *)
(* Abstractions.  An order carries no symbol (a book serves one symbol), no*)
(* timestamp (the matching code never reads it: time priority is the order *)
(* of a level's list) and no `quantity` (the entry quantity is the local   *)
(* original_quantity of add_order; nothing reads it once the order rests). *)
(***************************************************************************)
EXTENDS Integers, Sequences

Side == {"Buy", "Sell"}
OrderType == {"Limit", "Market"}
TimeInForce == {"GTC", "IOC", "FOK"}
RejectReason == {"None", "InvalidQuantity", "InvalidPrice", "PriceOutOfRange",
                 "UnknownSymbol", "DuplicateOrderId", "UnknownOrder",
                 "RiskMaxOrderSize", "RiskMaxPosition", "RiskRateLimited"}
SelfTradePrevention ==
    {"None", "CancelResting", "CancelIncoming", "CancelBoth"}

\* Sentinels.  Pool slots are numbered from 1 here, so 0 is free for
\* kNullIndex (UINT32_MAX in the code).
kInvalidOrderId == 0
kMarketOrderPrice == 0
kNoParticipant == 0
kNullIndex == 0

\* The book side an order of side s trades against.
Opposite(s) == IF s = "Buy" THEN "Sell" ELSE "Buy"

\* Orders over the given identifiers, prices, quantities and participants.
Order(ids, prices, quantities, participants) ==
    [id : ids, side : Side, type : OrderType, tif : TimeInForce,
     price : prices, remaining : quantities, participant : participants]

\* (mutant) Every limit order may rest.
rests_if_limit(o) == o.type = "Limit"

\* Order::rests_in_book.
rests_in_book(o) == o.type = "Limit" /\ o.tif = "GTC"

\* A default-constructed Order, and the absence of a report.
NoOrder == [id |-> kInvalidOrderId, side |-> "Buy", type |-> "Limit",
            tif |-> "GTC", price |-> 0, remaining |-> 0,
            participant |-> kNoParticipant]
NoReport == [id |-> kInvalidOrderId]

ExecutionReport(id, status, filled, remaining, reason) ==
    [id |-> id, status |-> status, filled |-> filled,
     remaining |-> remaining, reason |-> reason]

Rejected(id, reason) == ExecutionReport(id, "Rejected", 0, 0, reason)

\* (mutant) A level exactly at the limit is out of reach.
PriceBetter(t, p) ==
    \/ t.type = "Market"
    \/ t.side = "Buy" /\ t.price > p
    \/ t.side = "Sell" /\ t.price < p

\* A level at price p is within reach of taker t: the break conditions of
\* match_against_book and has_liquidity_for, negated.
PriceOk(t, p) ==
    \/ t.type = "Market"
    \/ t.side = "Buy" /\ t.price >= p
    \/ t.side = "Sell" /\ t.price <= p

\* p is at least as good a resting price as q on book side s.
Better(s, p, q) == IF s = "Buy" THEN p >= q ELSE p <= q

\* The best price of a non-empty set of prices on side s.
BestOf(s, P) == CHOOSE p \in P : \A q \in P : Better(s, p, q)

\* (mutant) Only one of the three policies is enforced.
SelfTradeOnePolicy(policy, t, m) ==
    /\ policy = "CancelResting"
    /\ t.participant # kNoParticipant
    /\ t.participant = m.participant

\* The test made before any quantity changes hands.
SelfTrade(policy, t, m) ==
    /\ policy # "None"
    /\ t.participant # kNoParticipant
    /\ t.participant = m.participant

\* What a self-trade does to the resting and to the incoming order.
CancelsResting(policy) == policy \in {"CancelResting", "CancelBoth"}
CancelsIncoming(policy) == policy \in {"CancelIncoming", "CancelBoth"}

\* (mutant) The taker's quantity is traded whatever the maker has.
FirstOf(a, b) == a

\* std::min.
MinOf(a, b) == IF a <= b THEN a ELSE b
=============================================================================
