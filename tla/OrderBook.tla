------------------------------ MODULE OrderBook ------------------------------
(***************************************************************************)
(* What one limit order book promises, whichever structure holds its price *)
(* levels: per side, a FIFO queue of resting orders at each price.  A call *)
(* of add_order, cancel_order, amend_order or reset runs to completion on  *)
(* one thread; a call that matches takes one step per maker it meets, so   *)
(* that every state in which a trade callback can look at the book is a    *)
(* state of the model.  OrderBookMap, OrderBookVector and OrderBookArray   *)
(* are shown to implement this specification.                              *)
(***************************************************************************)
EXTENDS LobTypes, Functions

CONSTANTS OrderIds,        \* ids that clients and the engine give to orders
          Requests,        \* orders that clients may submit
          AmendQuantities, \* new quantities an amend may ask for
          AmendPrices,     \* new prices an amend may ask for
          BookPrices,      \* prices at which this book lets an order rest
          StpPolicies,     \* self-trade policies a book may be built with
          nullopt          \* std::nullopt: an amend without a price

ASSUME IdAssumption == kInvalidOrderId \notin OrderIds
ASSUME RequestAssumption == Requests \subseteq Order(OrderIds, Int, Int, Nat)
ASSUME AmendAssumption == AmendQuantities \subseteq Int /\ AmendPrices \subseteq Int
\* Prices are positive and have a largest representable value (int64_t).
ASSUME BookPricesAssumption ==
    /\ BookPrices \subseteq Nat \ {kMarketOrderPrice}
    /\ \E max \in BookPrices \cup {0} : \A p \in BookPrices : p <= max
ASSUME StpAssumption == StpPolicies \subseteq SelfTradePrevention
ASSUME NulloptAssumption == nullopt \notin Int

VARIABLES
  queue,       \* queue[side][price]: resting orders, oldest first
  stp_policy,  \* chosen when the book is built, never changed
  pc,          \* "idle" | "match" | "killed" (STP hit the taker) | "return"
  taker,       \* the order being matched
  original,    \* add_order's original_quantity
  trades,      \* trades printed by the current call
  report       \* what the current call returns

vars == <<queue, stp_policy, pc, taker, original, trades, report>>

\* Prices at which side s of book q holds an order.
Levels(q, s) == {p \in BookPrices : q[s][p] # <<>>}

HasId(f, id) == \E i \in DOMAIN f : f[i].id = id
Contains(q, id) == \E s \in Side, p \in BookPrices : HasId(q[s][p], id)

\* A queue without its i-th element.
Without(f, i) == [j \in 1..Len(f) - 1 |-> IF j < i THEN f[j] ELSE f[j + 1]]

\* Sum of the open quantity in one queue.
LevelQuantity(f) == SumFunction([i \in DOMAIN f |-> f[i].remaining])

\* (mutant) The dry run is satisfied one unit too early.
ShortLiquidity(q, t) ==
    LET s == Opposite(t.side)
        reach == {p \in Levels(q, s) : PriceOk(t, p)}
    IN  SumFunction([p \in reach |-> LevelQuantity(q[s][p])]) >= t.remaining - 1

\* has_liquidity_for: the dry run counts every order within the taker's
\* price, the taker's own participant included.
has_liquidity_for(q, t) ==
    LET s == Opposite(t.side)
        reach == {p \in Levels(q, s) : PriceOk(t, p)}
    IN  SumFunction([p \in reach |-> LevelQuantity(q[s][p])]) >= t.remaining

-----------------------------------------------------------------------------
Init ==
    /\ queue = [s \in Side |-> [p \in BookPrices |-> <<>>]]
    /\ stp_policy \in StpPolicies
    /\ pc = "idle"
    /\ taker = NoOrder
    /\ original = 0
    /\ trades = <<>>
    /\ report = NoReport

\* The call is about to hand `r` back to its caller.
Answer(r) == report' = r /\ taker' = NoOrder /\ original' = 0
Return(r) == pc' = "return" /\ Answer(r)

\* (mutant) The id index is not consulted.
ValidateNoDuplicate(q, o) ==
    IF o.remaining <= 0 THEN "InvalidQuantity"
    ELSE IF o.type = "Limit" /\ o.price <= 0 THEN "InvalidPrice"
    ELSE IF o.type = "Limit" /\ o.price \notin BookPrices THEN "PriceOutOfRange"
    ELSE "None"

\* The order in which add_order validates, on book q.
Validate(q, o) ==
    IF o.remaining <= 0 THEN "InvalidQuantity"
    ELSE IF o.type = "Limit" /\ o.price <= 0 THEN "InvalidPrice"
    ELSE IF o.type = "Limit" /\ o.price \notin BookPrices THEN "PriceOutOfRange"
    ELSE IF o.id # kInvalidOrderId /\ Contains(q, o.id) THEN "DuplicateOrderId"
    ELSE "None"

\* add_order up to the matching loop, for one of the orders in O, on book q
\* (the book after the cancel when an amend resubmits its replacement).
Refuse(q, O) ==
    \E id \in OrderIds, reason \in RejectReason \ {"None"} :
        /\ Return(Rejected(id, reason))
        /\ \E o \in O : o.id = id /\ Validate(q, o) = reason

Kill(q, O) ==
    \E id \in OrderIds :
        /\ Return(ExecutionReport(id, "Cancelled", 0, 0, "None"))
        /\ \E o \in O : /\ o.id = id
                        /\ o.tif = "FOK"
                        /\ Validate(q, o) = "None"
                        /\ ~has_liquidity_for(q, o)

\* (mutant) A FOK order is matched without a dry run.
AcceptNoDryRun(q, O) ==
    \E o \in O :
        /\ pc' = "match"
        /\ taker' = o
        /\ original' = o.remaining
        /\ report' = NoReport
        /\ Validate(q, o) = "None"

Accept(q, O) ==
    \E o \in O :
        /\ pc' = "match"
        /\ taker' = o
        /\ original' = o.remaining
        /\ report' = NoReport
        /\ Validate(q, o) = "None"
        /\ o.tif = "FOK" => has_liquidity_for(q, o)

Enter(q, O) == trades' = <<>> /\ (Refuse(q, O) \/ Kill(q, O) \/ Accept(q, O))

AddOrder ==
    /\ pc = "idle"
    /\ UNCHANGED <<queue, stp_policy>>
    /\ Enter(queue, Requests)

\* (mutant) Any level within the limit will do, not only the best.
ReachableAnyLevel(p) ==
    /\ taker.remaining > 0
    /\ p \in Levels(queue, Opposite(taker.side))
    /\ PriceOk(taker, p)

\* The best level on the far side, if the taker still wants and reaches it.
Reachable(p) ==
    LET s == Opposite(taker.side)
    IN  /\ taker.remaining > 0
        /\ p \in Levels(queue, s)
        /\ \A r \in Levels(queue, s) : Better(s, p, r)
        /\ PriceOk(taker, p)

\* The taker trades with the oldest order of the best level, at its price.
Fill ==
    /\ pc = "match"
    /\ \E p \in BookPrices :
        LET s == Opposite(taker.side)
            maker == Head(queue[s][p])
            qty == MinOf(taker.remaining, maker.remaining)
            rest == [maker EXCEPT !.remaining = @ - qty]
        IN  /\ Reachable(p)
            /\ ~SelfTrade(stp_policy, taker, maker)
            /\ taker' = [taker EXCEPT !.remaining = @ - qty]
            /\ queue' = [queue EXCEPT ![s][p] =
                            IF rest.remaining = 0 THEN Tail(@)
                            ELSE [@ EXCEPT ![1] = rest]]
            /\ trades' = Append(trades,
                   [maker |-> maker.id, price |-> p, quantity |-> qty,
                    participant |-> maker.participant])
    /\ UNCHANGED <<stp_policy, pc, original, report>>

\* (mutant) The killed taker's remaining quantity is zeroed.
PreventSelfTradeZeroing ==
    /\ pc = "match"
    /\ CancelsIncoming(stp_policy)
    /\ \E p \in BookPrices :
        /\ Reachable(p)
        /\ SelfTrade(stp_policy, taker, Head(queue[Opposite(taker.side)][p]))
    /\ taker' = [taker EXCEPT !.remaining = 0]
    /\ pc' = "killed"
    /\ UNCHANGED <<queue, stp_policy, original, trades, report>>

\* (mutant) `continue` without cancelling the resting order.
PreventSelfTradeSpinning ==
    /\ pc = "match"
    /\ \E p \in BookPrices :
        /\ Reachable(p)
        /\ SelfTrade(stp_policy, taker, Head(queue[Opposite(taker.side)][p]))
    /\ pc' = IF CancelsIncoming(stp_policy) THEN "killed" ELSE "match"
    /\ UNCHANGED <<queue, stp_policy, taker, original, trades, report>>

\* The oldest order of the best level belongs to the taker's participant:
\* the policy says which of the two orders goes, and no trade is printed.
PreventSelfTrade ==
    /\ pc = "match"
    /\ \E p \in BookPrices :
        LET s == Opposite(taker.side)
        IN  /\ Reachable(p)
            /\ SelfTrade(stp_policy, taker, Head(queue[s][p]))
            /\ queue' = IF CancelsResting(stp_policy)
                        THEN [queue EXCEPT ![s][p] = Tail(@)]
                        ELSE queue
    /\ pc' = IF CancelsIncoming(stp_policy) THEN "killed" ELSE "match"
    /\ UNCHANGED <<stp_policy, taker, original, trades, report>>

\* The rest of add_order once the matching loop has ended.
Finish ==
    LET filled == original - taker.remaining
    IN  /\ \/ pc = "match" /\ \A p \in BookPrices : ~Reachable(p)
           \/ pc = "killed"
        /\ \/ /\ taker.remaining = 0
              /\ Return(ExecutionReport(taker.id, "Filled", filled, 0, "None"))
              /\ UNCHANGED queue
           \/ /\ taker.remaining # 0 /\ pc # "killed" /\ rests_in_book(taker)
              /\ queue' = [queue EXCEPT ![taker.side][taker.price] = Append(@, taker)]
              /\ Return(ExecutionReport(taker.id,
                            IF filled > 0 THEN "PartiallyFilled" ELSE "New",
                            filled, taker.remaining, "None"))
           \/ /\ taker.remaining # 0 /\ ~(pc # "killed" /\ rests_in_book(taker))
              /\ Return(ExecutionReport(taker.id, "Cancelled", filled, 0, "None"))
              /\ UNCHANGED queue
        /\ UNCHANGED <<stp_policy, trades>>

\* cancel_order's answer is a bool.
CancelOrder ==
    /\ pc = "idle"
    /\ UNCHANGED <<stp_policy, trades>>
    /\ \E id \in OrderIds :
        \/ /\ Return([id |-> id, cancelled |-> FALSE])
           /\ ~Contains(queue, id)
           /\ UNCHANGED queue
        \/ /\ Return([id |-> id, cancelled |-> TRUE])
           /\ \E s \in Side, p \in BookPrices : \E i \in DOMAIN queue[s][p] :
                /\ queue[s][p][i].id = id
                /\ queue' = [queue EXCEPT ![s][p] = Without(@, i)]

\* An amend that is refused and leaves the book alone.  A book whose prices
\* are bounded refuses an unbookable price here; the others cancel first and
\* let add_order refuse the replacement (AmendReplace).
AmendReject ==
    /\ pc = "idle"
    /\ UNCHANGED <<queue, stp_policy, trades>>
    /\ \E id \in OrderIds :
        \/ /\ Return(Rejected(id, "UnknownOrder"))
           /\ ~Contains(queue, id)
        \/ /\ Return(Rejected(id, "InvalidQuantity"))
           /\ \E q \in AmendQuantities : q <= 0
           /\ Contains(queue, id)
        \/ /\ Return(Rejected(id, "PriceOutOfRange"))
           /\ \E q \in AmendQuantities : q > 0
           /\ \E p \in AmendPrices : p \notin BookPrices
           /\ Contains(queue, id)

\* A pure size-down at the same price keeps the order's place in its queue.
AmendInPlace ==
    /\ pc = "idle"
    /\ UNCHANGED <<stp_policy, trades>>
    /\ \E id \in OrderIds, q \in AmendQuantities :
        /\ Return(ExecutionReport(id, "New", 0, q, "None"))
        /\ q > 0
        /\ \E s \in Side, p \in BookPrices : \E i \in DOMAIN queue[s][p] :
            /\ queue[s][p][i].id = id
            /\ q <= queue[s][p][i].remaining
            /\ queue' = [queue EXCEPT ![s][p][i].remaining = q]

\* Anything else is cancel-replace: the order leaves the book and enters
\* add_order again as a new arrival.
Replacement(old, q, p) ==
    [old EXCEPT !.remaining = q, !.price = IF p = nullopt THEN @ ELSE p]

Replacements(old) ==
    {Replacement(old, n[1], n[2]) :
     n \in {m \in AmendQuantities \X (AmendPrices \cup {nullopt}) :
             m[1] > 0 /\ (m[1] > old.remaining \/ m[2] \notin {nullopt, old.price})}}

AmendReplace ==
    /\ pc = "idle"
    /\ UNCHANGED stp_policy
    /\ \E s \in Side, p \in BookPrices : \E i \in DOMAIN queue[s][p] :
        /\ queue' = [queue EXCEPT ![s][p] = Without(@, i)]
        /\ Enter(queue', Replacements(queue[s][p][i]))

Reset ==
    /\ pc = "idle"
    /\ queue' = [s \in Side |-> [p \in BookPrices |-> <<>>]]
    /\ UNCHANGED <<stp_policy, pc, taker, original, trades, report>>

\* The call is over; its report and its trades belong to the caller.
Returned ==
    /\ pc = "return"
    /\ pc' = "idle"
    /\ trades' = <<>>
    /\ report' = NoReport
    /\ UNCHANGED <<queue, stp_policy, taker, original>>

Running == Fill \/ PreventSelfTrade \/ Finish \/ Returned

Next == \/ AddOrder \/ CancelOrder \/ Reset
        \/ AmendReject \/ AmendInPlace \/ AmendReplace
        \/ Running

Spec == Init /\ [][Next]_vars
-----------------------------------------------------------------------------
(***************************************************************************)
(* Properties.                                                             *)
(***************************************************************************)
RestingOrder == Order(OrderIds, BookPrices, Nat \ {0}, Nat)
Trade == [maker : OrderIds, price : BookPrices, quantity : Nat \ {0},
          participant : Nat]

\* Shape of the state: queues of bookable orders with something left to
\* fill, and the locals of the call in progress (order_pool.hpp, add_order).
TypeOK ==
    /\ queue \in [Side -> [BookPrices -> Seq(RestingOrder)]]
    /\ stp_policy \in SelfTradePrevention
    /\ pc \in {"idle", "match", "killed", "return"}
    /\ taker \in Order(OrderIds \cup {kInvalidOrderId}, Int, Nat, Nat)
    /\ original \in Nat
    /\ trades \in Seq(Trade)

\* The best bid is always below the best ask, in the middle of a matching
\* loop too: what a taker could still reach is never left behind when the
\* taker comes to rest (crosses, match_against_book, rest_order).
NotCrossed ==
    \A b \in Levels(queue, "Buy"), a \in Levels(queue, "Sell") : b < a

\* Every queue holds live GTC limit orders of its own side and price:
\* market, IOC and FOK remainders never rest, a filled order never lingers
\* (rests_in_book, the tail of match_against_book and of add_order).
QueuesWellFormed ==
    \A s \in Side, p \in BookPrices : \A i \in DOMAIN queue[s][p] :
        LET o == queue[s][p][i]
        IN  o.side = s /\ o.price = p /\ o.type = "Limit" /\ o.tif = "GTC"

\* No two resting orders share an id, and the order being matched shares
\* its id with none of them: the id index stays a function across cancel,
\* amend-replace and duplicate submissions (add_order's DuplicateOrderId).
UniqueIds ==
    /\ \A s, t \in Side, p, q \in BookPrices :
        \A i \in DOMAIN queue[s][p], j \in DOMAIN queue[t][q] :
            queue[s][p][i].id = queue[t][q][j].id => s = t /\ p = q /\ i = j
    /\ pc \in {"match", "killed"} => ~Contains(queue, taker.id)

\* With a policy in force no trade pairs two orders of one participant,
\* whatever mixture of own and foreign orders the loop meets (README,
\* "Self-trade prevention"; the self_trade test of match_against_book).
NoSelfTrade ==
    pc \in {"match", "killed"} /\ stp_policy # "None"
        /\ taker.participant # kNoParticipant =>
            \A i \in DOMAIN trades : trades[i].participant # taker.participant

\* Within one call trades walk away from the best price, never back, and
\* never past the taker's limit (price priority of match_against_book).
TradesWalkTheBook ==
    pc \in {"match", "killed"} =>
        \A i \in DOMAIN trades :
            /\ PriceOk(taker, trades[i].price)
            /\ \A j \in 1..i : Better(Opposite(taker.side), trades[j].price, trades[i].price)

Traded == SumFunction([i \in DOMAIN trades |-> trades[i].quantity])

\* What a report says was filled is what the trade callback was told, and
\* what it says is still open is what rests in the book under that id; an
\* id reported filled or killed is gone (add_order, amend_order).
ReportMatchesBook ==
    pc = "return" /\ "status" \in DOMAIN report =>
        /\ report.filled = Traded
        /\ report.status \in {"New", "PartiallyFilled"} =>
             \E s \in Side, p \in BookPrices : \E i \in DOMAIN queue[s][p] :
                /\ queue[s][p][i].id = report.id
                /\ queue[s][p][i].remaining = report.remaining
        /\ report.status \in {"Filled", "Cancelled"} =>
             ~Contains(queue, report.id) /\ report.remaining = 0

\* While a FOK order that cannot meet its own participant is matched, the
\* reachable book still covers all it has left: the dry run's verdict does
\* not go stale between has_liquidity_for and the last trade.
FokStaysCovered ==
    pc = "match" /\ taker.tif = "FOK" /\ taker.remaining > 0 /\
      (stp_policy = "None" \/ taker.participant = kNoParticipant) =>
        has_liquidity_for(queue, taker)

\* ... and so such an order ends completely filled or never trades at all.
FokWithoutStp ==
    [][(pc = "match" \/ pc = "killed") /\ pc' = "return" /\ taker.tif = "FOK" /\
       (stp_policy = "None" \/ taker.participant = kNoParticipant) =>
        report'.filled = original]_vars

\* The same without the exception, as README and types.hpp state it: a FOK
\* order "fills completely or touches the book not at all".
FokAllOrNothing ==
    [][(pc = "match" \/ pc = "killed") /\ pc' = "return" /\ taker.tif = "FOK" =>
        report'.filled = original]_vars

\* Every call returns: each turn of the matching loop consumes quantity or
\* removes a resting order, or ends the loop (the `continue` of
\* CancelResting included).
EveryCallReturns == pc # "idle" ~> pc = "idle"
=============================================================================
