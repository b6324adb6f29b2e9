---------------------------- MODULE OrderBookMap ----------------------------
(***************************************************************************)
(* order_book_map.cpp, approach A: the price levels of a side are a        *)
(* std::map from price to PriceLevel, here a function whose domain is the  *)
(* set of prices with a level; begin() is the best price of the domain.    *)
(***************************************************************************)
EXTENDS BookMatching

\* The map `side` with `level` under its own price, and without price p.
SetLevel(side, level) ==
    [p \in DOMAIN side \cup {level.price} |->
        IF p = level.price THEN level ELSE side[p]]
EraseLevel(side, p) == [q \in DOMAIN side \ {p} |-> side[q]]

\* begin() of side s.
BestPrice(b, s) == BestOf(s, DOMAIN b[s])
FarSide == Opposite(taker.side)
FrontLevel == book[FarSide][BestPrice(book, FarSide)]

PutLevel(s, level) == [book EXCEPT ![s] = SetLevel(@, level)]
PutFront(level) == PutLevel(FarSide, level)

\* (mutant) The emptied level stays.
KeepFront(b) == b

\* The cleanup after the inner loop.
PruneFront(b) ==
    LET p == BestPrice(b, FarSide)
    IN  IF empty(b[FarSide][p]) THEN [b EXCEPT ![FarSide] = EraseLevel(@, p)] ELSE b

\* (mutant) An order at the best opposite price does not cross.
crosses_strictly(b, o) ==
    LET s == Opposite(o.side)
    IN  DOMAIN b[s] # {} /\ ~Better(s, o.price, BestPrice(b, s))

crosses(b, o) ==
    LET s == Opposite(o.side)
    IN  DOMAIN b[s] # {} /\ Better(o.side, o.price, BestPrice(b, s))

has_liquidity_for(b, o) ==
    LET s == Opposite(o.side)
    IN  SumFunction([p \in {q \in DOMAIN b[s] : PriceOk(o, q)} |->
                        b[s][p].total_quantity]) >= o.remaining

Validate(index, o) ==
    IF o.remaining <= 0 THEN "InvalidQuantity"
    ELSE IF o.type = "Limit" /\ o.price <= 0 THEN "InvalidPrice"
    ELSE IF o.id # kInvalidOrderId /\ o.id \in DOMAIN index THEN "DuplicateOrderId"
    ELSE "None"

add_order(b, index, o) ==
    Enter(o, Validate(index, o), has_liquidity_for(b, o), crosses(b, o))

rest_order ==
    LET a == acquire(pool, taker)
        side == book[taker.side]
        level == IF taker.price \in DOMAIN side THEN side[taker.price]
                 ELSE PriceLevel(taker.price)
        r == level_push_back(level, a.pool, a.idx)
    IN  /\ pool' = r.pool
        /\ book' = [book EXCEPT ![taker.side] = SetLevel(@, r.level)]
        /\ id_index' = Index!insert(id_index, taker.id, a.idx)

\* The level of a resting order; amend_order tests no price of its own.
LevelOf(o) == book[o.side][o.price]
AnyPrice(p) == TRUE

\* cancel_order of an order that the index knows.
Unbook(id) ==
    LET idx == id_index[id]
        o == OrderAt(pool, idx)
        level == LevelOf(o)
        r == level_unlink([level EXCEPT !.total_quantity = @ - o.remaining], pool, idx)
    IN  /\ book' = [book EXCEPT ![o.side] =
               IF empty(r.level) THEN EraseLevel(@, o.price) ELSE SetLevel(@, r.level)]
        /\ pool' = release(r.pool, idx)
        /\ id_index' = Index!erase(id_index, id)

-----------------------------------------------------------------------------
Init ==
    /\ book = [s \in Side |-> [p \in {} |-> PriceLevel(0)]]
    /\ InitCall

AddOrder ==
    /\ pc = "idle"
    /\ \E o \in Requests : add_order(book, id_index, o)
    /\ UNCHANGED <<members, stp_policy>>

MatchLevel == NextLevel(DOMAIN book[FarSide] # {}, BestPrice(book, FarSide))
Trade == pc = "drain" /\ TradeAt(FrontLevel, PutFront)
AfterCallback == pc = "callback" /\ AfterCallbackAt(FrontLevel, PutFront)
PreventSelfTrade == pc = "drain" /\ PreventSelfTradeAt(FrontLevel, PutFront, PruneFront)
EndLevel == pc = "drain" /\ LevelDone(FrontLevel, PruneFront)
Finish == FinishWith(rest_order)

CancelOrder == CancelWith(Unbook)
AmendOrder == AmendWith(AnyPrice, LevelOf, PutLevel, Unbook, add_order)

Reset ==
    /\ pc = "idle"
    /\ book' = [s \in Side |-> [p \in {} |-> PriceLevel(0)]]
    /\ pool' = EmptyPool
    /\ id_index' = Index!EmptyIndex
    /\ UNCHANGED <<stp_policy, pc, taker, original, trades, report>>

Running == MatchLevel \/ Trade \/ AfterCallback \/ PreventSelfTrade
           \/ EndLevel \/ Finish \/ Returned

Next == AddOrder \/ CancelOrder \/ AmendOrder \/ Reset \/ Running

Spec == Init /\ [][Next]_vars

-----------------------------------------------------------------------------
AllLevels == UNION {{book[s][p] : p \in DOMAIN book[s]} : s \in Side}

\* Lists, pool slots and id index agree at every step of a call, inside the
\* trade callback too (order_book_map.cpp's use of order_pool.hpp and
\* id_index_map.hpp).
MapStorageSound == StorageSound(AllLevels)

\* Between calls no level is empty: best_bid and best_ask, which read
\* begin() alone, never name a price with nothing to trade.
MapNoEmptyLevel ==
    pc \notin {"drain", "callback"} => \A l \in AllLevels : ~empty(l)

AbsQueue ==
    [s \in Side |-> [p \in BookPrices |->
        IF p \in DOMAIN book[s] THEN Resting(book[s][p]) ELSE <<>>]]

Abs == INSTANCE OrderBook WITH queue <- AbsQueue, pc <- AbsPc

\* The std::map book implements the abstract book: price-time priority,
\* fills at the maker's price, self-trade policies, amend's queue position
\* and every report are those OrderBook allows.
ImplementsOrderBook == Abs!Spec
=============================================================================
