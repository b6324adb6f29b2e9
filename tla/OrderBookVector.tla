--------------------------- MODULE OrderBookVector ---------------------------
(***************************************************************************)
(* order_book_vector.cpp, approach B: the price levels of a side are a     *)
(* vector sorted best price first (bids_ descending, asks_ ascending), so  *)
(* front() is the best level and a price is found by lower_bound.          *)
(***************************************************************************)
EXTENDS BookMatching, SequencesExt

\* (mutant) A level that is not found goes to the end.
append_position(levels, s, price) ==
    Min({Len(levels) + 1} \cup {i \in DOMAIN levels : levels[i].price = price})

\* find_bid_position / find_ask_position: the first level not better than
\* price, or one past the end.
find_position(levels, s, price) ==
    Min({Len(levels) + 1} \cup
        {i \in DOMAIN levels : Better(s, price, levels[i].price)})

\* The level at the position find_position gives exists and is at `price`.
Present(levels, i, price) == i <= Len(levels) /\ levels[i].price = price

FarSide == Opposite(taker.side)
FrontLevel == Head(book[FarSide])
PutFront(level) == [book EXCEPT ![FarSide][1] = level]

\* (mutant) The emptied level stays.
KeepFront(b) == b

\* The cleanup after the inner loop: levels.erase(levels.begin()).
PruneFront(b) ==
    IF empty(Head(b[FarSide])) THEN [b EXCEPT ![FarSide] = Tail(@)] ELSE b

\* (mutant) An order at the best opposite price does not cross.
crosses_strictly(b, o) ==
    LET levels == b[Opposite(o.side)]
    IN  levels # <<>> /\ ~Better(Opposite(o.side), o.price, Head(levels).price)

crosses(b, o) ==
    LET levels == b[Opposite(o.side)]
    IN  levels # <<>> /\ Better(o.side, o.price, Head(levels).price)

\* The scan stops at the first level out of reach.
has_liquidity_for(b, o) ==
    LET levels == b[Opposite(o.side)]
        reach == {i \in DOMAIN levels : \A j \in 1..i : PriceOk(o, levels[j].price)}
    IN  SumFunction([i \in reach |-> levels[i].total_quantity]) >= o.remaining

Validate(index, o) ==
    IF o.remaining <= 0 THEN "InvalidQuantity"
    ELSE IF o.type = "Limit" /\ o.price <= 0 THEN "InvalidPrice"
    ELSE IF o.id # kInvalidOrderId /\ o.id \in DOMAIN index THEN "DuplicateOrderId"
    ELSE "None"

add_order(b, index, o) ==
    Enter(o, Validate(index, o), has_liquidity_for(b, o), crosses(b, o))

rest_order ==
    LET a == acquire(pool, taker)
        levels == book[taker.side]
        i == find_position(levels, taker.side, taker.price)
        found == IF Present(levels, i, taker.price) THEN levels
                 ELSE InsertAt(levels, i, PriceLevel(taker.price))
        r == level_push_back(found[i], a.pool, a.idx)
    IN  /\ pool' = r.pool
        /\ book' = [book EXCEPT ![taker.side] = ReplaceAt(found, i, r.level)]
        /\ id_index' = Index!insert(id_index, taker.id, a.idx)

\* The level of a resting order and the book with that level replaced;
\* amend_order tests no price of its own.
LevelOf(o) == book[o.side][find_position(book[o.side], o.side, o.price)]
PutLevel(s, level) ==
    [book EXCEPT ![s] = ReplaceAt(@, find_position(@, s, level.price), level)]
AnyPrice(p) == TRUE

\* cancel_order of an order that the index knows.
Unbook(id) ==
    LET idx == id_index[id]
        o == OrderAt(pool, idx)
        i == find_position(book[o.side], o.side, o.price)
        level == book[o.side][i]
        r == level_unlink([level EXCEPT !.total_quantity = @ - o.remaining], pool, idx)
    IN  /\ book' = [book EXCEPT ![o.side] =
               IF empty(r.level) THEN RemoveAt(@, i) ELSE ReplaceAt(@, i, r.level)]
        /\ pool' = release(r.pool, idx)
        /\ id_index' = Index!erase(id_index, id)

-----------------------------------------------------------------------------
Init ==
    /\ book = [s \in Side |-> <<>>]
    /\ InitCall

AddOrder ==
    /\ pc = "idle"
    /\ \E o \in Requests : add_order(book, id_index, o)
    /\ UNCHANGED <<members, stp_policy>>

MatchLevel == NextLevel(book[FarSide] # <<>>, FrontLevel.price)
Trade == pc = "drain" /\ TradeAt(FrontLevel, PutFront)
AfterCallback == pc = "callback" /\ AfterCallbackAt(FrontLevel, PutFront)
PreventSelfTrade == pc = "drain" /\ PreventSelfTradeAt(FrontLevel, PutFront, PruneFront)
EndLevel == pc = "drain" /\ LevelDone(FrontLevel, PruneFront)
Finish == FinishWith(rest_order)

CancelOrder == CancelWith(Unbook)
AmendOrder == AmendWith(AnyPrice, LevelOf, PutLevel, Unbook, add_order)

Reset ==
    /\ pc = "idle"
    /\ book' = [s \in Side |-> <<>>]
    /\ pool' = EmptyPool
    /\ id_index' = Index!EmptyIndex
    /\ UNCHANGED <<stp_policy, pc, taker, original, trades, report>>

Running == MatchLevel \/ Trade \/ AfterCallback \/ PreventSelfTrade
           \/ EndLevel \/ Finish \/ Returned

Next == AddOrder \/ CancelOrder \/ AmendOrder \/ Reset \/ Running

Spec == Init /\ [][Next]_vars

-----------------------------------------------------------------------------
AllLevels == UNION {Range(book[s]) : s \in Side}

\* Lists, pool slots and id index agree at every step of a call, inside the
\* trade callback too (order_book_vector.cpp's use of order_pool.hpp and
\* id_index_map.hpp).
VectorStorageSound == StorageSound(AllLevels)

\* Each side stays strictly sorted best price first, which lower_bound
\* needs to find a level at all, and holds no empty level between the turns
\* of the matching loop (rest_order's insert, the erases of cancel_order and
\* match_against_book).
VectorSorted ==
    \A s \in Side :
        /\ \A i, j \in DOMAIN book[s] :
             i < j => ~Better(s, book[s][j].price, book[s][i].price)
        /\ pc \notin {"drain", "callback"} =>
             \A i \in DOMAIN book[s] : ~empty(book[s][i])

AbsQueue ==
    [s \in Side |-> [p \in BookPrices |->
        LET at == {i \in DOMAIN book[s] : book[s][i].price = p}
        IN  IF at = {} THEN <<>> ELSE Resting(book[s][Min(at)])]]

Abs == INSTANCE OrderBook WITH queue <- AbsQueue, pc <- AbsPc

\* The sorted-vector book implements the abstract book.
ImplementsOrderBook == Abs!Spec
=============================================================================
