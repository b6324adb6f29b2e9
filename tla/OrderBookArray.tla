--------------------------- MODULE OrderBookArray ---------------------------
(***************************************************************************)
(* order_book_array.cpp, approach C: a side has one level per price of the *)
(* configured band, an occupancy bitmap over those levels and the cached   *)
(* index of the best occupied one.  Bitset is taken here at its interface, *)
(* as the set of indices of IndexSet.                                      *)
(*                                                                         *)
(* Abstraction.  A level is never destroyed, and a vacant one keeps its    *)
(* old price until rest_order, finding the bit clear, writes it again;     *)
(* here vacating scrubs it, so that a price not written would be seen.     *)
(***************************************************************************)
EXTENDS BookMatching

min_price_ == Min(BookPrices)
max_price_ == Max(BookPrices)

\* The constructor's checks (validate_and_compute_range): a band of prices.
ASSUME BandAssumption ==
    BookPrices # {} /\ min_price_ > 0 /\ BookPrices = min_price_ .. max_price_

range_ == max_price_ - min_price_ + 1
in_range(price) == price >= min_price_ /\ price <= max_price_
index_of(price) == price - min_price_
price_of(idx) == min_price_ + idx

\* The scans of Bitset (ask_bitmap_; bid_bitmap_ has the same).
Bitmap == INSTANCE IndexSet WITH bits <- book["Sell"].bitmap

\* The occupied index that follows idx on side s, away from the best.
Following(s, bitmap, idx) ==
    IF s = "Sell" THEN Bitmap!find_next_set(bitmap, idx + 1)
    ELSE IF idx = 0 THEN nullopt ELSE Bitmap!find_prev_set(bitmap, idx - 1)

EmptySide ==
    [levels |-> [i \in 0..range_ - 1 |-> PriceLevel(0)], bitmap |-> {}, best |-> nullopt]

FarSide == Opposite(taker.side)
FrontLevel == book[FarSide].levels[book[FarSide].best]
PutFront(level) == [book EXCEPT ![FarSide].levels[book[FarSide].best] = level]

\* (mutant) The cached best index is not moved.
VacateStaleBest(s, side, idx) ==
    [side EXCEPT !.levels[idx].price = 0, !.bitmap = @ \ {idx}]

\* Level idx of side s has been emptied: its bit is cleared, and the cached
\* best moves on if it was this level.
Vacate(s, side, idx) ==
    [side EXCEPT !.levels[idx].price = 0,
                 !.bitmap = @ \ {idx},
                 !.best = IF @ = idx THEN Following(s, side.bitmap \ {idx}, idx) ELSE @]

\* The cleanup after drain_level.
PruneFront(b) ==
    LET side == b[FarSide]
    IN  IF empty(side.levels[side.best])
        THEN [b EXCEPT ![FarSide] = Vacate(FarSide, @, side.best)] ELSE b

\* (mutant) An order at the best opposite price does not cross.
crosses_strictly(b, o) ==
    LET s == Opposite(o.side)
    IN  b[s].best # nullopt /\ ~Better(s, o.price, price_of(b[s].best))

crosses(b, o) ==
    LET best == b[Opposite(o.side)].best
    IN  best # nullopt /\ Better(o.side, o.price, price_of(best))

\* The scan goes from the cached best index along the bitmap and stops at
\* the first level out of reach.
has_liquidity_for(b, o) ==
    LET s == Opposite(o.side)
        side == b[s]
        visited == IF side.best = nullopt THEN {}
                   ELSE {side.best} \cup {i \in side.bitmap : ~Better(s, i, side.best)}
        reach == {i \in visited : \A j \in visited :
                    Better(s, j, i) => PriceOk(o, side.levels[j].price)}
    IN  SumFunction([i \in reach |-> side.levels[i].total_quantity]) >= o.remaining

Validate(index, o) ==
    IF o.remaining <= 0 THEN "InvalidQuantity"
    ELSE IF o.type = "Limit" /\ o.price <= 0 THEN "InvalidPrice"
    ELSE IF o.type = "Limit" /\ ~in_range(o.price) THEN "PriceOutOfRange"
    ELSE IF o.id # kInvalidOrderId /\ o.id \in DOMAIN index THEN "DuplicateOrderId"
    ELSE "None"

add_order(b, index, o) ==
    Enter(o, Validate(index, o), has_liquidity_for(b, o), crosses(b, o))

rest_order ==
    LET s == taker.side
        side == book[s]
        idx == index_of(taker.price)
        a == acquire(pool, taker)
        used == IF idx \in side.bitmap THEN side
                ELSE [levels |-> [side.levels EXCEPT ![idx].price = taker.price],
                      bitmap |-> side.bitmap \cup {idx},
                      best |-> IF side.best = nullopt \/ ~Better(s, side.best, idx)
                               THEN idx ELSE side.best]
        r == level_push_back(used.levels[idx], a.pool, a.idx)
    IN  /\ pool' = r.pool
        /\ book' = [book EXCEPT ![s] = [used EXCEPT !.levels[idx] = r.level]]
        /\ id_index' = Index!insert(id_index, taker.id, a.idx)

LevelOf(o) == book[o.side].levels[index_of(o.price)]
PutLevel(s, level) == [book EXCEPT ![s].levels[index_of(level.price)] = level]

\* cancel_order of an order that the index knows.
Unbook(id) ==
    LET pool_idx == id_index[id]
        o == OrderAt(pool, pool_idx)
        level == LevelOf(o)
        r == level_unlink([level EXCEPT !.total_quantity = @ - o.remaining],
                          pool, pool_idx)
        idx == index_of(o.price)
        side == [book[o.side] EXCEPT !.levels[idx] = r.level]
    IN  /\ book' = [book EXCEPT ![o.side] =
               IF empty(r.level) THEN Vacate(o.side, side, idx) ELSE side]
        /\ pool' = release(r.pool, pool_idx)
        /\ id_index' = Index!erase(id_index, id)

-----------------------------------------------------------------------------
Init ==
    /\ book = [s \in Side |-> EmptySide]
    /\ InitCall

AddOrder ==
    /\ pc = "idle"
    /\ \E o \in Requests : add_order(book, id_index, o)
    /\ UNCHANGED <<members, stp_policy>>

MatchLevel == NextLevel(book[FarSide].best # nullopt, FrontLevel.price)
Trade == pc = "drain" /\ TradeAt(FrontLevel, PutFront)
AfterCallback == pc = "callback" /\ AfterCallbackAt(FrontLevel, PutFront)
PreventSelfTrade == pc = "drain" /\ PreventSelfTradeAt(FrontLevel, PutFront, PruneFront)
EndLevel == pc = "drain" /\ LevelDone(FrontLevel, PruneFront)
Finish == FinishWith(rest_order)

CancelOrder == CancelWith(Unbook)

\* (mutant) The new price is not checked before the order is cancelled.
AmendUnchecked == AmendWith(LAMBDA p : TRUE, LevelOf, PutLevel, Unbook, add_order)

AmendOrder == AmendWith(in_range, LevelOf, PutLevel, Unbook, add_order)

\* Only the levels whose bit is set are cleared.
Reset ==
    /\ pc = "idle"
    /\ book' = [s \in Side |->
                  [levels |-> [i \in DOMAIN book[s].levels |->
                                 IF i \in book[s].bitmap THEN [clear_orders(book[s].levels[i]) EXCEPT !.price = 0]
                                 ELSE book[s].levels[i]],
                   bitmap |-> {}, best |-> nullopt]]
    /\ pool' = EmptyPool
    /\ id_index' = Index!EmptyIndex
    /\ UNCHANGED <<stp_policy, pc, taker, original, trades, report>>

Running == MatchLevel \/ Trade \/ AfterCallback \/ PreventSelfTrade
           \/ EndLevel \/ Finish \/ Returned

Next == AddOrder \/ CancelOrder \/ AmendOrder \/ Reset \/ Running

Spec == Init /\ [][Next]_vars

-----------------------------------------------------------------------------
AllLevels ==
    UNION {{book[s].levels[i] : i \in {j \in DOMAIN book[s].levels :
                                         ~empty(book[s].levels[j])}} : s \in Side}

\* Lists, pool slots and id index agree at every step of a call, inside the
\* trade callback too (order_book_array.cpp's use of order_pool.hpp and
\* id_index_map.hpp).
ArrayStorageSound == StorageSound(AllLevels)

\* Between the turns of the matching loop the bitmap marks exactly the
\* levels that hold orders, the cached best index is the best of them, and
\* a vacant level keeps nothing of the orders it had (rest_order, the
\* cleanups of match_against_book and cancel_order, reset's sparse clear).
ArrayBestExact ==
    \A s \in Side :
        LET side == book[s]
        IN  pc \notin {"drain", "callback"} =>
              /\ side.bitmap = {i \in DOMAIN side.levels : ~empty(side.levels[i])}
              /\ side.best = IF side.bitmap = {} THEN nullopt
                             ELSE BestOf(s, side.bitmap)
              /\ \A i \in DOMAIN side.levels :
                   IF i \in side.bitmap THEN side.levels[i].price = price_of(i)
                   ELSE side.levels[i] = PriceLevel(0)

AbsQueue ==
    [s \in Side |-> [p \in BookPrices |-> Resting(book[s].levels[index_of(p)])]]

Abs == INSTANCE OrderBook WITH queue <- AbsQueue, pc <- AbsPc

\* The direct-indexed book implements the abstract book.
ImplementsOrderBook == Abs!Spec
=============================================================================
