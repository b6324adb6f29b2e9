---------------------------- MODULE BookMatching ----------------------------
(***************************************************************************)
(* What OrderBookMap, OrderBookVector and OrderBookArray have in common:   *)
(* the members that are not the price-level structure, the frame of a      *)
(* call, and the body of the loop that drains one level.  book[s] is the   *)
(* price-level structure of side s (bids_ for "Buy", asks_ for "Sell");    *)
(* each of the three modules gives it its own shape, and passes to the     *)
(* actions below the level at the front of the taker's far side and the    *)
(* operators that write that level back.                                   *)
(*                                                                         *)
(* A call takes a step per turn of the inner loop, split where the code    *)
(* runs trade_callback_: the callback sees the state with pc = "callback". *)
(***************************************************************************)
EXTENDS OrderPool, FiniteSetsExt

CONSTANTS OrderIds, Requests, AmendQuantities, AmendPrices, BookPrices,
          StpPolicies, nullopt    \* as in OrderBook

VARIABLES
  book,        \* book[side]: bids_ / asks_
  pool,        \* pool_
  id_index,    \* id_index_: id -> pool slot, a partial function
  stp_policy,  \* stp_policy_
  pc,          \* "idle", "match" (outer loop), "drain" (inner loop),
               \* "callback", "finish", "killed" (stp_killed), "return"
  taker, original, trades, report     \* as in OrderBook

members == <<book, pool, id_index>>
vars == <<book, pool, id_index, stp_policy, pc, taker, original, trades, report>>

Index == INSTANCE IdIndex WITH index <- id_index, Values <- Nat

InitCall ==
    /\ pool = EmptyPool
    /\ id_index = Index!EmptyIndex
    /\ stp_policy \in StpPolicies
    /\ pc = "idle"
    /\ taker = NoOrder
    /\ original = 0
    /\ trades = <<>>
    /\ report = NoReport

Return(r) ==
    /\ pc' = "return"
    /\ report' = r
    /\ taker' = NoOrder
    /\ original' = 0

Returned ==
    /\ pc = "return"
    /\ pc' = "idle"
    /\ trades' = <<>>
    /\ report' = NoReport
    /\ UNCHANGED <<members, stp_policy, taker, original>>

\* add_order up to the call of match_against_book.
Enter(o, reason, liquid, crossing) ==
    LET killed == o.tif = "FOK" /\ ~liquid
    IN  /\ trades' = <<>>
        /\ \/ /\ reason # "None"
              /\ Return(Rejected(o.id, reason))
           \/ /\ reason = "None" /\ killed
              /\ Return(ExecutionReport(o.id, "Cancelled", 0, 0, "None"))
           \/ /\ reason = "None" /\ ~killed
              /\ pc' = IF o.type = "Market" \/ o.tif = "FOK" \/ crossing
                       THEN "match" ELSE "finish"
              /\ taker' = o
              /\ original' = o.remaining
              /\ report' = NoReport

\* Outer loop of match_against_book: `open` says the far side has a front
\* level; `price` is its price.
NextLevel(open, price) ==
    /\ pc = "match"
    /\ pc' = IF /\ taker.remaining > 0
                /\ open
                /\ PriceOk(taker, price)
             THEN "drain" ELSE "finish"
    /\ UNCHANGED <<members, stp_policy, taker, original, trades, report>>

\* The inner loop goes on with the order at the head of `level`.
Draining(level) == pc = "drain" /\ level.head # kNullIndex /\ taker.remaining > 0

\* Inner loop, no self-trade: both quantities are debited and the callback
\* is about to run.  Put writes the level back.
TradeAt(level, Put(_)) ==
    LET idx == level.head
        maker == OrderAt(pool, idx)
        qty == MinOf(taker.remaining, maker.remaining)
        r == level_reduce_quantity(level, pool, idx, qty)
    IN  /\ Draining(level)
        /\ ~SelfTrade(stp_policy, taker, maker)
        /\ taker' = [taker EXCEPT !.remaining = @ - qty]
        /\ pool' = r.pool
        /\ book' = Put(r.level)
        /\ trades' = Append(trades,
               [maker |-> maker.id, price |-> level.price, quantity |-> qty,
                participant |-> maker.participant])
        /\ pc' = "callback"
        /\ UNCHANGED <<id_index, stp_policy, original, report>>

\* After the callback: a maker with nothing left leaves the level, the
\* index and the pool.
AfterCallbackAt(level, Put(_)) ==
    LET idx == level.head
        maker == OrderAt(pool, idx)
        r == level_unlink(level, pool, idx)
    IN  /\ pc = "callback"
        /\ IF maker.remaining = 0
           THEN /\ book' = Put(r.level)
                /\ id_index' = Index!erase(id_index, maker.id)
                /\ pool' = release(r.pool, idx)
           ELSE UNCHANGED members
        /\ pc' = "drain"
        /\ UNCHANGED <<stp_policy, taker, original, trades, report>>

\* Inner loop, self-trade.  When the taker is killed the loop breaks and the
\* cleanup after it runs: Prune drops the front level if it is empty.
PreventSelfTradeAt(level, Put(_), Prune(_)) ==
    LET idx == level.head
        maker == OrderAt(pool, idx)
        r == level_unlink([level EXCEPT !.total_quantity = @ - maker.remaining],
                          pool, idx)
        put == IF CancelsResting(stp_policy) THEN Put(r.level) ELSE book
        killed == CancelsIncoming(stp_policy)
    IN  /\ Draining(level)
        /\ SelfTrade(stp_policy, taker, maker)
        /\ IF CancelsResting(stp_policy)
           THEN /\ id_index' = Index!erase(id_index, maker.id)
                /\ pool' = release(r.pool, idx)
           ELSE UNCHANGED <<id_index, pool>>
        /\ book' = IF killed THEN Prune(put) ELSE put
        /\ pc' = IF killed THEN "killed" ELSE "drain"
        /\ UNCHANGED <<stp_policy, taker, original, trades, report>>

\* The inner loop is over; the cleanup runs and the outer loop goes on.
LevelDone(level, Prune(_)) ==
    /\ pc = "drain"
    /\ ~Draining(level)
    /\ book' = Prune(book)
    /\ pc' = "match"
    /\ UNCHANGED <<pool, id_index, stp_policy, taker, original, trades, report>>

\* (mutant) A taker that self-trade prevention killed rests all the same.
RestsEvenIfKilled == taker.remaining # 0 /\ rests_in_book(taker)

Rests == taker.remaining # 0 /\ pc # "killed" /\ rests_in_book(taker)

\* add_order after the match: RestOrder is the module's rest_order.
FinishWith(RestOrder) ==
    LET filled == original - taker.remaining
    IN  /\ pc \in {"finish", "killed"}
        /\ IF Rests THEN RestOrder ELSE UNCHANGED members
        /\ Return(
             IF taker.remaining = 0
             THEN ExecutionReport(taker.id, "Filled", filled, 0, "None")
             ELSE IF Rests
             THEN ExecutionReport(taker.id,
                      IF filled > 0 THEN "PartiallyFilled" ELSE "New",
                      filled, taker.remaining, "None")
             ELSE ExecutionReport(taker.id, "Cancelled", filled, 0, "None"))
        /\ UNCHANGED <<stp_policy, trades>>

\* cancel_order: Unbook takes an order that the index knows out of the book.
CancelWith(Unbook(_)) ==
    /\ pc = "idle"
    /\ \E id \in OrderIds :
        IF id \in DOMAIN id_index
        THEN Unbook(id) /\ Return([id |-> id, cancelled |-> TRUE])
        ELSE UNCHANGED members /\ Return([id |-> id, cancelled |-> FALSE])
    /\ UNCHANGED <<stp_policy, trades>>

\* amend_order: refuse, shrink in place, or cancel and resubmit.  Accepts(p)
\* is the test a bounded book makes of the new price; LevelOf(o) is the level
\* holding o, Put(s, level) the book with that level of side s replaced.
AmendWith(Accepts(_), LevelOf(_), Put(_, _), Unbook(_), Add(_, _, _)) ==
    /\ pc = "idle"
    /\ \E id \in OrderIds, q \in AmendQuantities, p \in AmendPrices \cup {nullopt} :
        LET idx == id_index[id]
            snapshot == OrderAt(pool, idx)
            price_changed == p \notin {nullopt, snapshot.price}
            quantity_increased == q > snapshot.remaining
            r == level_reduce_quantity(LevelOf(snapshot), pool, idx,
                                       snapshot.remaining - q)
            refusal == CASE id \notin DOMAIN id_index -> "UnknownOrder"
                         [] id \in DOMAIN id_index /\ q <= 0 -> "InvalidQuantity"
                         [] id \in DOMAIN id_index /\ q > 0 ->
                              IF p = nullopt \/ Accepts(p) THEN "None"
                              ELSE "PriceOutOfRange"
        IN  \/ /\ refusal # "None"
               /\ Return(Rejected(id, refusal))
               /\ UNCHANGED <<members, trades>>
            \/ /\ refusal = "None"
               /\ ~price_changed /\ ~quantity_increased
               /\ book' = Put(snapshot.side, r.level)
               /\ pool' = r.pool
               /\ Return(ExecutionReport(id, "New", 0, q, "None"))
               /\ UNCHANGED <<id_index, trades>>
            \/ /\ refusal = "None"
               /\ price_changed \/ quantity_increased
               /\ Unbook(id)
               /\ Add(book', id_index',
                      [snapshot EXCEPT !.remaining = q,
                                       !.price = IF p = nullopt THEN @ ELSE p])
    /\ UNCHANGED stp_policy

\* The control state of OrderBook that a control state here stands for.
AbsPc == CASE pc \in {"idle", "killed", "return"} -> pc [] OTHER -> "match"

\* Between the callback and the unlink a filled maker is still linked; the
\* abstract book has already dropped it.
Resting(level) == LiveOrders(level, pool)

-----------------------------------------------------------------------------
(***************************************************************************)
(* Invariants the three books share, over the non-empty levels of a module *)
(* (the set `all` of level records).                                       *)
(***************************************************************************)
SlotsOf(level) == Range(Chain(level, pool))

\* Every list reads the same from both ends, ends where head and tail say,
\* and has order_count nodes holding total_quantity between them, at every
\* step of a call including inside the callback.
ListsSound(all) ==
    \A l \in all :
        LET c == Chain(l, pool)
        IN  /\ Len(c) = l.order_count
            /\ BackChain(l, pool) = [i \in DOMAIN c |-> c[Len(c) + 1 - i]]
            /\ l.total_quantity =
                 SumFunction([i \in DOMAIN c |-> OrderAt(pool, c[i]).remaining])

\* Each pool slot is either on the free list, once, or in exactly one level
\* list: no slot is leaked, handed out twice or linked twice.
SlotsPartitioned(all) ==
    LET free == {pool.free_list[i] : i \in DOMAIN pool.free_list}
    IN  /\ Cardinality(free) = Len(pool.free_list)
        /\ free \cup UNION {SlotsOf(l) : l \in all} = DOMAIN pool.nodes
        /\ \A l \in all : SlotsOf(l) \cap free = {}
        /\ \A l, m \in all : SlotsOf(l) \cap SlotsOf(m) # {} => l = m

\* The id index names exactly the orders that are linked into a level.
IndexExact(all) ==
    LET linked == UNION {SlotsOf(l) : l \in all}
    IN  /\ {id_index[id] : id \in DOMAIN id_index} = linked
        /\ \A id \in DOMAIN id_index : OrderAt(pool, id_index[id]).id = id

StorageSound(all) == ListsSound(all) /\ SlotsPartitioned(all) /\ IndexExact(all)

\* A call whose report says Rejected has changed nothing: in particular an
\* amend that is refused leaves the order it names in the book, at its
\* place (amend_order's early returns and its cancel-then-resubmit).
RefusalKeepsBook ==
    [][pc = "idle" /\ pc' = "return" /\ "status" \in DOMAIN report'
       /\ report'.status = "Rejected" => UNCHANGED members]_vars
=============================================================================
