------------------------------ MODULE OrderPool ------------------------------
(***************************************************************************)
(* order_pool.hpp: the pool of order nodes with its free-list stack, and   *)
(* the intrusive FIFO list of a price level.  A pool is a record of the    *)
(* node vector and the free list; slots are numbered from 1.  An operation *)
(* that writes a level and the pool returns both.                          *)
(*                                                                         *)
(* Abstraction.  The code leaves the old contents in a released slot and   *)
(* never reads them (acquire overwrites all three fields); here release    *)
(* scrubs the slot, so that a read after release would be seen.            *)
(***************************************************************************)
EXTENDS LobTypes, FiniteSets

OrderNode(order, prev, next) == [order |-> order, prev |-> prev, next |-> next]

PriceLevel(price) ==
    [price |-> price, total_quantity |-> 0, order_count |-> 0,
     head |-> kNullIndex, tail |-> kNullIndex]

empty(level) == level.order_count = 0

clear_orders(level) == PriceLevel(level.price)

EmptyPool == [nodes |-> <<>>, free_list |-> <<>>]

\* acquire: pop the free list, or append a node when it is empty.
acquire(pool, order) ==
    LET node == OrderNode(order, kNullIndex, kNullIndex)
        n == Len(pool.free_list)
        idx == IF n > 0 THEN pool.free_list[n] ELSE Len(pool.nodes) + 1
    IN  [idx |-> idx,
         pool |-> IF n > 0
                  THEN [nodes |-> [pool.nodes EXCEPT ![idx] = node],
                        free_list |-> SubSeq(pool.free_list, 1, n - 1)]
                  ELSE [pool EXCEPT !.nodes = Append(@, node)]]

\* (mutant) The slot is never given back.
release_leaking(pool, idx) == pool

release(pool, idx) ==
    [nodes |-> [pool.nodes EXCEPT ![idx] = OrderNode(NoOrder, kNullIndex, kNullIndex)],
     free_list |-> Append(pool.free_list, idx)]

\* The order in slot idx.
OrderAt(pool, idx) == pool.nodes[idx].order

level_push_back(level, pool, idx) ==
    LET linked == [pool.nodes EXCEPT ![idx].prev = level.tail,
                                     ![idx].next = kNullIndex]
    IN  [pool |-> [pool EXCEPT !.nodes =
            IF level.tail # kNullIndex
            THEN [linked EXCEPT ![level.tail].next = idx] ELSE linked],
         level |-> [level EXCEPT
            !.head = IF level.tail # kNullIndex THEN @ ELSE idx,
            !.tail = idx,
            !.order_count = @ + 1,
            !.total_quantity = @ + OrderAt(pool, idx).remaining]]

\* level_unlink leaves total_quantity to its caller.
level_unlink(level, pool, idx) ==
    LET node == pool.nodes[idx]
        after == IF node.prev # kNullIndex
                 THEN [pool.nodes EXCEPT ![node.prev].next = node.next]
                 ELSE pool.nodes
    IN  [pool |-> [pool EXCEPT !.nodes =
            IF node.next # kNullIndex
            THEN [after EXCEPT ![node.next].prev = node.prev] ELSE after],
         level |-> [level EXCEPT
            !.head = IF node.prev # kNullIndex THEN @ ELSE node.next,
            !.tail = IF node.next # kNullIndex THEN @ ELSE node.prev,
            !.order_count = @ - 1]]

\* (mutant) The level's aggregate is not debited.
level_reduce_order_only(level, pool, idx, qty) ==
    [pool |-> [pool EXCEPT !.nodes[idx].order.remaining = @ - qty], level |-> level]

level_reduce_quantity(level, pool, idx, qty) ==
    [pool |-> [pool EXCEPT !.nodes[idx].order.remaining = @ - qty],
     level |-> [level EXCEPT !.total_quantity = @ - qty]]

-----------------------------------------------------------------------------
\* For properties: the slots met from idx along `link` ("next" or "prev"),
\* one more than there are slots if the links form a cycle.
RECURSIVE WalkFrom(_, _, _, _)
WalkFrom(pool, idx, link, steps) ==
    IF idx = kNullIndex \/ steps = 0 THEN <<>>
    ELSE <<idx>> \o WalkFrom(pool, pool.nodes[idx][link], link, steps - 1)

\* A level's list, oldest order first, and the same list read backwards.
Chain(level, pool) == WalkFrom(pool, level.head, "next", Len(pool.nodes) + 1)
BackChain(level, pool) == WalkFrom(pool, level.tail, "prev", Len(pool.nodes) + 1)

\* The orders of a level with something left to fill, oldest first.
LiveOrders(level, pool) ==
    LET c == Chain(level, pool)
    IN  SelectSeq([i \in DOMAIN c |-> OrderAt(pool, c[i])], LAMBDA o : o.remaining > 0)
=============================================================================
