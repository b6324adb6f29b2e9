--------------------------- MODULE OrderBookProofs ---------------------------
(***************************************************************************)
(* Theorems about OrderBook, for every set of ids, prices, quantities,     *)
(* participants and requests.                                              *)
(***************************************************************************)
EXTENDS OrderBook, SharedLemmas

\* Time limits of the provers, for the larger steps.
USE SMTT(30), ZenonT(30)

\* What identifies an order: everything but what is left of it.
SameOrder(a, b) ==
    /\ a.id = b.id /\ a.side = b.side /\ a.type = b.type /\ a.tif = b.tif
    /\ a.price = b.price /\ a.participant = b.participant

\* Queue g is queue f after some orders left it or lost quantity: h says
\* which order of f each order of g is.
Remainder(g, f, h) ==
    /\ h \in [DOMAIN g -> DOMAIN f]
    /\ \A i, j \in DOMAIN g : h[i] = h[j] => i = j
    /\ \A i \in DOMAIN g : SameOrder(g[i], f[h[i]])

Shrinks(q, r) ==
    \A s \in Side, p \in BookPrices : \E h : Remainder(r[s][p], q[s][p], h)

-----------------------------------------------------------------------------
(***************************************************************************)
(* Lemmas about queues.                                                    *)
(***************************************************************************)
\* Removing the i-th order leaves a queue of the others (cancel_order).
LEMMA WithoutRemainder ==
    ASSUME NEW f \in Seq(RestingOrder), NEW i \in DOMAIN f
    PROVE  /\ Without(f, i) \in Seq(RestingOrder)
           /\ \E h : Remainder(Without(f, i), f, h)
<1> DEFINE g == Without(f, i)
           h == [j \in 1..Len(f) - 1 |-> IF j < i THEN j ELSE j + 1]
<1>1. /\ Len(f) \in Nat /\ DOMAIN f = 1..Len(f) /\ i \in 1..Len(f)
      /\ \A j \in 1..Len(f) : f[j] \in RestingOrder
  OBVIOUS
<1>2. /\ DOMAIN g = 1..Len(f) - 1
      /\ \A j \in 1..Len(f) - 1 : g[j] = f[h[j]]
      /\ h \in [1..Len(f) - 1 -> 1..Len(f)]
  BY <1>1 DEF Without
<1>3. g \in Seq(RestingOrder)
  BY <1>1 DEF Without
<1>4. Remainder(g, f, h)
  BY <1>1, <1>2 DEF Remainder, SameOrder
<1> QED BY <1>3, <1>4

\* Removing the oldest order (match_against_book's unlink of the head).
LEMMA TailRemainder ==
    ASSUME NEW f \in Seq(RestingOrder), f # <<>>
    PROVE  /\ Tail(f) \in Seq(RestingOrder)
           /\ \E h : Remainder(Tail(f), f, h)
<1> DEFINE h == [j \in 1..Len(f) - 1 |-> j + 1]
<1>1. /\ Len(f) \in Nat \ {0} /\ DOMAIN f = 1..Len(f)
      /\ Tail(f) \in Seq(RestingOrder) /\ Len(Tail(f)) = Len(f) - 1
      /\ \A j \in 1..Len(f) - 1 : Tail(f)[j] = f[j + 1]
  OBVIOUS
<1>2. Remainder(Tail(f), f, h)
  BY <1>1 DEF Remainder, SameOrder
<1> QED BY <1>1, <1>2

\* Changing what is left of one order keeps every place in the queue
\* (level_reduce_quantity).
LEMMA ReduceRemainder ==
    ASSUME NEW f \in Seq(RestingOrder), NEW i \in DOMAIN f, NEW n \in Nat \ {0}
    PROVE  LET g == [f EXCEPT ![i] = [f[i] EXCEPT !.remaining = n]]
           IN  g \in Seq(RestingOrder) /\ \E h : Remainder(g, f, h)
<1> DEFINE g == [f EXCEPT ![i] = [f[i] EXCEPT !.remaining = n]]
           h == [j \in DOMAIN f |-> j]
<1>1. DOMAIN f = 1..Len(f) /\ \A j \in 1..Len(f) : f[j] \in RestingOrder
  OBVIOUS
<1>2. [f[i] EXCEPT !.remaining = n] \in RestingOrder
  BY Zenon, <1>1 DEF RestingOrder, Order
<1>3. g \in Seq(RestingOrder) /\ DOMAIN g = DOMAIN f
  BY <1>1, <1>2
<1>4. \A j \in DOMAIN f : SameOrder(g[j], f[j])
  BY <1>1, <1>2 DEF SameOrder, RestingOrder, Order
<1>5. Remainder(g, f, h)
  BY <1>3, <1>4 DEF Remainder
<1> QED BY <1>3, <1>5

\* A new arrival goes to the end of the queue (level_push_back).
LEMMA AppendFacts ==
    ASSUME NEW S, NEW f \in Seq(S), NEW e \in S
    PROVE  /\ Append(f, e) \in Seq(S)
           /\ Len(f) \in Nat /\ DOMAIN f = 1..Len(f)
           /\ DOMAIN Append(f, e) = 1..Len(f) + 1
           /\ \A i \in 1..Len(f) : Append(f, e)[i] = f[i]
           /\ Append(f, e)[Len(f) + 1] = e
  OBVIOUS

\* An untouched queue is its own remainder.
LEMMA SameRemainder ==
    ASSUME NEW f PROVE \E h : Remainder(f, f, h)
<1>1. Remainder(f, f, [j \in DOMAIN f |-> j])
  BY DEF Remainder, SameOrder
<1> QED BY <1>1

-----------------------------------------------------------------------------
(***************************************************************************)
(* Lemmas about whole books.                                               *)
(***************************************************************************)
Books == [Side -> [BookPrices -> Seq(RestingOrder)]]

\* A step that replaces one queue by a remainder of it shrinks the book.
LEMMA ShrinksAt ==
    ASSUME NEW q \in Books, NEW s \in Side, NEW p \in BookPrices,
           NEW g \in Seq(RestingOrder), \E h : Remainder(g, q[s][p], h)
    PROVE  /\ [q EXCEPT ![s][p] = g] \in Books
           /\ Shrinks(q, [q EXCEPT ![s][p] = g])
<1> DEFINE r == [q EXCEPT ![s][p] = g]
<1>1. r \in Books
  BY DEF Books
<1>2. \A t \in Side, x \in BookPrices :
        r[t][x] = IF t = s /\ x = p THEN g ELSE q[t][x]
  BY DEF Books
<1>3. \A t \in Side, x \in BookPrices : \E h : Remainder(r[t][x], q[t][x], h)
  BY <1>2, SameRemainder
<1> QED BY <1>1, <1>3 DEF Shrinks

\* A step that leaves every queue alone is a shrinking one.
LEMMA ShrinksSame == ASSUME NEW q PROVE Shrinks(q, q)
  BY SameRemainder DEF Shrinks

\* The first half of UniqueIds.
DistinctIds ==
    \A s, t \in Side, p, q \in BookPrices :
        \A i \in DOMAIN queue[s][p], j \in DOMAIN queue[t][q] :
            queue[s][p][i].id = queue[t][q][j].id => s = t /\ p = q /\ i = j

\* What no shrinking step can break, whatever it removes.
LEMMA ShrinksKeeps ==
    ASSUME queue \in Books, queue' \in Books, Shrinks(queue, queue')
    PROVE  /\ QueuesWellFormed => QueuesWellFormed'
           /\ DistinctIds => DistinctIds'
           /\ NotCrossed => NotCrossed'
           /\ \A id : Contains(queue', id) => Contains(queue, id)
           /\ \A s \in Side : Levels(queue', s) \subseteq Levels(queue, s)
<1>1. \A s \in Side, p \in BookPrices : \A i \in DOMAIN queue'[s][p] :
        \E k \in DOMAIN queue[s][p] : SameOrder(queue'[s][p][i], queue[s][p][k])
  BY DEF Shrinks, Remainder
<1>2. QueuesWellFormed => QueuesWellFormed'
  BY <1>1 DEF QueuesWellFormed, SameOrder
<1>3. ASSUME DistinctIds PROVE DistinctIds'
  <2> SUFFICES ASSUME NEW s \in Side, NEW t \in Side, NEW p \in BookPrices,
                      NEW x \in BookPrices,
                      NEW i \in DOMAIN queue'[s][p], NEW j \in DOMAIN queue'[t][x],
                      queue'[s][p][i].id = queue'[t][x][j].id
               PROVE  s = t /\ p = x /\ i = j
    BY DEF DistinctIds
  <2>1. PICK h : Remainder(queue'[s][p], queue[s][p], h)
    BY DEF Shrinks
  <2>2. PICK k : Remainder(queue'[t][x], queue[t][x], k)
    BY DEF Shrinks
  <2>3. queue[s][p][h[i]].id = queue[t][x][k[j]].id
    BY Zenon, <2>1, <2>2 DEF Remainder, SameOrder
  <2>i. h[i] \in DOMAIN queue[s][p]
    BY <2>1 DEF Remainder
  <2>j. k[j] \in DOMAIN queue[t][x]
    BY <2>2 DEF Remainder
  <2>d. \A m \in DOMAIN queue[s][p], n \in DOMAIN queue[t][x] :
          queue[s][p][m].id = queue[t][x][n].id => s = t /\ p = x /\ m = n
    BY <1>3 DEF DistinctIds
  <2>4. s = t /\ p = x
    BY <2>i, <2>j, <2>3, <2>d
  <2>5. queue[s][p][h[i]].id = queue[s][p][h[j]].id
    BY Zenon, <2>1, <2>4 DEF Remainder, SameOrder
  <2>k. h[j] \in DOMAIN queue[s][p]
    BY <2>1, <2>4 DEF Remainder
  <2>6. h[i] = h[j]
    BY <2>i, <2>k, <2>4, <2>5, <2>d
  <2> QED BY <2>1, <2>4, <2>6 DEF Remainder
<1>4. \A s \in Side : Levels(queue', s) \subseteq Levels(queue, s)
  <2> SUFFICES ASSUME NEW s \in Side, NEW p \in BookPrices, queue'[s][p] # <<>>
               PROVE  queue[s][p] # <<>>
    BY DEF Levels
  <2>1. queue'[s][p] \in Seq(RestingOrder) /\ queue[s][p] \in Seq(RestingOrder)
    BY DEF Books
  <2>2. 1 \in DOMAIN queue'[s][p]
    BY <2>1
  <2>3. PICK k \in DOMAIN queue[s][p] : TRUE
    BY <1>1, <2>2
  <2> QED BY <2>1, <2>3
<1>5. NotCrossed => NotCrossed'
  BY <1>4 DEF NotCrossed, Side
<1>6. \A id : Contains(queue', id) => Contains(queue, id)
  BY <1>1 DEF Contains, HasId, SameOrder
<1> QED BY <1>2, <1>3, <1>4, <1>5, <1>6

\* A side that holds an order has a best price (begin() of the map, front()
\* of the vector, the cached index of the array): prices are bounded.
LEMMA BestExists ==
    ASSUME NEW s \in Side, NEW P, P \subseteq BookPrices, P # {}
    PROVE  \E p \in P : \A r \in P : Better(s, p, r)
<1>1. PICK max \in Nat : \A p \in BookPrices : p \in Nat /\ p <= max
  BY BookPricesAssumption DEF kMarketOrderPrice
<1>3. CASE s = "Sell"
  BY <1>1, <1>3, NatMin DEF Better
<1>4. CASE s = "Buy"
  <2> DEFINE T == {max - p : p \in P}
  <2>1. T \in SUBSET Nat /\ T # {}
    BY <1>1
  <2>2. PICK m \in T : \A n \in T : m <= n
    BY Zenon, <2>1, NatMin
  <2>3. PICK p \in P : m = max - p
    BY <2>2
  <2>4. \A r \in P : max - p <= max - r
    BY <2>2, <2>3
  <2> QED BY <1>1, <1>4, <2>4 DEF Better
<1> QED BY <1>3, <1>4 DEF Side

-----------------------------------------------------------------------------
(***************************************************************************)
(* The inductive invariant.                                                *)
(***************************************************************************)
Matching == pc \in {"match", "killed"}

\* The order being matched has passed add_order's validation.
TakerOk ==
    Matching => /\ taker \in Order(OrderIds, Int, Nat, Nat)
                /\ taker.type = "Limit" => taker.price \in BookPrices

\* No level left on the far side is better than one already traded at.
TradesAhead ==
    Matching =>
        \A i \in DOMAIN trades, r \in Levels(queue, Opposite(taker.side)) :
            Better(Opposite(taker.side), trades[i].price, r)

IInv ==
    /\ TypeOK /\ QueuesWellFormed /\ UniqueIds /\ NotCrossed
    /\ NoSelfTrade /\ TradesWalkTheBook
    /\ TakerOk /\ TradesAhead

\* A new book is empty: the inductive invariant holds.
LEMMA InitIInv == Init => IInv
<1> SUFFICES ASSUME Init PROVE IInv
  OBVIOUS
<1>1. queue \in Books /\ \A s \in Side, p \in BookPrices : queue[s][p] = <<>>
  BY DEF Init, Books
<1>2. NoOrder \in Order(OrderIds \cup {kInvalidOrderId}, Int, Nat, Nat)
  BY DEF NoOrder, Order, Side, OrderType, TimeInForce, kInvalidOrderId, kNoParticipant
<1>3. TypeOK
  BY <1>1, <1>2, StpAssumption DEF TypeOK, Init, Books
<1>4. QueuesWellFormed /\ UniqueIds /\ NotCrossed
  <2>1. \A s \in Side, p \in BookPrices : DOMAIN queue[s][p] = {}
    BY <1>1
  <2>2. \A s \in Side : Levels(queue, s) = {}
    BY Zenon, <1>1 DEF Levels
  <2>3. NotCrossed
    BY <2>2 DEF NotCrossed, Side
  <2>4. QueuesWellFormed /\ UniqueIds
    BY <2>1 DEF QueuesWellFormed, UniqueIds, Init
  <2> QED BY <2>3, <2>4
<1>5. NoSelfTrade /\ TradesWalkTheBook /\ TakerOk /\ TradesAhead
  BY DEF NoSelfTrade, TradesWalkTheBook, TakerOk, TradesAhead, Matching, Init
<1> QED BY <1>3, <1>4, <1>5 DEF IInv

\* A step that only shrinks the book and is not left in the matching loop.
LEMMA QuietKeepsIInv ==
    ASSUME IInv, TypeOK', Shrinks(queue, queue'), ~Matching'
    PROVE  IInv'
<1>1. queue \in Books /\ queue' \in Books
  BY DEF IInv, TypeOK, Books
<1>2. QueuesWellFormed' /\ DistinctIds' /\ NotCrossed'
  BY <1>1, ShrinksKeeps DEF IInv, UniqueIds, DistinctIds
<1>3. UniqueIds' /\ NoSelfTrade' /\ TradesWalkTheBook' /\ TakerOk' /\ TradesAhead'
  BY <1>2 DEF UniqueIds, DistinctIds, NoSelfTrade, TradesWalkTheBook, TakerOk,
              TradesAhead, Matching
<1> QED BY <1>2, <1>3 DEF IInv

\* What add_order's entry leaves behind.
LEMMA EnterFacts ==
    ASSUME NEW q, NEW O, Enter(q, O)
    PROVE  /\ trades' = <<>>
           /\ \/ pc' = "return" /\ taker' = NoOrder /\ original' = 0
              \/ /\ pc' = "match" /\ taker' \in O /\ Validate(q, taker') = "None"
                 /\ original' = taker'.remaining
<1>1. CASE Refuse(q, O)
  BY <1>1 DEF Enter, Refuse, Return, Answer
<1>2. CASE Kill(q, O)
  BY <1>2 DEF Enter, Kill, Return, Answer
<1>3. CASE Accept(q, O)
  BY <1>3 DEF Enter, Accept
<1> QED BY <1>1, <1>2, <1>3 DEF Enter

\* add_order up to the matching loop, whether called by a client or by an
\* amend on the book without the old order, keeps the inductive invariant.
LEMMA EnterKeepsIInv ==
    ASSUME IInv, queue' \in Books, Shrinks(queue, queue'), UNCHANGED stp_policy,
           NEW O, O \subseteq Order(OrderIds, Int, Int, Nat), Enter(queue', O)
    PROVE  IInv'
<1>1. /\ trades' = <<>>
      /\ \/ pc' = "return" /\ taker' = NoOrder /\ original' = 0
         \/ /\ pc' = "match" /\ taker' \in O /\ Validate(queue', taker') = "None"
            /\ original' = taker'.remaining
  BY EnterFacts
<1>2. CASE pc' = "return"
  <2>1. NoOrder \in Order(OrderIds \cup {kInvalidOrderId}, Int, Nat, Nat)
    BY DEF NoOrder, Order, Side, OrderType, TimeInForce, kInvalidOrderId, kNoParticipant
  <2>2. TypeOK'
    BY <1>1, <1>2, <2>1 DEF IInv, TypeOK, Books
  <2> QED BY <1>2, <2>2, QuietKeepsIInv DEF Matching
<1>3. CASE pc' = "match"
  <2>1. /\ taker' \in O /\ Validate(queue', taker') = "None"
        /\ original' = taker'.remaining
    BY <1>1, <1>3
  <2>2. /\ taker'.remaining > 0
        /\ taker'.type = "Limit" => taker'.price \in BookPrices
        /\ ~Contains(queue', taker'.id)
    BY <2>1, IdAssumption DEF Validate, Order
  <2>3. taker' \in Order(OrderIds, Int, Nat, Nat)
    BY <2>1, <2>2 DEF Order
  <2>4. TypeOK'
    BY <1>1, <1>3, <2>1, <2>3 DEF IInv, TypeOK, Books, Order
  <2>5. queue \in Books
    BY DEF IInv, TypeOK, Books
  <2>6. QueuesWellFormed' /\ DistinctIds' /\ NotCrossed'
    BY <2>5, ShrinksKeeps DEF IInv, UniqueIds, DistinctIds
  <2>7. UniqueIds'
    BY <2>2, <2>6 DEF UniqueIds, DistinctIds
  <2>8. NoSelfTrade' /\ TradesWalkTheBook' /\ TradesAhead'
    BY <1>1 DEF NoSelfTrade, TradesWalkTheBook, TradesAhead
  <2>9. TakerOk'
    BY <2>2, <2>3 DEF TakerOk
  <2> QED BY <2>4, <2>6, <2>7, <2>8, <2>9 DEF IInv
<1> QED BY <1>1, <1>2, <1>3

-----------------------------------------------------------------------------
(***************************************************************************)
(* One lemma per action.  All but the end of add_order only shrink the     *)
(* book.                                                                   *)
(***************************************************************************)
\* add_order called by a client.
LEMMA AddOrderKeeps == IInv /\ AddOrder => IInv' /\ Shrinks(queue, queue')
<1> SUFFICES ASSUME IInv, AddOrder PROVE IInv' /\ Shrinks(queue, queue')
  OBVIOUS
<1>1. queue' = queue /\ UNCHANGED stp_policy /\ Enter(queue', Requests)
  BY DEF AddOrder
<1>2. queue' \in Books /\ Shrinks(queue, queue')
  BY <1>1, ShrinksSame DEF IInv, TypeOK, Books
<1> QED BY <1>1, <1>2, EnterKeepsIInv, RequestAssumption

\* What an amend resubmits is an order add_order may be given.
LEMMA ReplacementsType ==
    ASSUME NEW old \in RestingOrder
    PROVE  Replacements(old) \subseteq Order(OrderIds, Int, Int, Nat)
<1>1. ASSUME NEW q \in AmendQuantities, NEW p \in AmendPrices \cup {nullopt}
      PROVE  Replacement(old, q, p) \in Order(OrderIds, Int, Int, Nat)
  <2>1. q \in Int /\ AmendPrices \subseteq Int
    BY AmendAssumption
  <2>2. old.price \in BookPrices /\ \A x \in BookPrices : x \in Int
    <3>1. \A x \in BookPrices : x \in Int
      BY BookPricesAssumption
    <3> QED BY <3>1 DEF RestingOrder, Order
  <2>3. (IF p = nullopt THEN old.price ELSE p) \in Int
    BY <2>1, <2>2
  <2> QED BY Zenon, <2>1, <2>3 DEF RestingOrder, Order, Replacement
<1>2. \A n \in AmendQuantities \X (AmendPrices \cup {nullopt}) :
        Replacement(old, n[1], n[2]) \in Order(OrderIds, Int, Int, Nat)
  BY <1>1
<1> QED BY <1>2, Zenon DEF Replacements

\* amend_order that cancels the order and resubmits it.
LEMMA AmendReplaceKeeps == IInv /\ AmendReplace => IInv' /\ Shrinks(queue, queue')
<1> SUFFICES ASSUME IInv, AmendReplace PROVE IInv' /\ Shrinks(queue, queue')
  OBVIOUS
<1>1. PICK s \in Side, p \in BookPrices : \E i \in DOMAIN queue[s][p] :
        /\ queue' = [queue EXCEPT ![s][p] = Without(@, i)]
        /\ Enter(queue', Replacements(queue[s][p][i]))
  BY Zenon DEF AmendReplace
<1>2. PICK i \in DOMAIN queue[s][p] :
        /\ queue' = [queue EXCEPT ![s][p] = Without(@, i)]
        /\ Enter(queue', Replacements(queue[s][p][i]))
  BY Zenon, <1>1
<1>3. queue \in Books /\ queue[s][p] \in Seq(RestingOrder) /\ queue[s][p][i] \in RestingOrder
  BY DEF IInv, TypeOK, Books
<1>4. queue' \in Books /\ Shrinks(queue, queue')
  BY Zenon, <1>2, <1>3, WithoutRemainder, ShrinksAt
<1>5. UNCHANGED stp_policy
  BY DEF AmendReplace
<1> QED BY Zenon, <1>2, <1>3, <1>4, <1>5, ReplacementsType, EnterKeepsIInv

\* The calls that answer at once.
LEMMA AnswerType ==
    ASSUME IInv, queue' \in Books, UNCHANGED <<stp_policy, trades>>,
           NEW r, Return(r)
    PROVE  TypeOK' /\ ~Matching'
<1>1. NoOrder \in Order(OrderIds \cup {kInvalidOrderId}, Int, Nat, Nat)
  BY DEF NoOrder, Order, Side, OrderType, TimeInForce, kInvalidOrderId, kNoParticipant
<1> QED BY <1>1 DEF IInv, TypeOK, Books, Return, Answer, Matching

\* cancel_order.
LEMMA CancelOrderKeeps == IInv /\ CancelOrder => IInv' /\ Shrinks(queue, queue')
<1> SUFFICES ASSUME IInv, CancelOrder PROVE IInv' /\ Shrinks(queue, queue')
  OBVIOUS
<1>1. queue \in Books
  BY DEF IInv, TypeOK, Books
<1>2. (\E r : Return(r)) /\ UNCHANGED <<stp_policy, trades>>
  BY DEF CancelOrder
<1>3. queue' \in Books /\ Shrinks(queue, queue')
  <2>1. CASE UNCHANGED queue
    BY <1>1, <2>1, ShrinksSame
  <2>2. ASSUME NEW s \in Side, NEW p \in BookPrices, NEW i \in DOMAIN queue[s][p],
               queue' = [queue EXCEPT ![s][p] = Without(@, i)]
        PROVE  queue' \in Books /\ Shrinks(queue, queue')
    <3>1. queue[s][p] \in Seq(RestingOrder)
      BY <1>1 DEF Books
    <3> QED BY Zenon, <1>1, <2>2, <3>1, WithoutRemainder, ShrinksAt
  <2> QED BY <2>1, <2>2 DEF CancelOrder
<1> QED BY <1>2, <1>3, AnswerType, QuietKeepsIInv

\* amend_order of an unknown order or with a quantity that is not positive.
LEMMA AmendRejectKeeps == IInv /\ AmendReject => IInv' /\ Shrinks(queue, queue')
<1> SUFFICES ASSUME IInv, AmendReject PROVE IInv' /\ Shrinks(queue, queue')
  OBVIOUS
<1>1. (\E r : Return(r)) /\ UNCHANGED <<queue, stp_policy, trades>>
  BY DEF AmendReject
<1>2. queue' \in Books /\ Shrinks(queue, queue')
  BY <1>1, ShrinksSame DEF IInv, TypeOK, Books
<1> QED BY <1>1, <1>2, AnswerType, QuietKeepsIInv

\* amend_order that lowers the quantity and keeps the place in the queue.
LEMMA AmendInPlaceKeeps == IInv /\ AmendInPlace => IInv' /\ Shrinks(queue, queue')
<1> SUFFICES ASSUME IInv, AmendInPlace PROVE IInv' /\ Shrinks(queue, queue')
  OBVIOUS
<1>1. PICK id \in OrderIds, q \in AmendQuantities :
        /\ Return(ExecutionReport(id, "New", 0, q, "None"))
        /\ q > 0
        /\ \E s \in Side, p \in BookPrices : \E i \in DOMAIN queue[s][p] :
            /\ queue[s][p][i].id = id
            /\ q <= queue[s][p][i].remaining
            /\ queue' = [queue EXCEPT ![s][p][i].remaining = q]
  BY Zenon DEF AmendInPlace
<1>2. PICK s \in Side, p \in BookPrices : \E i \in DOMAIN queue[s][p] :
        queue' = [queue EXCEPT ![s][p][i].remaining = q]
  BY Zenon, <1>1
<1>3. PICK i \in DOMAIN queue[s][p] :
        queue' = [queue EXCEPT ![s][p][i].remaining = q]
  BY Zenon, <1>2
<1> DEFINE f == queue[s][p]
           g == [f EXCEPT ![i] = [f[i] EXCEPT !.remaining = q]]
<1>4. queue \in Books /\ f \in Seq(RestingOrder) /\ q \in Nat \ {0}
  BY <1>1, AmendAssumption DEF IInv, TypeOK, Books
<1>5. queue' = [queue EXCEPT ![s][p] = g]
  BY <1>3
<1>6. g \in Seq(RestingOrder) /\ \E h : Remainder(g, f, h)
  BY <1>4, ReduceRemainder
<1>7. queue' \in Books /\ Shrinks(queue, queue')
  <2> HIDE DEF g
  <2> QED BY Zenon, <1>4, <1>5, <1>6, ShrinksAt
<1>8. UNCHANGED <<stp_policy, trades>>
  BY DEF AmendInPlace
<1> QED BY <1>1, <1>7, <1>8, AnswerType, QuietKeepsIInv

\* reset.
LEMMA ResetKeeps == IInv /\ Reset => IInv' /\ Shrinks(queue, queue')
<1> SUFFICES ASSUME IInv, Reset PROVE IInv' /\ Shrinks(queue, queue')
  OBVIOUS
<1>1. queue' \in Books /\ \A s \in Side, p \in BookPrices : queue'[s][p] = <<>>
  BY DEF Reset, Books
<1>2. Shrinks(queue, queue')
  <2> SUFFICES ASSUME NEW s \in Side, NEW p \in BookPrices
               PROVE  Remainder(<<>>, queue[s][p], <<>>)
    BY <1>1 DEF Shrinks
  <2> QED BY DEF Remainder
<1>3. TypeOK'
  BY <1>1 DEF Reset, IInv, TypeOK, Books
<1>4. ~Matching'
  BY DEF Reset, Matching
<1> QED BY <1>2, <1>3, <1>4, QuietKeepsIInv

\* A call returns to the client.
LEMMA ReturnedKeeps == IInv /\ Returned => IInv' /\ Shrinks(queue, queue')
<1> SUFFICES ASSUME IInv, Returned PROVE IInv' /\ Shrinks(queue, queue')
  OBVIOUS
<1>1. TypeOK' /\ ~Matching'
  BY DEF Returned, IInv, TypeOK, Matching
<1>2. Shrinks(queue, queue')
  BY ShrinksSame DEF Returned
<1> QED BY <1>1, <1>2, QuietKeepsIInv

\* A turn of the matching loop: the book shrinks, the taker keeps its
\* identity, and what was printed so far stays printed.
LEMMA LoopKeeps ==
    ASSUME IInv, pc = "match", TypeOK', Shrinks(queue, queue'),
           SameOrder(taker', taker), UNCHANGED stp_policy, Matching',
           taker' \in Order(OrderIds, Int, Nat, Nat)
    PROVE  /\ QueuesWellFormed' /\ UniqueIds' /\ NotCrossed' /\ TakerOk'
           /\ \A s \in Side : Levels(queue', s) \subseteq Levels(queue, s)
<1>1. queue \in Books /\ queue' \in Books
  BY DEF IInv, TypeOK, Books
<1>2. /\ QueuesWellFormed' /\ DistinctIds' /\ NotCrossed'
      /\ \A s \in Side : Levels(queue', s) \subseteq Levels(queue, s)
      /\ ~Contains(queue, taker.id) => ~Contains(queue', taker.id)
  BY <1>1, ShrinksKeeps DEF IInv, UniqueIds, DistinctIds
<1>3. UniqueIds'
  BY <1>2 DEF IInv, UniqueIds, DistinctIds, SameOrder
<1>4. TakerOk'
  BY DEF IInv, TakerOk, Matching, SameOrder
<1> QED BY <1>2, <1>3, <1>4

\* A turn of the matching loop that meets an order of the same participant.
LEMMA PreventSelfTradeKeeps == IInv /\ PreventSelfTrade => IInv' /\ Shrinks(queue, queue')
<1> SUFFICES ASSUME IInv, PreventSelfTrade PROVE IInv' /\ Shrinks(queue, queue')
  OBVIOUS
<1> DEFINE s == Opposite(taker.side)
<1>1. PICK p \in BookPrices :
        /\ Reachable(p)
        /\ queue' = IF CancelsResting(stp_policy)
                    THEN [queue EXCEPT ![s][p] = Tail(@)] ELSE queue
  BY Zenon DEF PreventSelfTrade
<1>2. /\ pc = "match" /\ UNCHANGED <<stp_policy, taker, original, trades>>
      /\ pc' \in {"match", "killed"}
  BY DEF PreventSelfTrade
<1>3. taker \in Order(OrderIds, Int, Nat, Nat) /\ s \in Side
  BY <1>2 DEF IInv, TakerOk, Matching, Opposite, Side
<1>4. queue \in Books /\ queue[s][p] \in Seq(RestingOrder) /\ queue[s][p] # <<>>
  BY <1>1, <1>3 DEF IInv, TypeOK, Books, Reachable, Levels
<1>5. queue' \in Books /\ Shrinks(queue, queue')
  BY Zenon, <1>1, <1>3, <1>4, TailRemainder, ShrinksAt, ShrinksSame
<1>6. TypeOK' /\ Matching' /\ SameOrder(taker', taker)
  BY <1>2, <1>5 DEF IInv, TypeOK, Books, Matching, SameOrder
<1>7. /\ QueuesWellFormed' /\ UniqueIds' /\ NotCrossed' /\ TakerOk'
      /\ \A t \in Side : Levels(queue', t) \subseteq Levels(queue, t)
  BY <1>2, <1>3, <1>5, <1>6, LoopKeeps
<1>8. NoSelfTrade' /\ TradesWalkTheBook'
  BY <1>2 DEF IInv, NoSelfTrade, TradesWalkTheBook
<1>9. TradesAhead'
  BY <1>2, <1>3, <1>7 DEF IInv, TradesAhead, Matching
<1> QED BY <1>5, <1>6, <1>7, <1>8, <1>9 DEF IInv

\* A turn of the matching loop that trades.
LEMMA FillKeeps == IInv /\ Fill => IInv' /\ Shrinks(queue, queue')
<1> SUFFICES ASSUME IInv, Fill PROVE IInv' /\ Shrinks(queue, queue')
  OBVIOUS
<1> DEFINE s == Opposite(taker.side)
           maker(p) == Head(queue[s][p])
           qty(p) == MinOf(taker.remaining, maker(p).remaining)
           rest(p) == [maker(p) EXCEPT !.remaining = @ - qty(p)]
           trade(p) == [maker |-> maker(p).id, price |-> p, quantity |-> qty(p),
                        participant |-> maker(p).participant]
<1>1. PICK p \in BookPrices :
        /\ Reachable(p)
        /\ ~SelfTrade(stp_policy, taker, maker(p))
        /\ taker' = [taker EXCEPT !.remaining = @ - qty(p)]
        /\ queue' = [queue EXCEPT ![s][p] =
                        IF rest(p).remaining = 0 THEN Tail(@)
                        ELSE [@ EXCEPT ![1] = rest(p)]]
        /\ trades' = Append(trades, trade(p))
  BY Zenon DEF Fill
<1>2. pc = "match" /\ UNCHANGED <<stp_policy, pc, original, report>>
  BY Zenon DEF Fill
<1>3. /\ taker \in Order(OrderIds, Int, Nat, Nat) /\ s \in Side
      /\ taker.type = "Limit" => taker.price \in BookPrices
  BY <1>2 DEF IInv, TakerOk, Matching, Opposite, Side
<1> DEFINE f == queue[s][p]
           n == maker(p).remaining - qty(p)
<1>4. /\ queue \in Books /\ f \in Seq(RestingOrder) /\ f # <<>>
      /\ p \in Levels(queue, s) /\ \A r \in Levels(queue, s) : Better(s, p, r)
      /\ PriceOk(taker, p) /\ taker.remaining > 0
  BY <1>1, <1>3 DEF IInv, TypeOK, Books, Reachable, Levels
<1>5. maker(p) = f[1] /\ maker(p) \in RestingOrder /\ 1 \in DOMAIN f
  BY <1>4
<1>6. /\ maker(p).remaining \in Nat \ {0} /\ maker(p).id \in OrderIds
      /\ maker(p).participant \in Nat /\ taker.remaining \in Nat \ {0}
  <2>1. \A r \in RestingOrder :
          r.remaining \in Nat \ {0} /\ r.id \in OrderIds /\ r.participant \in Nat
    BY DEF RestingOrder, Order
  <2>2. taker.remaining \in Nat
    BY <1>3 DEF Order
  <2>3. taker.remaining > 0 /\ maker(p) \in RestingOrder
    BY <1>4, <1>5
  <2>4. taker.remaining \in Nat \ {0}
    BY <2>2, <2>3
  <2> HIDE DEF maker
  <2> QED BY <2>1, <2>3, <2>4
<1>7. /\ qty(p) \in Nat \ {0} /\ n \in Nat
      /\ taker.remaining - qty(p) \in Nat
  <2>1. \A a, b \in Nat \ {0} : /\ MinOf(a, b) \in Nat \ {0}
                               /\ a - MinOf(a, b) \in Nat /\ b - MinOf(a, b) \in Nat
    BY DEF MinOf
  <2> HIDE DEF maker
  <2> QED BY <1>6, <2>1
<1>8. rest(p) = [f[1] EXCEPT !.remaining = n] /\ rest(p).remaining = n
  BY <1>5 DEF RestingOrder, Order
<1>9. trade(p) \in Trade
  BY Zenon, <1>6, <1>7 DEF Trade
<1> HIDE DEF maker, qty, rest, trade, n
<1>10. queue' \in Books /\ Shrinks(queue, queue')
  <2>1. CASE n = 0
    <3>1. queue' = [queue EXCEPT ![s][p] = Tail(f)]
      BY <1>1, <1>8, <2>1
    <3> QED BY Zenon, <1>3, <1>4, <3>1, TailRemainder, ShrinksAt
  <2>2. CASE n # 0
    <3> DEFINE g == [f EXCEPT ![1] = [f[1] EXCEPT !.remaining = n]]
    <3>1. queue' = [queue EXCEPT ![s][p] = g]
      BY <1>1, <1>8, <2>2
    <3>2. g \in Seq(RestingOrder) /\ \E h : Remainder(g, f, h)
      BY Zenon, <1>4, <1>5, <1>7, <2>2, ReduceRemainder
    <3> HIDE DEF g
    <3> QED BY Zenon, <1>3, <1>4, <3>1, <3>2, ShrinksAt
  <2> QED BY <2>1, <2>2
<1>11. /\ taker' \in Order(OrderIds, Int, Nat, Nat)
       /\ SameOrder(taker', taker)
  BY <1>1, <1>3, <1>7 DEF Order, SameOrder
<1>12. trades' \in Seq(Trade) /\ trades \in Seq(Trade)
  BY <1>1, <1>9 DEF IInv, TypeOK
<1>13. /\ DOMAIN trades' = 1..Len(trades) + 1 /\ DOMAIN trades = 1..Len(trades)
       /\ Len(trades) \in Nat
       /\ \A i \in 1..Len(trades) : trades'[i] = trades[i]
       /\ trades'[Len(trades) + 1] = trade(p)
  BY <1>1, <1>12
<1>14. trade(p).price = p /\ trade(p).participant = maker(p).participant
  BY DEF trade
<1>15. TypeOK' /\ Matching'
  BY <1>2, <1>10, <1>11, <1>12 DEF IInv, TypeOK, Books, Matching, Order
<1>16. /\ QueuesWellFormed' /\ UniqueIds' /\ NotCrossed' /\ TakerOk'
       /\ \A t \in Side : Levels(queue', t) \subseteq Levels(queue, t)
  BY <1>2, <1>10, <1>11, <1>15, LoopKeeps
<1>17. NoSelfTrade'
  BY <1>1, <1>2, <1>11, <1>13, <1>14 DEF IInv, NoSelfTrade, SelfTrade, SameOrder
<1>18. Opposite(taker'.side) = s /\ \A x : PriceOk(taker', x) <=> PriceOk(taker, x)
  BY <1>11 DEF SameOrder, PriceOk
<1>19. TradesWalkTheBook'
  <2> SUFFICES ASSUME NEW i \in 1..Len(trades) + 1
               PROVE  /\ PriceOk(taker', trades'[i].price)
                      /\ \A j \in 1..i : Better(s, trades'[j].price, trades'[i].price)
    BY <1>13, <1>18 DEF TradesWalkTheBook
  <2>1. CASE i \in 1..Len(trades)
    <3>1. /\ PriceOk(taker, trades[i].price)
          /\ \A j \in 1..i : Better(s, trades[j].price, trades[i].price)
      BY <1>2, <1>13, <2>1 DEF IInv, TradesWalkTheBook
    <3> QED BY <1>13, <1>18, <2>1, <3>1
  <2>2. CASE i = Len(trades) + 1
    <3>1. \A j \in 1..Len(trades) : Better(s, trades[j].price, p)
      BY <1>2, <1>4, <1>13 DEF IInv, TradesAhead, Matching
    <3>2. Better(s, p, p)
      BY <1>4
    <3>3. trades'[i].price = p
      BY <1>13, <1>14, <2>2
    <3>4. PriceOk(taker', p)
      BY <1>4, <1>18
    <3>5. ASSUME NEW j \in 1..i PROVE Better(s, trades'[j].price, p)
      <4>1. Len(trades) \in Nat
        BY <1>13
      <4>2. j \in 1..Len(trades) \/ j = i
        BY <2>2, <4>1
      <4>3. CASE j \in 1..Len(trades)
        BY <1>13, <3>1, <4>3
      <4>4. CASE j = i
        BY <3>2, <3>3, <4>4
      <4> QED BY <4>2, <4>3, <4>4
    <3> QED BY <3>3, <3>4, <3>5
  <2> QED BY <1>13, <2>1, <2>2
<1>20. TradesAhead'
  <2> SUFFICES ASSUME NEW i \in 1..Len(trades) + 1, NEW r \in Levels(queue', s)
               PROVE  Better(s, trades'[i].price, r)
    BY <1>13, <1>18 DEF TradesAhead
  <2>1. r \in Levels(queue, s)
    BY <1>3, <1>16
  <2>2. CASE i \in 1..Len(trades)
    BY <1>2, <1>13, <2>1, <2>2 DEF IInv, TradesAhead, Matching
  <2>3. CASE i = Len(trades) + 1
    BY <1>4, <1>13, <1>14, <2>1, <2>3
  <2> QED BY <1>13, <2>2, <2>3
<1> QED BY <1>10, <1>15, <1>16, <1>17, <1>19, <1>20 DEF IInv

\* The taker comes to rest (rest_order).  The only step that adds to the
\* book, and the one that could cross it or repeat an id.
Rest ==
    /\ pc = "match" /\ \A p \in BookPrices : ~Reachable(p)
    /\ taker.remaining # 0 /\ rests_in_book(taker)
    /\ queue' = [queue EXCEPT ![taker.side][taker.price] = Append(@, taker)]

\* rest_order: the remainder joins its queue without crossing the other side,
\* because the loop ended with nothing left within its limit.
LEMMA RestKeeps ==
    ASSUME IInv, Rest, UNCHANGED <<stp_policy, trades>>, NEW report0, Return(report0)
    PROVE  IInv' /\ \A id : Contains(queue', id) => Contains(queue, id) \/ id = taker.id
<1> DEFINE s == taker.side
           p == taker.price
           f == queue[s][p]
           g == Append(f, taker)
<1>1. /\ taker \in RestingOrder /\ s \in Side /\ p \in BookPrices
      /\ taker.type = "Limit" /\ ~Contains(queue, taker.id)
  BY DEF Rest, IInv, TakerOk, UniqueIds, Matching, RestingOrder, Order, rests_in_book
<1>2. queue \in Books /\ f \in Seq(RestingOrder)
  BY <1>1 DEF IInv, TypeOK, Books
<1>3. /\ g \in Seq(RestingOrder)
      /\ Len(f) \in Nat /\ DOMAIN f = 1..Len(f)
      /\ DOMAIN g = 1..Len(f) + 1
      /\ \A i \in 1..Len(f) : g[i] = f[i]
      /\ g[Len(f) + 1] = taker
  <2> HIDE DEF f
  <2> QED BY <1>1, <1>2, AppendFacts
<1>4. /\ queue' \in Books
      /\ \A t \in Side, x \in BookPrices :
           queue'[t][x] = IF t = s /\ x = p THEN g ELSE queue[t][x]
  BY Zenon, <1>1, <1>2, <1>3 DEF Books, Rest
<1> HIDE DEF g
<1>5. TypeOK' /\ ~Matching'
  BY <1>4, AnswerType
\* Every order of the new book is the taker or an order of the old one.
<1>6. \A t \in Side, x \in BookPrices : \A i \in DOMAIN queue'[t][x] :
        \/ i \in DOMAIN queue[t][x] /\ queue'[t][x][i] = queue[t][x][i]
        \/ t = s /\ x = p /\ i = Len(f) + 1 /\ queue'[t][x][i] = taker
  <2> SUFFICES ASSUME NEW t \in Side, NEW x \in BookPrices,
                      NEW i \in DOMAIN queue'[t][x]
               PROVE  \/ i \in DOMAIN queue[t][x] /\ queue'[t][x][i] = queue[t][x][i]
                      \/ t = s /\ x = p /\ i = Len(f) + 1 /\ queue'[t][x][i] = taker
    OBVIOUS
  <2>1. CASE t = s /\ x = p
    <3>1. queue'[t][x] = g /\ queue[t][x] = f
      BY <1>4, <2>1
    <3>2. i \in 1..Len(f) \/ i = Len(f) + 1
      <4> HIDE DEF f
      <4> QED BY <1>3, <3>1
    <3> QED BY Zenon, <1>3, <2>1, <3>1, <3>2
  <2>2. CASE ~(t = s /\ x = p)
    BY <1>4, <2>2
  <2> QED BY <2>1, <2>2
<1>7. QueuesWellFormed'
  <2>1. taker.type = "Limit" /\ taker.tif = "GTC"
    BY DEF Rest, rests_in_book
  <2> QED BY <1>6, <2>1 DEF IInv, QueuesWellFormed
<1>8. \A t \in Side, x \in BookPrices : \A i \in DOMAIN queue[t][x] :
        queue[t][x][i].id # taker.id
  BY <1>1 DEF Contains, HasId
<1>9. DistinctIds'
  <2> SUFFICES ASSUME NEW t \in Side, NEW u \in Side, NEW x \in BookPrices,
                      NEW y \in BookPrices,
                      NEW i \in DOMAIN queue'[t][x], NEW j \in DOMAIN queue'[u][y],
                      queue'[t][x][i].id = queue'[u][y][j].id
               PROVE  t = u /\ x = y /\ i = j
    BY DEF DistinctIds
  <2>1. CASE i \in DOMAIN queue[t][x] /\ queue'[t][x][i] = queue[t][x][i]
    <3>1. queue'[u][y][j] # taker
      BY <1>8, <2>1
    <3>2. j \in DOMAIN queue[u][y] /\ queue'[u][y][j] = queue[u][y][j]
      BY <1>6, <3>1
    <3> QED BY <2>1, <3>2 DEF IInv, UniqueIds
  <2>2. CASE t = s /\ x = p /\ i = Len(f) + 1 /\ queue'[t][x][i] = taker
    <3>1. ~(j \in DOMAIN queue[u][y] /\ queue'[u][y][j] = queue[u][y][j])
      BY <1>8, <2>2
    <3> QED BY Zenon, <1>6, <2>2, <3>1
  <2> QED BY <1>6, <2>1, <2>2
\* What the loop left on the far side is out of the taker's reach.
<1>10. \A r \in Levels(queue, Opposite(s)) : ~PriceOk(taker, r)
  <2> DEFINE o == Opposite(s)
             P == Levels(queue, o)
  <2> SUFFICES ASSUME NEW r \in P PROVE ~PriceOk(taker, r)
    OBVIOUS
  <2>1. o \in Side /\ P \subseteq BookPrices /\ P # {}
    BY <1>1 DEF Opposite, Side, Levels
  <2>2. PICK b \in P : \A x \in P : Better(o, b, x)
    <3> HIDE DEF P, o
    <3> QED BY <2>1, BestExists
  <2>3. taker.remaining > 0
    BY <1>1 DEF RestingOrder, Order
  <2>4. ~PriceOk(taker, b)
    BY <2>1, <2>2, <2>3 DEF Reachable, Rest
  <2>5. b \in Int /\ r \in Int /\ p \in Int
    <3>1. \A x \in BookPrices : x \in Int
      BY BookPricesAssumption
    <3> QED BY <1>1, <2>1, <2>2, <3>1
  <2>6. Better(o, b, r)
    BY <2>2
  <2> QED BY <1>1, <2>4, <2>5, <2>6 DEF PriceOk, Better, Opposite, Side
<1>11. NotCrossed'
  <2>1. \A t \in Side : \A x \in Levels(queue', t) :
          x \in Levels(queue, t) \/ (t = s /\ x = p)
    BY <1>4 DEF Levels
  <2>2. \A r \in BookPrices : r \in Int
    BY BookPricesAssumption
  <2>3. CASE s = "Buy"
    <3>1. \A r \in Levels(queue, "Sell") : p < r
      BY <1>1, <1>10, <2>2, <2>3 DEF PriceOk, Opposite, Levels
    <3> QED BY <2>1, <2>3, <3>1 DEF IInv, NotCrossed, Side
  <2>4. CASE s = "Sell"
    <3>1. \A r \in Levels(queue, "Buy") : r < p
      BY <1>1, <1>10, <2>2, <2>4 DEF PriceOk, Opposite, Levels
    <3> QED BY <2>1, <2>4, <3>1 DEF IInv, NotCrossed, Side
  <2> QED BY <1>1, <2>3, <2>4 DEF Side
<1>12. UniqueIds' /\ NoSelfTrade' /\ TradesWalkTheBook' /\ TakerOk' /\ TradesAhead'
  BY Zenon, <1>5, <1>9 DEF UniqueIds, DistinctIds, NoSelfTrade, TradesWalkTheBook, TakerOk,
                    TradesAhead, Matching
<1>13. \A id : Contains(queue', id) => Contains(queue, id) \/ id = taker.id
  BY <1>6 DEF Contains, HasId
<1> QED BY <1>5, <1>7, <1>11, <1>12, <1>13 DEF IInv

\* The end of add_order after matching.
LEMMA FinishKeeps ==
    IInv /\ Finish => IInv' /\ \A id : Contains(queue', id) => Contains(queue, id) \/ id = taker.id
<1> SUFFICES ASSUME IInv, Finish
             PROVE  IInv' /\ \A id : Contains(queue', id) => Contains(queue, id) \/ id = taker.id
  OBVIOUS
<1>1. UNCHANGED <<stp_policy, trades>> /\ \E r : Return(r)
  BY DEF Finish
<1>2. CASE UNCHANGED queue
  <2>1. queue' \in Books /\ Shrinks(queue, queue')
    BY <1>2, ShrinksSame DEF IInv, TypeOK, Books
  <2> QED BY <1>1, <1>2, <2>1, AnswerType, QuietKeepsIInv
<1>3. CASE ~UNCHANGED queue
  <2>1. Rest
    BY <1>3 DEF Finish, Rest
  <2> QED BY <1>1, <2>1, RestKeeps
<1> QED BY <1>2, <1>3

-----------------------------------------------------------------------------
(***************************************************************************)
(* The theorems.                                                           *)
(***************************************************************************)
\* Every step keeps the inductive invariant.
LEMMA NextIInv == IInv /\ [Next]_vars => IInv'
<1> SUFFICES ASSUME IInv, [Next]_vars PROVE IInv'
  OBVIOUS
<1>1. CASE UNCHANGED vars
  <2>1. /\ queue' = queue /\ stp_policy' = stp_policy /\ pc' = pc /\ taker' = taker
        /\ original' = original /\ trades' = trades
    BY <1>1 DEF vars
  <2>2. TypeOK'
    BY <2>1 DEF IInv, TypeOK
  <2>3. QueuesWellFormed'
    BY <2>1 DEF IInv, QueuesWellFormed
  <2>4. NoSelfTrade'
    BY <2>1 DEF IInv, NoSelfTrade
  <2>5. TradesWalkTheBook'
    BY <2>1 DEF IInv, TradesWalkTheBook
  <2>6. UniqueIds'
    BY <2>1 DEF IInv, UniqueIds, Contains
  <2>7. NotCrossed'
    BY <2>1 DEF IInv, NotCrossed, Levels
  <2>8. TakerOk'
    BY <2>1 DEF IInv, TakerOk, Matching
  <2>9. TradesAhead'
    BY <2>1 DEF IInv, TradesAhead, Matching, Levels
  <2> QED BY <2>2, <2>3, <2>4, <2>5, <2>6, <2>7, <2>8, <2>9 DEF IInv
<1>2. CASE Running
  BY <1>2, FillKeeps, PreventSelfTradeKeeps, FinishKeeps, ReturnedKeeps DEF Running
<1>3. CASE Next /\ ~Running
  BY <1>3, AddOrderKeeps, CancelOrderKeeps, AmendRejectKeeps, AmendInPlaceKeeps,
     AmendReplaceKeeps, ResetKeeps DEF Next
<1> QED BY <1>1, <1>2, <1>3

\* The inductive invariant holds in every reachable state of the book.
THEOREM Invariance == Spec => []IInv
  BY InitIInv, NextIInv, PTL DEF Spec

\* Every reachable state is well typed: quantities never go negative, and
\* only bookable orders with something left to fill rest.
THEOREM TypeCorrect == Spec => []TypeOK
<1>1. IInv => TypeOK
  BY DEF IInv
<1> QED BY <1>1, Invariance, PTL

\* The book is never crossed, in the middle of a matching loop included.
THEOREM NeverCrossed == Spec => []NotCrossed
<1>1. IInv => NotCrossed
  BY DEF IInv
<1> QED BY <1>1, Invariance, PTL

\* Only live GTC limit orders rest, each under its own side and price.
THEOREM RestingOrders == Spec => []QueuesWellFormed
<1>1. IInv => QueuesWellFormed
  BY DEF IInv
<1> QED BY <1>1, Invariance, PTL

\* No id is in the book twice, or both resting and being matched.
THEOREM IdsAreUnique == Spec => []UniqueIds
<1>1. IInv => UniqueIds
  BY DEF IInv
<1> QED BY <1>1, Invariance, PTL

\* With a self-trade policy in force no trade pairs two orders of one
\* participant.
THEOREM SelfTradeFree == Spec => []NoSelfTrade
<1>1. IInv => NoSelfTrade
  BY DEF IInv
<1> QED BY <1>1, Invariance, PTL

\* The trades of one call walk away from the best price and stay within the
\* taker's limit.
THEOREM PricePriority == Spec => []TradesWalkTheBook
<1>1. IInv => TradesWalkTheBook
  BY DEF IInv
<1> QED BY <1>1, Invariance, PTL

-----------------------------------------------------------------------------
(***************************************************************************)
(* Quantities: of a level, of the trades of a call.                        *)
(***************************************************************************)
Remainings(f) == [i \in DOMAIN f |-> f[i].remaining]

\* A level's quantity is a sum over finitely many places; none of an empty one.
LEMMA LevelFacts ==
    ASSUME NEW f \in Seq(RestingOrder)
    PROVE  /\ IsFiniteSet(DOMAIN f) /\ IntOn(Remainings(f), DOMAIN f)
           /\ LevelQuantity(f) = SumFunctionOnSet(Remainings(f), DOMAIN f)
           /\ LevelQuantity(f) \in Int
           /\ f = <<>> => LevelQuantity(f) = 0
<1>1. DOMAIN f = 1..Len(f) /\ Len(f) \in Nat /\ \A i \in DOMAIN f : f[i] \in RestingOrder
  OBVIOUS
<1>2. IsFiniteSet(DOMAIN f)
  BY <1>1, FS_Interval
<1>3. IntOn(Remainings(f), DOMAIN f)
  BY <1>1 DEF IntOn, Remainings, RestingOrder, Order
<1>4. LevelQuantity(f) = SumFunctionOnSet(Remainings(f), DOMAIN f)
  BY DEF LevelQuantity, SumFunction, Remainings
<1>5. f = <<>> => DOMAIN f = {}
  OBVIOUS
<1> QED BY Zenon, <1>2, <1>3, <1>4, <1>5, SumUnfold

\* Unlinking the oldest order takes its quantity off the level.
LEMMA LevelTail ==
    ASSUME NEW f \in Seq(RestingOrder), f # <<>>
    PROVE  LevelQuantity(f) = f[1].remaining + LevelQuantity(Tail(f))
<1> DEFINE g == Tail(f)
           a == Remainings(f)
           b == Remainings(g)
           S == DOMAIN g
           T == DOMAIN f \ {1}
           h == [j \in S |-> j + 1]
<1>1. /\ Len(f) \in Nat \ {0} /\ DOMAIN f = 1..Len(f) /\ 1 \in DOMAIN f
      /\ g \in Seq(RestingOrder) /\ S = 1..Len(f) - 1
      /\ \A j \in S : g[j] = f[j + 1]
  OBVIOUS
<1>2. /\ \A j \in S : j + 1 \in T /\ j \in Int
      /\ \A j \in T : j - 1 \in S /\ (j - 1) + 1 = j
  BY <1>1
<1>3. T = {h[j] : j \in S}
  <2>1. ASSUME NEW k \in T PROVE k \in {h[j] : j \in S}
    <3>1. k - 1 \in S /\ h[k - 1] = k
      BY <1>2
    <3> QED BY <3>1
  <2> QED BY <1>2, <2>1
<1>4. \A i, j \in S : h[i] = h[j] => i = j
  BY <1>2
<1>5. \A j \in S : b[j] = a[h[j]]
  BY <1>1, <1>2 DEF Remainings
<1>6. /\ IsFiniteSet(DOMAIN f) /\ IntOn(a, DOMAIN f) /\ IsFiniteSet(S)
      /\ LevelQuantity(f) = SumFunctionOnSet(a, DOMAIN f)
      /\ LevelQuantity(g) = SumFunctionOnSet(b, S)
  BY Zenon, <1>1, LevelFacts
<1>7. IsFiniteSet(S) /\ IsFiniteSet(T) /\ IntOn(a, T)
  BY Zenon, <1>6, FS_RemoveElement DEF IntOn
<1>8. a[1] = f[1].remaining
  BY <1>1 DEF Remainings
<1> HIDE DEF a, b, h, S, T, g
<1>9. SumFunctionOnSet(b, S) = SumFunctionOnSet(a, T)
  BY <1>3, <1>4, <1>5, <1>7, SumReindex
<1>10. SumFunctionOnSet(a, DOMAIN f) = a[1] + SumFunctionOnSet(a, T)
  <2> DEFINE D == DOMAIN f
  <2>1. IsFiniteSet(D) /\ IntOn(a, D) /\ 1 \in D /\ T = D \ {1}
    BY <1>1, <1>6 DEF T
  <2> HIDE DEF D
  <2>2. SumFunctionOnSet(a, D) = a[1] + SumFunctionOnSet(a, T)
    BY <2>1, SumRemove
  <2> QED BY <2>2 DEF D
<1> QED BY <1>6, <1>8, <1>9, <1>10 DEF g

\* level_reduce_quantity takes off the level what it takes off the order.
LEMMA LevelReduce ==
    ASSUME NEW f \in Seq(RestingOrder), f # <<>>, NEW n \in Nat \ {0}
    PROVE  LevelQuantity([f EXCEPT ![1] = [f[1] EXCEPT !.remaining = n]]) =
             LevelQuantity(f) + (n - f[1].remaining)
<1> DEFINE g == [f EXCEPT ![1] = [f[1] EXCEPT !.remaining = n]]
           a == Remainings(f)
           b == Remainings(g)
<1>1. 1 \in DOMAIN f /\ DOMAIN g = DOMAIN f /\ f[1] \in RestingOrder
  OBVIOUS
<1>2. g \in Seq(RestingOrder)
  BY Zenon, <1>1, ReduceRemainder
<1>3. g[1].remaining = n
  BY <1>1 DEF RestingOrder, Order
<1>4. b[1] = n /\ a[1] = f[1].remaining /\ \A j \in DOMAIN f \ {1} : b[j] = a[j]
  BY <1>1, <1>3 DEF Remainings
<1>5. /\ IsFiniteSet(DOMAIN f) /\ IntOn(a, DOMAIN f)
      /\ LevelQuantity(f) = SumFunctionOnSet(a, DOMAIN f)
      /\ LevelQuantity(g) = SumFunctionOnSet(b, DOMAIN f)
  BY <1>1, <1>2, LevelFacts
<1> HIDE DEF a, b, g
<1>6. SumFunctionOnSet(b, DOMAIN f) = SumFunctionOnSet(a, DOMAIN f) + (b[1] - a[1])
  BY <1>1, <1>4, <1>5, SumChange
<1> QED BY <1>4, <1>5, <1>6 DEF g

Quantities(tr) == [i \in DOMAIN tr |-> tr[i].quantity]

\* Nothing has been traded before the first trade; each trade adds its own
\* quantity.
LEMMA TradedFacts ==
    ASSUME NEW tr \in Seq(Trade)
    PROVE  /\ SumFunction(Quantities(tr)) \in Int
           /\ tr = <<>> => SumFunction(Quantities(tr)) = 0
           /\ \A e \in Trade : SumFunction(Quantities(Append(tr, e))) =
                                 SumFunction(Quantities(tr)) + e.quantity
<1>1. ASSUME NEW x \in Seq(Trade)
      PROVE  /\ IsFiniteSet(DOMAIN x) /\ IntOn(Quantities(x), DOMAIN x)
             /\ SumFunction(Quantities(x)) = SumFunctionOnSet(Quantities(x), DOMAIN x)
             /\ x = <<>> => DOMAIN x = {}
  <2>1. DOMAIN x = 1..Len(x) /\ Len(x) \in Nat /\ \A i \in DOMAIN x : x[i] \in Trade
    OBVIOUS
  <2>2. IntOn(Quantities(x), DOMAIN x)
    BY <2>1 DEF IntOn, Quantities, Trade
  <2>3. SumFunction(Quantities(x)) = SumFunctionOnSet(Quantities(x), DOMAIN x)
    BY DEF SumFunction, Quantities
  <2> QED BY <2>1, <2>2, <2>3, FS_Interval
<1>2. ASSUME NEW e \in Trade
      PROVE  SumFunction(Quantities(Append(tr, e))) = SumFunction(Quantities(tr)) + e.quantity
  <2> DEFINE u == Append(tr, e)
             n == Len(tr) + 1
             a == Quantities(tr)
             b == Quantities(u)
  <2>1. /\ u \in Seq(Trade) /\ DOMAIN tr = 1..Len(tr) /\ DOMAIN u = 1..n /\ Len(tr) \in Nat
        /\ u[n] = e /\ \A i \in 1..Len(tr) : u[i] = tr[i]
    BY AppendFacts
  <2>2. n \in DOMAIN u /\ DOMAIN u \ {n} = DOMAIN tr
    BY <2>1
  <2>3. b[n] = e.quantity /\ \A i \in DOMAIN tr : b[i] = a[i]
    BY <2>1, <2>2 DEF Quantities
  <2>4. e.quantity \in Int
    BY DEF Trade
  <2> HIDE DEF u, n, a, b
  <2>5. /\ IsFiniteSet(DOMAIN u) /\ IntOn(b, DOMAIN u)
        /\ SumFunction(b) = SumFunctionOnSet(b, DOMAIN u)
        /\ IsFiniteSet(DOMAIN tr) /\ IntOn(a, DOMAIN tr)
        /\ SumFunction(a) = SumFunctionOnSet(a, DOMAIN tr)
    BY <1>1, <2>1 DEF a, b
  <2>6. SumFunctionOnSet(b, DOMAIN u) = b[n] + SumFunctionOnSet(b, DOMAIN tr)
    BY <2>2, <2>5, SumRemove
  <2>7. SumFunctionOnSet(b, DOMAIN tr) = SumFunctionOnSet(a, DOMAIN tr)
    BY <2>3, <2>5, SumSame
  <2>8. SumFunctionOnSet(a, DOMAIN tr) \in Int
    BY Zenon, <2>5, SumUnfold
  <2> QED BY <2>3, <2>4, <2>5, <2>6, <2>7, <2>8 DEF a, b, u
<1> QED BY Zenon, <1>1, <1>2, SumUnfold

\* One trade of qty at price p: taker and head of the queue lose as much.
TradeAt(p, qty) ==
    LET s == Opposite(taker.side)
        f == queue[s][p]
        left == f[1].remaining - qty
    IN  /\ Reachable(p)
        /\ left >= 0
        /\ taker' = [taker EXCEPT !.remaining = @ - qty]
        /\ queue' = [queue EXCEPT ![s][p] =
                        IF left = 0 THEN Tail(f)
                        ELSE [f EXCEPT ![1] = [f[1] EXCEPT !.remaining = left]]]
        /\ \E e \in Trade : trades' = Append(trades, e) /\ e.quantity = qty

\* A Fill trades with the first order of some level p.
LEMMA FillTrades ==
    ASSUME IInv, Fill
    PROVE  \E p \in BookPrices, qty \in Nat \ {0} : TradeAt(p, qty)
<1> DEFINE s == Opposite(taker.side)
           maker(p) == Head(queue[s][p])
           qty(p) == MinOf(taker.remaining, maker(p).remaining)
           rest(p) == [maker(p) EXCEPT !.remaining = @ - qty(p)]
           trade(p) == [maker |-> maker(p).id, price |-> p, quantity |-> qty(p),
                        participant |-> maker(p).participant]
<1>1. PICK p \in BookPrices :
        /\ Reachable(p)
        /\ taker' = [taker EXCEPT !.remaining = @ - qty(p)]
        /\ queue' = [queue EXCEPT ![s][p] =
                        IF rest(p).remaining = 0 THEN Tail(@)
                        ELSE [@ EXCEPT ![1] = rest(p)]]
        /\ trades' = Append(trades, trade(p))
  BY Zenon DEF Fill
<1> DEFINE f == queue[s][p]
           left == f[1].remaining - qty(p)
<1>2. taker \in Order(OrderIds, Int, Nat, Nat) /\ s \in Side
  BY Zenon DEF Fill, IInv, TakerOk, Matching, Opposite, Side
<1>3. f \in Seq(RestingOrder) /\ f # <<>> /\ taker.remaining > 0
  BY <1>1, <1>2 DEF IInv, TypeOK, Reachable, Levels
<1>4. maker(p) = f[1] /\ f[1] \in RestingOrder
  BY <1>3
<1>5. /\ f[1].remaining \in Nat \ {0} /\ f[1].id \in OrderIds /\ f[1].participant \in Nat
      /\ taker.remaining \in Nat \ {0}
  <2>1. \A r \in RestingOrder :
          r.remaining \in Nat \ {0} /\ r.id \in OrderIds /\ r.participant \in Nat
    BY DEF RestingOrder, Order
  <2>2. taker.remaining \in Nat
    BY <1>2 DEF Order
  <2> HIDE DEF f
  <2> QED BY <1>3, <1>4, <2>1, <2>2
<1>6. qty(p) \in Nat \ {0} /\ left >= 0
  <2>1. \A a, b \in Nat \ {0} : MinOf(a, b) \in Nat \ {0} /\ b - MinOf(a, b) >= 0
    BY DEF MinOf
  <2> HIDE DEF f, maker
  <2> QED BY <1>4, <1>5, <2>1
<1>7. rest(p) = [f[1] EXCEPT !.remaining = left] /\ rest(p).remaining = left
  BY <1>4 DEF RestingOrder, Order
<1>8. trade(p) \in Trade /\ trade(p).quantity = qty(p)
  BY Zenon, <1>4, <1>5, <1>6 DEF Trade
<1> HIDE DEF maker, qty, rest, trade
<1>9. queue' = [queue EXCEPT ![s][p] =
                   IF left = 0 THEN Tail(f)
                   ELSE [f EXCEPT ![1] = [f[1] EXCEPT !.remaining = left]]]
  BY Zenon, <1>1, <1>7
<1>10. TradeAt(p, qty(p))
  BY Zenon, <1>1, <1>6, <1>8, <1>9 DEF TradeAt
<1> QED BY <1>6, <1>10

-----------------------------------------------------------------------------
(***************************************************************************)
(* Reports.                                                                *)
(***************************************************************************)
\* While an order is matched, what it has lost is what has been printed.
ReportInv ==
    /\ IInv
    /\ pc = "idle" => trades = <<>>
    /\ Matching => Traded = original - taker.remaining
    /\ ReportMatchesBook

\* Traded adds up the quantities of the trades.
LEMMA TradedSum == Traded = SumFunction(Quantities(trades))
  BY DEF Traded, Quantities

\* Without trades nothing is traded.
LEMMA NothingTraded == trades = <<>> => Traded = 0
<1>1. <<>> \in Seq(Trade)
  OBVIOUS
<1> QED BY Zenon, <1>1, TradedFacts, TradedSum

\* add_order's answers before the matching loop, and its entry into it.
LEMMA EnterReports ==
    ASSUME IInv', NEW O, Enter(queue', O)
    PROVE  ReportInv'
<1>1. trades' = <<>> /\ Traded' = 0
  <2>1. trades' = <<>>
    BY DEF Enter
  <2>2. (trades = <<>> => Traded = 0)'
    BY NothingTraded, PTL
  <2> QED BY <2>1, <2>2
<1>2. CASE Refuse(queue', O)
  <2>1. PICK id \in OrderIds, reason \in RejectReason : Return(Rejected(id, reason))
    BY <1>2 DEF Refuse
  <2>2. pc' = "return" /\ report'.filled = 0 /\ report'.status = "Rejected"
    BY <2>1 DEF Return, Answer, Rejected, ExecutionReport
  <2> QED BY <1>1, <2>2 DEF ReportInv, ReportMatchesBook, Matching
<1>3. CASE Kill(queue', O)
  <2>1. PICK id \in OrderIds :
          /\ Return(ExecutionReport(id, "Cancelled", 0, 0, "None"))
          /\ \E o \in O : o.id = id /\ Validate(queue', o) = "None"
    BY <1>3 DEF Kill
  <2>2. /\ pc' = "return" /\ report'.id = id /\ report'.filled = 0
        /\ report'.remaining = 0 /\ report'.status = "Cancelled"
    BY <2>1 DEF Return, Answer, ExecutionReport
  <2>3. ~Contains(queue', id)
    BY <2>1, IdAssumption DEF Validate
  <2>4. Contains(queue', id) = Contains(queue, id)'
    BY DEF Contains
  <2> QED BY <1>1, <2>2, <2>3, <2>4 DEF ReportInv, ReportMatchesBook, Matching, Contains
<1>4. CASE Accept(queue', O)
  <2>1. pc' = "match" /\ original' = taker'.remaining
    BY <1>4 DEF Accept
  <2>2. original' \in Nat
    BY DEF IInv, TypeOK
  <2> QED BY <1>1, <2>1, <2>2 DEF ReportInv, ReportMatchesBook, Matching
<1> QED BY <1>2, <1>3, <1>4 DEF Enter

\* A trade takes from the order what it adds to the sum of the trades.
LEMMA FillReports == ReportInv /\ Fill => ReportInv'
<1> SUFFICES ASSUME ReportInv, Fill PROVE ReportInv'
  OBVIOUS
<1>1. IInv' /\ pc = "match" /\ pc' = pc /\ original' = original
  BY Zenon, FillKeeps DEF ReportInv, Fill
<1>2. PICK p \in BookPrices, qty \in Nat \ {0} : TradeAt(p, qty)
  BY FillTrades DEF ReportInv
<1>3. PICK e \in Trade : trades' = Append(trades, e) /\ e.quantity = qty
  BY <1>2 DEF TradeAt
<1>4. taker'.remaining = taker.remaining - qty /\ taker.remaining \in Nat
  BY <1>2 DEF TradeAt, ReportInv, IInv, TypeOK, Order
<1>5. trades \in Seq(Trade) /\ original \in Nat
  BY DEF ReportInv, IInv, TypeOK
<1>6. Traded' = SumFunction(Quantities(trades'))
  BY DEF Traded, Quantities
<1>7. Traded' = Traded + qty /\ Traded \in Int
  BY <1>3, <1>5, <1>6, TradedFacts, TradedSum
<1>8. Traded = original - taker.remaining
  BY <1>1 DEF ReportInv, Matching
<1> QED BY <1>1, <1>4, <1>5, <1>7, <1>8 DEF ReportInv, ReportMatchesBook, Matching

\* The end of add_order reports what the order has lost and what is left.
LEMMA FinishReports == ReportInv /\ Finish => ReportInv'
<1> SUFFICES ASSUME ReportInv, Finish PROVE ReportInv'
  OBVIOUS
<1> DEFINE filled == original - taker.remaining
<1>1. IInv' /\ Matching /\ pc' = "return" /\ trades' = trades
  BY FinishKeeps DEF ReportInv, Finish, Return, Matching
<1>2. Traded' = filled
  BY <1>1 DEF Traded, ReportInv
<1>3. ~Contains(queue, taker.id) /\ taker \in Order(OrderIds, Int, Nat, Nat)
  BY Zenon, <1>1 DEF ReportInv, IInv, UniqueIds, TakerOk, Matching
<1>4. CASE taker.remaining = 0 \/ ~(pc # "killed" /\ rests_in_book(taker))
  <2>1. /\ report'.id = taker.id /\ report'.filled = filled /\ report'.remaining = 0
        /\ report'.status \in {"Filled", "Cancelled"} /\ queue' = queue
    BY <1>4 DEF Finish, Return, Answer, ExecutionReport
  <2> QED BY Zenon, <1>1, <1>2, <1>3, <2>1 DEF ReportInv, ReportMatchesBook, Matching, Contains
<1>5. CASE taker.remaining # 0 /\ pc # "killed" /\ rests_in_book(taker)
  <2> DEFINE f == queue[taker.side][taker.price]
             k == Len(f) + 1
  <2>1. /\ report'.id = taker.id /\ report'.filled = filled
        /\ report'.remaining = taker.remaining
        /\ report'.status \in {"New", "PartiallyFilled"}
        /\ queue' = [queue EXCEPT ![taker.side][taker.price] = Append(@, taker)]
    BY <1>5 DEF Finish, Return, Answer, ExecutionReport
  <2>2. taker.side \in Side /\ taker.price \in BookPrices /\ taker \in RestingOrder
    BY <1>1, <1>3, <1>5 DEF ReportInv, IInv, TakerOk, rests_in_book, RestingOrder, Order
  <2>3. queue \in Books /\ f \in Seq(RestingOrder)
    BY <2>2 DEF ReportInv, IInv, TypeOK, Books
  <2>4. queue'[taker.side][taker.price] = Append(f, taker)
    BY Zenon, <2>1, <2>2, <2>3 DEF Books
  <2>5. k \in DOMAIN Append(f, taker) /\ Append(f, taker)[k] = taker
    <3> HIDE DEF f
    <3> QED BY <2>2, <2>3, AppendFacts
  <2>6. \E s \in Side, p \in BookPrices : \E i \in DOMAIN queue'[s][p] :
          queue'[s][p][i].id = report'.id /\ queue'[s][p][i].remaining = report'.remaining
    <3> HIDE DEF f, k
    <3> QED BY <2>1, <2>2, <2>4, <2>5
  <2> QED BY Zenon, <1>1, <1>2, <2>1, <2>6 DEF ReportInv, ReportMatchesBook, Matching
<1> QED BY <1>4, <1>5

\* An amend in place reports the quantity that rests.
LEMMA AmendReports == ReportInv /\ AmendInPlace => ReportInv'
<1> SUFFICES ASSUME ReportInv, AmendInPlace PROVE ReportInv'
  OBVIOUS
<1>1. IInv' /\ trades' = trades /\ pc = "idle"
  BY Zenon, AmendInPlaceKeeps DEF ReportInv, AmendInPlace
<1>2. PICK id \in OrderIds, q \in AmendQuantities :
        /\ Return(ExecutionReport(id, "New", 0, q, "None"))
        /\ q > 0
        /\ \E s \in Side, p \in BookPrices : \E i \in DOMAIN queue[s][p] :
            /\ queue[s][p][i].id = id
            /\ q <= queue[s][p][i].remaining
            /\ queue' = [queue EXCEPT ![s][p][i].remaining = q]
  BY Zenon DEF AmendInPlace
<1>3. PICK s \in Side, p \in BookPrices : \E i \in DOMAIN queue[s][p] :
        queue[s][p][i].id = id /\ queue' = [queue EXCEPT ![s][p][i].remaining = q]
  BY Zenon, <1>2
<1>4. PICK i \in DOMAIN queue[s][p] :
        queue[s][p][i].id = id /\ queue' = [queue EXCEPT ![s][p][i].remaining = q]
  BY Zenon, <1>3
<1>5. /\ pc' = "return" /\ report'.id = id /\ report'.filled = 0 /\ report'.remaining = q
      /\ report'.status = "New"
  BY <1>2 DEF Return, Answer, ExecutionReport
<1>6. Traded' = 0
  BY <1>1, NothingTraded DEF ReportInv, Traded
<1> DEFINE f == queue[s][p]
           g == [f EXCEPT ![i] = [f[i] EXCEPT !.remaining = q]]
<1>7. queue \in Books /\ f \in Seq(RestingOrder) /\ f[i] \in RestingOrder
  BY DEF ReportInv, IInv, TypeOK, Books
<1>8. queue'[s][p] = g
  BY Zenon, <1>4, <1>7 DEF Books
<1>9. i \in DOMAIN g /\ g[i].id = id /\ g[i].remaining = q
  BY <1>4, <1>7 DEF RestingOrder, Order
<1> HIDE DEF g
<1> QED BY Zenon, <1>1, <1>5, <1>6, <1>8, <1>9 DEF ReportInv, ReportMatchesBook, Matching

\* Every step keeps the invariant.
LEMMA NextReports == ReportInv /\ [Next]_vars => ReportInv'
<1> SUFFICES ASSUME ReportInv, [Next]_vars PROVE ReportInv'
  OBVIOUS
<1>1. IInv'
  BY NextIInv DEF ReportInv
<1>2. CASE AddOrder
  BY <1>1, <1>2, EnterReports DEF AddOrder
<1>3. CASE AmendReplace
  BY Zenon, <1>1, <1>3, EnterReports DEF AmendReplace
<1>4. CASE AmendInPlace
  BY <1>4, AmendReports
<1>5. CASE Fill
  BY <1>5, FillReports
<1>6. CASE Finish
  BY <1>6, FinishReports
<1>7. CASE CancelOrder
  <2>1. PICK id, c : Return([id |-> id, cancelled |-> c])
    BY Zenon, <1>7 DEF CancelOrder
  <2>2. pc' = "return" /\ "status" \notin DOMAIN report'
    BY <2>1 DEF Return, Answer
  <2> QED BY <1>1, <2>2 DEF ReportInv, ReportMatchesBook, Matching
<1>8. CASE AmendReject
  <2>1. PICK id, reason : Return(Rejected(id, reason))
    BY <1>8 DEF AmendReject
  <2>2. pc' = "return" /\ report'.filled = 0 /\ report'.status = "Rejected"
    BY <2>1 DEF Return, Answer, Rejected, ExecutionReport
  <2>3. Traded' = 0
    BY <1>8, NothingTraded DEF AmendReject, ReportInv, Traded
  <2> QED BY <1>1, <2>2, <2>3 DEF ReportInv, ReportMatchesBook, Matching
<1>9. CASE Reset \/ Returned
  <2>1. pc' = "idle" /\ trades' = <<>>
    BY <1>9 DEF Reset, Returned, ReportInv
  <2> QED BY <1>1, <2>1 DEF ReportInv, ReportMatchesBook, Matching
<1>10. CASE PreventSelfTrade
  <2>1. /\ pc = "match" /\ pc' \in {"match", "killed"}
        /\ UNCHANGED <<taker, original, trades>>
    BY <1>10 DEF PreventSelfTrade
  <2>2. Traded' = Traded
    BY <2>1 DEF Traded
  <2> QED BY <1>1, <2>1, <2>2 DEF ReportInv, ReportMatchesBook, Matching
<1>11. CASE UNCHANGED vars
  BY Zenon, <1>1, <1>11 DEF vars, ReportInv, ReportMatchesBook, Matching, Traded, Contains
<1> QED
  BY <1>2, <1>3, <1>4, <1>5, <1>6, <1>7, <1>8, <1>9, <1>10, <1>11 DEF Next, Running

\* For any orders and any sequence of calls: what a report says was filled is
\* what was printed, what it says is open rests under its id, and an id that
\* it says is done is gone (add_order, amend_order).
THEOREM ReportsAreTrue == Spec => []ReportMatchesBook
<1>1. Init => ReportInv
  BY InitIInv DEF Init, ReportInv, ReportMatchesBook, Matching
<1>2. ReportInv => ReportMatchesBook
  BY DEF ReportInv
<1> QED BY <1>1, <1>2, NextReports, PTL DEF Spec

-----------------------------------------------------------------------------
(***************************************************************************)
(* Fill or kill.                                                           *)
(***************************************************************************)
\* No order of the book can belong to the participant of the order matched,
\* as far as the self-trade policy is concerned.
NoStp == stp_policy = "None" \/ taker.participant = kNoParticipant

FokInv ==
    /\ IInv
    /\ FokStaysCovered
    /\ pc = "killed" => ~NoStp

\* The levels within t's limit, and what each price holds against t.
Reach(q, t) == {p \in Levels(q, Opposite(t.side)) : PriceOk(t, p)}
Offered(q, t) == [p \in BookPrices |-> LevelQuantity(q[Opposite(t.side)][p])]
Cover(q, t) == SumFunctionOnSet(Offered(q, t), Reach(q, t))

\* has_liquidity_for compares what the levels within the limit hold with what the
\* order needs.
LEMMA CoverFacts ==
    ASSUME NEW q \in Books, NEW t, t.side \in Side
    PROVE  /\ IsFiniteSet(Reach(q, t)) /\ IntOn(Offered(q, t), Reach(q, t))
           /\ Cover(q, t) \in Int
           /\ Reach(q, t) = {} => Cover(q, t) = 0
           /\ has_liquidity_for(q, t) <=> Cover(q, t) >= t.remaining
<1> DEFINE s == Opposite(t.side)
           R == Reach(q, t)
           F == Offered(q, t)
           G == [p \in R |-> LevelQuantity(q[s][p])]
<1>1. PICK max \in Nat : \A p \in BookPrices : p \in Nat /\ p <= max
  BY BookPricesAssumption DEF kMarketOrderPrice
<1>2. R \subseteq BookPrices /\ s \in Side
  BY DEF Reach, Levels, Opposite, Side
<1>3. IsFiniteSet(R)
  <2>1. IsFiniteSet(0..max)
    BY FS_Interval
  <2>2. R \subseteq 0..max
    BY <1>1, <1>2
  <2> QED BY <2>1, <2>2, FS_Subset
<1>4. \A p \in R : F[p] = LevelQuantity(q[s][p]) /\ F[p] \in Int
  <2>1. \A p \in R : q[s][p] \in Seq(RestingOrder)
    BY <1>2 DEF Books
  <2> QED BY <1>2, <2>1, LevelFacts DEF Offered
<1>5. IntOn(F, R)
  BY <1>4 DEF IntOn
<1>6. \A p \in R : G[p] = F[p]
  BY <1>4
<1>7. SumFunction(G) = SumFunctionOnSet(G, R)
  BY DEF SumFunction
<1>8. has_liquidity_for(q, t) <=> SumFunction(G) >= t.remaining
  BY DEF has_liquidity_for, Reach
<1> HIDE DEF F, G, R
<1>9. SumFunctionOnSet(G, R) = SumFunctionOnSet(F, R)
  BY <1>3, <1>5, <1>6, SumSame
<1>10. SumFunctionOnSet(F, R) \in Int /\ (R = {} => SumFunctionOnSet(F, R) = 0)
  BY Zenon, <1>3, <1>5, SumUnfold
<1> QED BY <1>3, <1>5, <1>7, <1>8, <1>9, <1>10 DEF Cover, F, R

\* An order that the book covers can go on: the best level is in its reach.
LEMMA CoveredReaches ==
    ASSUME IInv, pc = "match", taker.remaining > 0, has_liquidity_for(queue, taker)
    PROVE  \E p \in BookPrices : Reachable(p)
<1> DEFINE o == Opposite(taker.side)
           P == Levels(queue, o)
<1>1. /\ taker \in Order(OrderIds, Int, Nat, Nat) /\ queue \in Books
      /\ taker.type = "Limit" => taker.price \in BookPrices
  BY DEF IInv, TypeOK, TakerOk, Matching, Books
<1>2. taker.side \in Side /\ taker.remaining \in Nat /\ o \in Side
  BY <1>1 DEF Order, Opposite, Side
<1>3. Reach(queue, taker) # {}
  <2>1. Cover(queue, taker) >= taker.remaining /\ Cover(queue, taker) \in Int
    BY <1>1, <1>2, CoverFacts
  <2>2. Cover(queue, taker) # 0
    BY <1>2, <2>1
  <2> QED BY <1>1, <1>2, <2>2, CoverFacts
<1>4. PICK r \in P : PriceOk(taker, r)
  BY <1>3 DEF Reach
<1>5. P \subseteq BookPrices /\ P # {}
  BY <1>4 DEF Levels
<1>6. PICK b \in P : \A x \in P : Better(o, b, x)
  <2> HIDE DEF P, o
  <2> QED BY <1>2, <1>5, BestExists
<1>7. \A x \in BookPrices : x \in Int
  BY BookPricesAssumption
<1>8. b \in Int /\ r \in Int /\ taker.price \in Int /\ Better(o, b, r)
  BY <1>1, <1>4, <1>5, <1>6, <1>7 DEF Order
<1>9. PriceOk(taker, b)
  BY <1>2, <1>4, <1>8 DEF PriceOk, Better, Opposite, Side
<1> QED BY <1>5, <1>6, <1>9 DEF Reachable

\* A trade takes as much from the cover as from what is wanted.
LEMMA TradeCover ==
    ASSUME IInv, pc = "match", NEW p \in BookPrices, NEW qty \in Nat \ {0}, TradeAt(p, qty)
    PROVE  Cover(queue', taker') = Cover(queue, taker) - qty
<1> DEFINE s == Opposite(taker.side)
           f == queue[s][p]
           left == f[1].remaining - qty
           g == IF left = 0 THEN Tail(f)
                ELSE [f EXCEPT ![1] = [f[1] EXCEPT !.remaining = left]]
           R == Reach(queue, taker)
           R1 == Reach(queue', taker')
           F == Offered(queue, taker)
           F1 == Offered(queue', taker')
<1>1. /\ taker \in Order(OrderIds, Int, Nat, Nat) /\ queue \in Books
  BY DEF IInv, TypeOK, TakerOk, Matching, Books
<1>2. s \in Side /\ taker.side \in Side
  BY <1>1 DEF Order, Opposite, Side
<1>3. f \in Seq(RestingOrder) /\ f # <<>> /\ p \in R
  BY <1>1, <1>2 DEF Books, TradeAt, Reachable, Levels, Reach
<1>4. f[1] \in RestingOrder /\ f[1].remaining \in Nat \ {0}
  <2>1. f[1] \in RestingOrder
    BY <1>3
  <2> HIDE DEF f
  <2> QED BY <2>1 DEF RestingOrder, Order
<1>5. left \in Nat /\ queue' = [queue EXCEPT ![s][p] = g]
  <2>1. queue' = [queue EXCEPT ![s][p] = g]
    BY Zenon DEF TradeAt
  <2>2. left >= 0
    BY Zenon DEF TradeAt
  <2> HIDE DEF f
  <2> QED BY <1>4, <2>1, <2>2
<1>6. g \in Seq(RestingOrder) /\ LevelQuantity(g) = LevelQuantity(f) - qty
      /\ LevelQuantity(f) \in Int
  <2>1. LevelQuantity(f) \in Int
    BY <1>3, LevelFacts
  <2>2. CASE left = 0
    <3>1. g = Tail(f) /\ Tail(f) \in Seq(RestingOrder) /\ f[1].remaining = qty
      BY <1>3, <1>4, <2>2
    <3>2. LevelQuantity(f) = f[1].remaining + LevelQuantity(Tail(f))
      BY <1>3, LevelTail
    <3>3. LevelQuantity(Tail(f)) \in Int
      BY Zenon, <3>1, LevelFacts
    <3> HIDE DEF f, g
    <3> QED BY <2>1, <3>1, <3>2, <3>3
  <2>3. CASE left # 0
    <3> DEFINE h == [f EXCEPT ![1] = [f[1] EXCEPT !.remaining = left]]
    <3>1. g = h /\ left \in Nat \ {0} /\ 1 \in DOMAIN f
      BY <1>3, <1>5, <2>3
    <3>2. h \in Seq(RestingOrder)
      BY Zenon, <1>3, <3>1, ReduceRemainder
    <3>3. LevelQuantity(h) = LevelQuantity(f) + (left - f[1].remaining)
      BY <1>3, <3>1, LevelReduce
    <3>4. left - f[1].remaining = -qty
      BY <1>4
    <3> HIDE DEF f, g, h, left
    <3> QED BY <2>1, <3>1, <3>2, <3>3, <3>4
  <2> QED BY Zenon, <2>2, <2>3
<1> HIDE DEF g
<1>7. /\ queue' \in Books /\ queue'[s][p] = g
      /\ \A x \in BookPrices \ {p} : queue'[s][x] = queue[s][x]
  BY Zenon, <1>1, <1>2, <1>5, <1>6 DEF Books
<1>8. /\ taker'.side = taker.side
      /\ \A x : PriceOk(taker', x) <=> PriceOk(taker, x)
  BY <1>1 DEF TradeAt, Order, PriceOk
<1>9. /\ F1[p] = F[p] - qty /\ F[p] \in Int /\ F[p] = LevelQuantity(f)
      /\ \A x \in BookPrices \ {p} : F1[x] = F[x]
  BY Zenon, <1>6, <1>7, <1>8 DEF Offered
<1>10. R1 \subseteq R /\ R \ {p} \subseteq R1 /\ (g # <<>> => p \in R1)
       /\ (g = <<>> => p \notin R1) /\ R \subseteq BookPrices
  BY Zenon, <1>3, <1>7, <1>8 DEF Reach, Levels
<1>11. IsFiniteSet(R) /\ IntOn(F, R) /\ Cover(queue, taker) = SumFunctionOnSet(F, R)
  BY Zenon, <1>1, <1>2, CoverFacts DEF Cover
<1>12. Cover(queue', taker') = SumFunctionOnSet(F1, R1)
  BY DEF Cover
<1>13. LevelQuantity(g) = F1[p] /\ (g = <<>> => LevelQuantity(g) = 0)
  BY Zenon, <1>6, <1>9, LevelFacts
<1> HIDE DEF F, F1, R, R1, f
<1>14. CASE g # <<>>
  <2>1. R1 = R
    BY <1>10, <1>14
  <2>2. SumFunctionOnSet(F1, R) = SumFunctionOnSet(F, R) + (F1[p] - F[p])
    BY <1>3, <1>9, <1>10, <1>11, SumChange
  <2>3. SumFunctionOnSet(F, R) \in Int
    BY Zenon, <1>11, SumUnfold
  <2> QED BY <1>9, <1>11, <1>12, <2>1, <2>2, <2>3
<1>15. CASE g = <<>>
  <2> DEFINE T == R \ {p}
  <2>1. R1 = T
    BY <1>10, <1>15
  <2>2. SumFunctionOnSet(F, R) = F[p] + SumFunctionOnSet(F, T)
    BY <1>3, <1>11, SumRemove
  <2>3. IsFiniteSet(T) /\ IntOn(F, T)
    BY <1>11, FS_RemoveElement DEF IntOn
  <2>4. \A x \in T : F1[x] = F[x]
    BY <1>9, <1>10
  <2>5. SumFunctionOnSet(F1, T) = SumFunctionOnSet(F, T)
    BY <2>3, <2>4, SumSame
  <2>6. SumFunctionOnSet(F, T) \in Int
    BY Zenon, <2>3, SumUnfold
  <2> QED BY <1>9, <1>11, <1>12, <1>13, <1>15, <2>1, <2>2, <2>5, <2>6
<1> QED BY <1>14, <1>15

\* An FOK order enters the loop only if the dry run passed.
LEMMA EnterCovered ==
    ASSUME IInv', NEW O, Enter(queue', O)
    PROVE  FokInv'
<1>1. CASE Refuse(queue', O) \/ Kill(queue', O)
  <2>1. pc' = "return"
    BY <1>1 DEF Refuse, Kill, Return
  <2> QED BY <2>1 DEF FokInv, FokStaysCovered
<1>2. CASE Accept(queue', O)
  <2>1. pc' = "match" /\ (taker'.tif = "FOK" => has_liquidity_for(queue', taker'))
    BY <1>2 DEF Accept
  <2>2. has_liquidity_for(queue', taker') = has_liquidity_for(queue, taker)'
    BY DEF has_liquidity_for, LevelQuantity, Levels
  <2> QED BY <2>1, <2>2 DEF FokInv, FokStaysCovered
<1> QED BY <1>1, <1>2 DEF Enter

\* A trade takes the same amount from the book and from the order.
LEMMA FillCovered == FokInv /\ Fill => FokInv'
<1> SUFFICES ASSUME FokInv, Fill PROVE FokInv'
  OBVIOUS
<1>1. IInv' /\ pc = "match" /\ pc' = pc /\ stp_policy' = stp_policy
  BY Zenon, FillKeeps DEF FokInv, Fill
<1>2. PICK p \in BookPrices, qty \in Nat \ {0} : TradeAt(p, qty)
  BY FillTrades DEF FokInv
<1>3. /\ taker \in Order(OrderIds, Int, Nat, Nat) /\ queue \in Books /\ queue' \in Books
      /\ taker' \in Order(OrderIds, Int, Nat, Nat)
  BY <1>1 DEF FokInv, IInv, TypeOK, TakerOk, Matching, Books
<1>4. /\ taker'.remaining = taker.remaining - qty /\ taker.remaining \in Nat
      /\ taker'.tif = taker.tif /\ taker'.participant = taker.participant
      /\ taker.side \in Side /\ taker'.side \in Side /\ taker.remaining > 0
  BY Zenon, <1>2, <1>3 DEF TradeAt, Order, Reachable
<1>5. SUFFICES ASSUME taker.tif = "FOK", NoStp PROVE has_liquidity_for(queue', taker')
  <2>1. has_liquidity_for(queue', taker') = has_liquidity_for(queue, taker)'
    BY Zenon DEF has_liquidity_for, LevelQuantity, Levels
  <2> QED BY <1>1, <1>4, <2>1 DEF FokInv, FokStaysCovered, NoStp
<1>6. has_liquidity_for(queue, taker)
  BY <1>1, <1>4, <1>5 DEF FokInv, FokStaysCovered, NoStp
<1>7. Cover(queue, taker) >= taker.remaining /\ Cover(queue, taker) \in Int
  BY <1>3, <1>4, <1>6, CoverFacts
<1>8. Cover(queue', taker') = Cover(queue, taker) - qty
  BY <1>1, <1>2, TradeCover DEF FokInv
<1>9. Cover(queue', taker') >= taker'.remaining
  BY <1>4, <1>7, <1>8
<1> QED BY <1>3, <1>4, <1>9, CoverFacts

\* Every step keeps the invariant.
LEMMA NextCovered == FokInv /\ [Next]_vars => FokInv'
<1> SUFFICES ASSUME FokInv, [Next]_vars PROVE FokInv'
  OBVIOUS
<1>1. IInv'
  BY NextIInv DEF FokInv
<1>2. CASE AddOrder
  BY <1>1, <1>2, EnterCovered DEF AddOrder
<1>3. CASE AmendReplace
  BY Zenon, <1>1, <1>3, EnterCovered DEF AmendReplace
<1>4. CASE Fill
  BY <1>4, FillCovered
<1>5. CASE PreventSelfTrade
  <2>1. ~NoStp /\ taker' = taker /\ stp_policy' = stp_policy
    BY <1>5 DEF PreventSelfTrade, SelfTrade, NoStp
  <2> QED BY <1>1, <2>1 DEF FokInv, FokStaysCovered, NoStp
<1>6. CASE CancelOrder \/ Reset \/ AmendReject \/ AmendInPlace \/ Finish \/ Returned
  <2>1. pc' \in {"idle", "return"}
    BY Zenon, <1>6 DEF CancelOrder, Reset, AmendReject, AmendInPlace, Finish, Returned, Return
  <2> QED BY <1>1, <2>1 DEF FokInv, FokStaysCovered
<1>7. CASE UNCHANGED vars
  BY Zenon, <1>1, <1>7 DEF vars, FokInv, FokStaysCovered, NoStp, has_liquidity_for,
                           LevelQuantity, Levels
<1> QED
  BY <1>2, <1>3, <1>4, <1>5, <1>6, <1>7 DEF Next, Running

\* The matching loop of a covered FOK order ends with nothing left to fill.
LEMMA FokFinishes ==
    ASSUME FokInv, Finish, taker.tif = "FOK", NoStp
    PROVE  report'.filled = original
<1>1. pc = "match" /\ \A p \in BookPrices : ~Reachable(p)
  BY DEF FokInv, Finish
<1>2. taker.remaining \in Nat /\ original \in Nat
  BY DEF FokInv, IInv, TypeOK, Order
<1>3. taker.remaining = 0
  <2> SUFFICES ASSUME taker.remaining # 0 PROVE FALSE
    OBVIOUS
  <2>1. taker.remaining > 0
    BY <1>2
  <2>2. has_liquidity_for(queue, taker)
    BY <1>1, <2>1 DEF FokInv, FokStaysCovered, NoStp
  <2> QED BY <1>1, <2>1, <2>2, CoveredReaches DEF FokInv
<1>4. report' = ExecutionReport(taker.id, "Filled", original - taker.remaining, 0, "None")
  BY <1>3 DEF Finish, Return, Answer
<1> QED BY <1>2, <1>3, <1>4 DEF ExecutionReport

\* Of a FOK order that cannot meet its own participant: for every book and
\* order, has_liquidity_for's verdict stays good until the last trade.
THEOREM FokStaysGood == Spec => []FokStaysCovered
<1>1. Init => FokInv
  BY InitIInv DEF Init, FokInv, FokStaysCovered
<1>2. FokInv => FokStaysCovered
  BY DEF FokInv
<1> QED BY <1>1, <1>2, NextCovered, PTL DEF Spec

\* Such an order, once past the dry run, is filled completely.
THEOREM FokFillsCompletely == Spec => FokWithoutStp
<1> DEFINE Whole == (pc = "match" \/ pc = "killed") /\ pc' = "return" /\ taker.tif = "FOK" /\
                    (stp_policy = "None" \/ taker.participant = kNoParticipant) =>
                       report'.filled = original
<1>1. Init => FokInv
  BY InitIInv DEF Init, FokInv, FokStaysCovered
<1>2. FokInv /\ [Next]_vars => [Whole]_vars
  <2> SUFFICES ASSUME FokInv, Next, pc = "match" \/ pc = "killed", pc' = "return",
                      taker.tif = "FOK", NoStp
               PROVE  report'.filled = original
    BY DEF NoStp
  <2>1. Finish
    BY Zenon DEF Next, Running, AddOrder, CancelOrder, Reset, AmendReject, AmendInPlace,
                 AmendReplace, Fill, PreventSelfTrade, Returned
  <2> QED BY <2>1, FokFinishes
<1> HIDE DEF Whole
<1>3. Spec => [][Whole]_vars
  BY <1>1, <1>2, NextCovered, PTL DEF Spec
<1> QED BY <1>3 DEF Whole, FokWithoutStp
=============================================================================
