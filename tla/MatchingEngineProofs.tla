------------------------ MODULE MatchingEngineProofs ------------------------
(***************************************************************************)
(* What MatchingEngine promises for every number of participants, orders   *)
(* and limits: it uses its book as OrderBook allows, so that all that is   *)
(* proved of the book holds behind the engine, and no order that passed    *)
(* check_new_order trades its participant past the limit on arrival.       *)
(***************************************************************************)
EXTENDS OrderBookProofs, RiskProofs

\* Time limits of the provers, for the larger steps.
USE SMTT(30), ZenonT(30)

\* Each call of the engine is a call of the book, or leaves the book alone.
LEMMA EngineStep == [EngineNext]_engine_vars => [Next]_vars
<1> SUFFICES ASSUME [EngineNext]_engine_vars PROVE [Next]_vars
  OBVIOUS
<1>1. CASE UNCHANGED engine_vars
  BY <1>1 DEF engine_vars
<1>2. CASE Calls
  <2>1. CASE \E o \in Requests, by \in {"client", "engine"} : SubmitOrder(o, by)
    <3>1. PICK o \in Requests, by \in {"client", "engine"} : SubmitOrder(o, by)
      BY <2>1
    <3>2. CASE UNCHANGED vars
      BY <3>2
    <3>3. CASE UNCHANGED <<queue, stp_policy>> /\ Enter(queue, {o})
      <4>1. pc = "idle"
        BY <3>1 DEF SubmitOrder, Ready
      <4>2. Enter(queue, Requests)
        BY <3>3 DEF Enter, Refuse, Kill, Accept
      <4> QED
        BY <3>3, <4>1, <4>2 DEF Next, AddOrder
    <3> QED
      BY <3>1, <3>2, <3>3 DEF SubmitOrder
  <2>2. CASE CancelOrAmend
    BY <2>2 DEF CancelOrAmend, Next
  <2>3. CASE ResetSymbol
    BY <2>3 DEF ResetSymbol, Next
  <2>4. CASE AddSymbol \/ \E p \in Participants, l \in LimitChoices : SetLimits(p, l)
    BY Zenon, <2>4 DEF AddSymbol, SetLimits
  <2>5. CASE \/ \E id \in ClientIds \cup {kInvalidOrderId} : SubmitUnknown(id)
             \/ \E id \in OrderIds : AmendUnknown(id)
    BY <2>5 DEF SubmitUnknown, AmendUnknown
  <2> QED
    BY <1>2, <2>1, <2>2, <2>3, <2>4, <2>5 DEF Calls
<1>3. CASE EngineRuns
  <2>1. CASE OnTrade \/ BookRuns
    BY <2>1 DEF OnTrade, BookRuns, Next, Running
  <2>2. CASE EngineReturned
    BY <2>2 DEF EngineReturned, Next, Running
  <2> QED
    BY <1>3, <2>1, <2>2 DEF EngineRuns
<1>4. CASE Tick
  BY <1>4 DEF Tick
<1> QED
  BY <1>1, <1>2, <1>3, <1>4 DEF EngineNext

\* The engine implements the book's specification: submit_order, cancel,
\* amend and reset_symbol never use the book in a way the book does not know.
THEOREM EngineDrivesBook == EngineSpec => Spec
<1>1. EngineInit => Init
  BY DEF EngineInit
<1> QED
  BY <1>1, EngineStep, PTL DEF EngineSpec, Spec

\* What the engine's clients see of the book is sound at all times: never
\* crossed, every id once, no trade of a participant with itself under a
\* self-trade policy, true reports, and fill-or-kill orders that fill
\* completely or not at all where that policy cannot act.
THEOREM EngineBookSound ==
    EngineSpec => /\ [](NotCrossed /\ UniqueIds /\ NoSelfTrade /\ ReportMatchesBook)
                  /\ FokWithoutStp
<1>1. IInv => NotCrossed /\ UniqueIds /\ NoSelfTrade
  BY DEF IInv
<1> QED
  BY <1>1, EngineDrivesBook, Invariance, ReportsAreTrue, FokFillsCompletely, PTL

-----------------------------------------------------------------------------
\* The engine answers by itself only while the book is at rest; and the
\* types that the arithmetic of TakerWithinLimit needs.
EngineInv ==
    /\ IInv
    /\ refused # NoReport => pc = "idle"
    /\ now \in Nat
    /\ \A p \in DOMAIN state_ : state_[p] \in RiskState
    /\ TakerWithinLimit

\* The trade that Fill prints, and what it leaves the taker.
LEMMA FillFacts ==
    ASSUME IInv, Fill
    PROVE  LET trade == trades'[Len(trades')]
           IN  /\ trade.quantity \in Nat
               /\ taker.remaining \in Nat
               /\ taker'.remaining = taker.remaining - trade.quantity
               /\ taker'.side = taker.side
               /\ taker'.participant = taker.participant
<1>1. PICK p \in BookPrices :
        LET maker == Head(queue[Opposite(taker.side)][p])
            qty == MinOf(taker.remaining, maker.remaining)
        IN  /\ taker' = [taker EXCEPT !.remaining = @ - qty]
            /\ trades' = Append(trades,
                   [maker |-> maker.id, price |-> p, quantity |-> qty,
                    participant |-> maker.participant])
  BY Zenon DEF Fill
<1> DEFINE maker == Head(queue[Opposite(taker.side)][p])
           qty == MinOf(taker.remaining, maker.remaining)
           e == [maker |-> maker.id, price |-> p, quantity |-> qty,
                 participant |-> maker.participant]
<1>2. taker \in Order(OrderIds \cup {kInvalidOrderId}, Int, Nat, Nat) /\ trades \in Seq(Trade)
  BY DEF IInv, TypeOK
<1>3. trades' \in Seq(Trade)
  BY FillKeeps DEF IInv, TypeOK
<1>4. trades' = Append(trades, e) /\ taker' = [taker EXCEPT !.remaining = @ - qty]
  BY <1>1
<1> HIDE DEF e, qty
<1>5. Len(trades') = Len(trades) + 1 /\ trades'[Len(trades')] = e
  BY <1>2, <1>4
<1>6. trades'[Len(trades')] \in Trade
  BY <1>2, <1>3, <1>5
<1>7. e.quantity = qty
  BY DEF e
<1>8. trades'[Len(trades')].quantity \in Nat
  BY <1>6 DEF Trade
<1>9. /\ taker'.remaining = taker.remaining - qty
      /\ taker'.side = taker.side /\ taker'.participant = taker.participant
      /\ taker.remaining \in Nat
  BY <1>2, <1>4 DEF Order
<1> QED
  BY <1>5, <1>7, <1>8, <1>9

\* A new engine satisfies the invariant.
LEMMA InitEngineInv == EngineInit => EngineInv
<1> SUFFICES ASSUME EngineInit PROVE EngineInv
  OBVIOUS
<1>1. IInv /\ pc = "idle"
  BY InitIInv DEF EngineInit, Init
<1>2. DOMAIN state_ = {} /\ now \in Nat
  BY DEF EngineInit
<1> QED
  BY <1>1, <1>2 DEF EngineInv, TakerWithinLimit

\* Both legs of a trade: what the taker gains it no longer wants, and a
\* maker of the same participant only gives some of it back.
LEMMA OnTradeKeeps == EngineInv /\ OnTrade => EngineInv'
<1> SUFFICES ASSUME EngineInv, OnTrade PROVE EngineInv'
  OBVIOUS
<1> DEFINE trade == trades'[Len(trades')]
           n == trade.quantity
           who == taker.participant
           maker == trade.participant
           st1 == on_fill(state_, who, taker.side, n)
           st2 == on_fill(st1, maker, Opposite(taker.side), n)
<1>1. /\ n \in Nat /\ taker.remaining \in Nat
      /\ taker'.remaining = taker.remaining - n
      /\ taker'.side = taker.side /\ taker'.participant = who
  BY FillFacts DEF EngineInv, OnTrade
<1>2. taker.side \in Side /\ Opposite(taker.side) \in Side
  BY DEF EngineInv, IInv, TypeOK, Order, Opposite, Side
<1>3. /\ state_' = st2 /\ pc = "match" /\ pc' = "match"
      /\ refused' = refused /\ now' = now /\ origin' = origin
  BY Zenon DEF OnTrade, Fill
<1>4. IInv'
  BY FillKeeps DEF EngineInv, OnTrade
<1>5. \A p \in DOMAIN state_ : state_[p] \in RiskState
  BY DEF EngineInv
<1> HIDE DEF n, who, maker
<1>6. Moved(state_, st1, who, Signed(taker.side, n))
  BY <1>1, <1>2, <1>5, OnFillFacts
<1> HIDE DEF st1
<1>7. Moved(st1, st2, maker, Signed(Opposite(taker.side), n))
  <2>1. \A p \in DOMAIN st1 : st1[p] \in RiskState
    BY <1>6 DEF Moved
  <2> QED
    BY Zenon, <1>1, <1>2, <2>1, OnFillFacts
<1> HIDE DEF st2
<1>8. TakerWithinLimit'
  <2> DEFINE r2 == st2[who]
  <2> SUFFICES ASSUME origin # "amend", r2.limits.max_position < kUnlimited
               PROVE  IF taker.side = "Buy"
                      THEN r2.net_position + taker'.remaining <= r2.limits.max_position
                      ELSE r2.net_position - taker'.remaining >= -r2.limits.max_position
    BY <1>1, <1>3 DEF TakerWithinLimit
  <2>1. r2.limits = st1[who].limits
    BY <1>6, <1>7 DEF Moved
  <2>2. who \in DOMAIN state_
    BY <1>6, <2>1, LimitAssumption DEF Moved
  <2> DEFINE r == state_[who]
             max == r.limits.max_position
  <2>3. r2.limits.max_position = max
    BY <1>6, <2>1, <2>2 DEF Moved
  <2>4. r.net_position \in Int /\ max \in Nat
    BY <1>5, <2>2 DEF RiskState, SymbolRiskLimits
  <2>5. IF taker.side = "Buy" THEN r.net_position + taker.remaining <= max
                              ELSE r.net_position - taker.remaining >= -max
    BY <1>3, <2>2, <2>3 DEF EngineInv, TakerWithinLimit, Known, who
  <2>6. \/ r2.net_position = r.net_position + Signed(taker.side, n)
        \/ r2.net_position = r.net_position + Signed(taker.side, n)
                                + Signed(Opposite(taker.side), n)
    BY <1>6, <1>7, <2>2 DEF Moved
  <2> HIDE DEF r, r2, max
  <2>7. CASE taker.side = "Buy"
    BY <1>1, <2>3, <2>4, <2>5, <2>6, <2>7 DEF Signed, Opposite
  <2>8. CASE taker.side = "Sell"
    BY <1>1, <2>3, <2>4, <2>5, <2>6, <2>8 DEF Signed, Opposite
  <2> QED
    BY <1>2, <2>7, <2>8 DEF Side
<1>9. refused # NoReport => pc = "idle"
  BY DEF EngineInv
<1> QED
  BY <1>3, <1>4, <1>7, <1>8, <1>9 DEF EngineInv, Moved

\* What check_new_order lets through fits within the limit, and its
\* bookkeeping of the window touches neither limits nor positions.
LEMMA CheckFacts ==
    ASSUME EngineInv, NEW o \in Requests
    PROVE  /\ DOMAIN Checked(o) = DOMAIN state_
           /\ \A p \in DOMAIN state_ :
                /\ Checked(o)[p] \in RiskState
                /\ Checked(o)[p].limits = state_[p].limits
                /\ Checked(o)[p].net_position = state_[p].net_position
           /\ Verdict(o) = "None" /\ Known(o.participant) =>
                ~PositionExceeded(state_[o.participant], o)
<1> DEFINE who == o.participant
           r == state_[who]
           w == Window(r)
           w1 == [w EXCEPT !.orders_in_window = @ + 1]
<1>1. \A p \in DOMAIN state_ : state_[p] \in RiskState
  BY DEF EngineInv
<1>2. ASSUME who \in DOMAIN state_
      PROVE  /\ w \in RiskState /\ w.limits = r.limits /\ w.net_position = r.net_position
             /\ w1 \in RiskState /\ w1.limits = r.limits /\ w1.net_position = r.net_position
  <2>1. r \in RiskState /\ now \in Nat
    BY <1>1, <1>2 DEF EngineInv
  <2> DEFINE a == [r EXCEPT !.window_start = now]
             b == [a EXCEPT !.orders_in_window = 0]
  <2>2. a \in RiskState /\ a.limits = r.limits /\ a.net_position = r.net_position
    BY <2>1 DEF RiskState
  <2> HIDE DEF a
  <2>3. b \in RiskState /\ b.limits = r.limits /\ b.net_position = r.net_position
    BY <2>2 DEF RiskState
  <2>4. w = b \/ w = r
    BY DEF Window, a
  <2> HIDE DEF r, b, w
  <2>5. w \in RiskState /\ w.limits = r.limits /\ w.net_position = r.net_position
    BY <2>1, <2>3, <2>4
  <2>6. w1 \in RiskState /\ w1.limits = w.limits /\ w1.net_position = w.net_position
    BY <2>5 DEF RiskState
  <2> QED
    BY <2>5, <2>6
<1>3. \/ Checked(o) = state_
      \/ /\ who \in DOMAIN state_
         /\ Checked(o) = Put(state_, who, w) \/ Checked(o) = Put(state_, who, w1)
  BY DEF Checked, Known
<1>4. Verdict(o) = "None" /\ Known(who) => ~PositionExceeded(r, o)
  BY DEF Verdict
<1> HIDE DEF r, w, w1, who
<1>5. CASE Checked(o) = state_
  BY <1>1, <1>4, <1>5 DEF r, who
<1>6. CASE who \in DOMAIN state_ /\ Checked(o) = Put(state_, who, w)
  BY <1>1, <1>2, <1>4, <1>6 DEF Put, r, who
<1>7. CASE who \in DOMAIN state_ /\ Checked(o) = Put(state_, who, w1)
  BY <1>1, <1>2, <1>4, <1>7 DEF Put, r, who
<1> QED
  BY <1>3, <1>5, <1>6, <1>7

\* submit_order: the order that enters the book has passed the checks.
LEMMA SubmitOrderKeeps ==
    ASSUME EngineInv, NEW o \in Requests, NEW by \in {"client", "engine"}, SubmitOrder(o, by)
    PROVE  EngineInv'
<1>1. /\ DOMAIN state_' = DOMAIN state_
      /\ \A p \in DOMAIN state_ :
           /\ state_'[p] \in RiskState
           /\ state_'[p].limits = state_[p].limits
           /\ state_'[p].net_position = state_[p].net_position
      /\ Verdict(o) = "None" /\ Known(o.participant) =>
           ~PositionExceeded(state_[o.participant], o)
  BY CheckFacts DEF SubmitOrder
<1>2. pc = "idle" /\ refused = NoReport /\ now' = now
  BY DEF SubmitOrder, Ready
<1>3. IInv'
  BY EngineStep, NextIInv DEF EngineInv, EngineNext, Calls
<1>4. now' \in Nat /\ \A p \in DOMAIN state_' : state_'[p] \in RiskState
  BY <1>1, <1>2 DEF EngineInv
<1>5. CASE Verdict(o) # "None"
  <2>1. pc' = "idle"
    BY <1>2, <1>5 DEF SubmitOrder, vars
  <2> QED
    BY <1>3, <1>4, <2>1 DEF EngineInv, TakerWithinLimit
<1>6. CASE Verdict(o) = "None"
  <2>1. Enter(queue, {o}) /\ refused' = refused
    BY <1>6 DEF SubmitOrder
  <2>2. pc' = "return" \/ (pc' = "match" /\ taker' = o)
    BY <2>1, EnterFacts
  <2>3. TakerWithinLimit'
    <3>1. CASE pc' = "return"
      BY <3>1 DEF TakerWithinLimit
    <3>2. CASE pc' = "match" /\ taker' = o
      <4> DEFINE r == state_[o.participant]
                 r1 == state_'[o.participant]
      <4> SUFFICES ASSUME o.participant \in DOMAIN state_
                   PROVE  IF o.side = "Buy"
                          THEN r1.net_position + o.remaining <= r1.limits.max_position
                          ELSE r1.net_position - o.remaining >= -r1.limits.max_position
        BY <1>1, <3>2 DEF TakerWithinLimit, Known
      <4>1. r.limits = r1.limits /\ r.net_position = r1.net_position
        BY <1>1
      <4>2. ~PositionExceeded(r, o)
        BY <1>1, <1>6 DEF Known
      <4>3. r.net_position \in Int /\ r.limits.max_position \in Nat
        BY DEF EngineInv, RiskState, SymbolRiskLimits
      <4>4. o.remaining \in Int
        BY RequestAssumption DEF Order
      <4> QED
        BY <4>1, <4>2, <4>3, <4>4 DEF PositionExceeded, Signed
    <3> QED
      BY <2>2, <3>1, <3>2
  <2> QED
    BY <1>2, <1>3, <1>4, <2>1, <2>3 DEF EngineInv
<1> QED
  BY <1>5, <1>6

\* The remaining calls and steps leave positions alone, or find no order
\* being matched.
LEMMA OthersKeep ==
    ASSUME EngineInv, [EngineNext]_engine_vars, ~OnTrade,
           ~\E o \in Requests, by \in {"client", "engine"} : SubmitOrder(o, by)
    PROVE  EngineInv'
<1>1. IInv'
  BY EngineStep, NextIInv DEF EngineInv
<1>2. CASE UNCHANGED engine_vars
  BY <1>1, <1>2 DEF EngineInv, engine_vars, risk, vars, TakerWithinLimit, Known
<1>3. CASE \E p \in Participants, l \in LimitChoices : SetLimits(p, l)
  <2>1. PICK p \in Participants, l \in LimitChoices : SetLimits(p, l)
    BY <1>3
  <2> DEFINE r == At(state_, p)
             r1 == [r EXCEPT !.limits = l]
  <2>2. state_' = Put(state_, p, r1) /\ pc' = pc /\ pc = "idle" /\ now' = now /\ refused' = refused
    BY <2>1 DEF SetLimits, Ready, vars
  <2>3. Fresh \in RiskState
    BY LimitAssumption DEF Fresh, RiskState, SymbolRiskLimits
  <2>4. r \in RiskState /\ l \in SymbolRiskLimits
    BY <2>3, LimitAssumption DEF At, EngineInv
  <2>5. r1 \in RiskState
    BY <2>4 DEF RiskState
  <2> HIDE DEF r1
  <2>6. \A q \in DOMAIN state_' : state_'[q] \in RiskState
    BY <2>2, <2>5 DEF Put, EngineInv
  <2> QED
    BY <1>1, <2>2, <2>6 DEF EngineInv, TakerWithinLimit
<1>4. CASE \/ AddSymbol \/ Tick \/ ResetSymbol
           \/ \E id \in ClientIds \cup {kInvalidOrderId} : SubmitUnknown(id)
           \/ \E id \in OrderIds : AmendUnknown(id)
  <2>1. pc' = "idle" /\ state_' = state_ /\ now' \in Nat
    BY <1>4 DEF AddSymbol, Tick, ResetSymbol, Reset, SubmitUnknown, AmendUnknown,
                Ready, vars, risk, EngineInv
  <2> QED
    BY Zenon, <1>1, <2>1 DEF EngineInv, TakerWithinLimit
<1>5. CASE CancelOrAmend
  <2>1. origin' = "amend" /\ state_' = state_ /\ now' = now /\ refused' = NoReport
    BY <1>5 DEF CancelOrAmend, Ready, risk
  <2> QED
    BY Zenon, <1>1, <2>1 DEF EngineInv, TakerWithinLimit
<1>6. CASE BookRuns
  <2>1. state_' = state_ /\ now' = now /\ refused' = refused /\ origin' = origin
    BY <1>6 DEF BookRuns, risk
  <2>2. CASE PreventSelfTrade
    BY <1>1, <2>1, <2>2 DEF PreventSelfTrade, EngineInv, TakerWithinLimit, Known
  <2>3. CASE Finish
    <3>1. pc \in {"match", "killed"} /\ pc' = "return"
      BY <2>3 DEF Finish, Return
    <3> QED
      BY Zenon, <1>1, <2>1, <3>1 DEF EngineInv, TakerWithinLimit
  <2> QED
    BY <1>6, <2>2, <2>3 DEF BookRuns
<1>7. CASE EngineReturned
  <2>1. state_' = state_ /\ now' = now
    BY <1>7 DEF EngineReturned, risk
  <2>2. pc' = "idle"
    BY <1>7 DEF EngineReturned, Returned, EngineInv, vars
  <2> QED
    BY <1>1, <2>1, <2>2 DEF EngineInv, TakerWithinLimit
<1> QED
  BY <1>2, <1>3, <1>4, <1>5, <1>6, <1>7 DEF EngineNext, Calls, EngineRuns

\* For any limits and any sequence of calls: an order that passed
\* check_new_order stays within max_position while it trades on arrival.
THEOREM TakersWithinLimit == EngineSpec => []TakerWithinLimit
<1>1. EngineInv /\ [EngineNext]_engine_vars => EngineInv'
  BY OnTradeKeeps, SubmitOrderKeeps, OthersKeep
<1>2. EngineInv => TakerWithinLimit
  BY DEF EngineInv
<1> QED
  BY <1>1, <1>2, InitEngineInv, PTL DEF EngineSpec

-----------------------------------------------------------------------------
\* An id that a client brought or that the counter has passed.
Issued(id) == id \in given \/ id < next_order_id_

\* Whatever is in the book, or on its way there, was issued: so the id that
\* the counter holds next can only clash with one a client brought.
IdInv ==
    /\ IInv
    /\ next_order_id_ \in Nat
    /\ \A id \in OrderIds : Contains(queue, id) => Issued(id)
    /\ Matching => Issued(taker.id)
    /\ AssignedIdsFresh

\* A replacement keeps the id of the order it replaces (amend_order).
LEMMA ReplacementId ==
    ASSUME NEW old \in RestingOrder, NEW new \in Replacements(old)
    PROVE  new.id = old.id
<1>1. \A q, p : Replacement(old, q, p).id = old.id
  BY DEF Replacement, RestingOrder, Order
<1>2. PICK n \in AmendQuantities \X (AmendPrices \cup {nullopt}) :
        new = Replacement(old, n[1], n[2])
  BY Zenon DEF Replacements
<1> QED BY <1>1, <1>2

\* A step that brings no new id, hence keeps what is known of ids, unless it
\* answers an order whose id the engine chose.
LEMMA NoNewIds ==
    ASSUME IdInv, IInv', UNCHANGED <<next_order_id_, given>>,
           \A id \in OrderIds : Contains(queue', id) => Issued(id),
           Matching' => Issued(taker'.id),
           AssignedIdsFresh'
    PROVE  IdInv'
  BY DEF IdInv, Issued

\* Steps that only shrink the book keep its ids issued.
LEMMA ShrinksIssued ==
    ASSUME IdInv, IInv', Shrinks(queue, queue')
    PROVE  \A id \in OrderIds : Contains(queue', id) => Issued(id)
<1>1. queue \in Books /\ queue' \in Books
  BY DEF IdInv, IInv, TypeOK, Books
<1> QED BY <1>1, ShrinksKeeps DEF IdInv

\* submit_order: the id is new, or a client's own.
LEMMA SubmitOrderIssues ==
    ASSUME IdInv, NEW o \in Requests, NEW by \in {"client", "engine"}, SubmitOrder(o, by)
    PROVE  IdInv'
<1>1. IInv'
  <2>1. [EngineNext]_engine_vars
    BY DEF EngineNext, Calls
  <2> QED BY <2>1, EngineStep, NextIInv DEF IdInv
<1>2. /\ next_order_id_' \in Nat
      /\ \A id \in OrderIds : Issued(id) => Issued(id)'
      /\ Issued(o.id)'
      /\ by = "engine" => o.id = next_order_id_ /\ given' = given
  <2>1. o.id \in Nat
    BY Zenon, RequestAssumption, EngineIdAssumption DEF Order
  <2>2. OrderIds \subseteq Nat
    BY EngineIdAssumption
  <2> QED BY <2>1, <2>2 DEF SubmitOrder, AssignId, Issued, IdInv
<1>3. pc = "idle" /\ UNCHANGED queue
  BY DEF SubmitOrder, Ready, vars
<1>4. \A id \in OrderIds : Contains(queue', id) => Issued(id)'
  BY <1>2, <1>3 DEF IdInv
<1>5. CASE UNCHANGED vars
  <2>1. pc' = "idle"
    BY <1>3, <1>5 DEF vars
  <2> QED BY <1>1, <1>2, <1>4, <2>1 DEF IdInv, Matching, AssignedIdsFresh
<1>6. CASE Enter(queue, {o}) /\ origin' = by
  <2>1. CASE Accept(queue, {o})
    <3>1. pc' = "match" /\ taker' = o
      BY <2>1 DEF Accept
    <3> QED BY <1>1, <1>2, <1>4, <3>1 DEF IdInv, Matching, AssignedIdsFresh
  <2>2. CASE Kill(queue, {o})
    <3>1. pc' = "return" /\ report'.reason = "None"
      BY <2>2 DEF Kill, Return, Answer, ExecutionReport
    <3> QED BY <1>1, <1>2, <1>4, <3>1 DEF IdInv, Matching, AssignedIdsFresh
  <2>3. CASE Refuse(queue, {o})
    <3>1. /\ pc' = "return" /\ report'.reason = Validate(queue, o)
          /\ report'.id = o.id /\ o.id \in OrderIds
      BY <2>3 DEF Refuse, Return, Answer, Rejected, ExecutionReport
    <3>2. Validate(queue, o) = "DuplicateOrderId" => Issued(o.id)
      BY <3>1 DEF Validate, IdInv
    <3>3. ~(next_order_id_ < next_order_id_)
      BY DEF IdInv
    <3>4. AssignedIdsFresh'
      BY <1>2, <1>6, <3>1, <3>2, <3>3 DEF AssignedIdsFresh, Issued
    <3> QED BY <1>1, <1>2, <1>4, <3>1, <3>4 DEF IdInv, Matching
  <2> QED BY <1>6, <2>1, <2>2, <2>3 DEF Enter
<1> QED BY <1>5, <1>6 DEF SubmitOrder

\* cancel_order and amend_order: an order that is resubmitted brings the id
\* it had in the book.
LEMMA CancelOrAmendIssues ==
    ASSUME IdInv, CancelOrAmend PROVE IdInv'
<1>1. origin' = "amend" /\ UNCHANGED <<next_order_id_, given>>
  BY DEF CancelOrAmend, ids
<1>2. AssignedIdsFresh'
  BY <1>1 DEF AssignedIdsFresh
<1>3. CASE CancelOrder \/ AmendReject \/ AmendInPlace
  <2>1. IInv' /\ Shrinks(queue, queue')
    BY <1>3, CancelOrderKeeps, AmendRejectKeeps, AmendInPlaceKeeps DEF IdInv
  <2>2. ~Matching'
    BY Zenon, <1>3 DEF CancelOrder, AmendReject, AmendInPlace, Return, Matching
  <2> QED BY <1>1, <1>2, <2>1, <2>2, ShrinksIssued, NoNewIds
<1>4. CASE AmendReplace
  <2>1. IInv' /\ Shrinks(queue, queue')
    BY <1>4, AmendReplaceKeeps DEF IdInv
  <2>2. PICK s \in Side, p \in BookPrices : \E i \in DOMAIN queue[s][p] :
          Enter(queue', Replacements(queue[s][p][i]))
    BY <1>4 DEF AmendReplace
  <2>3. PICK i \in DOMAIN queue[s][p] : Enter(queue', Replacements(queue[s][p][i]))
    BY <2>2
  <2>4. queue[s][p][i] \in RestingOrder
    BY DEF IdInv, IInv, TypeOK
  <2>5. queue[s][p][i].id \in OrderIds /\ Contains(queue, queue[s][p][i].id)
    BY <2>4 DEF RestingOrder, Order, Contains, HasId
  <2>6. Issued(queue[s][p][i].id)
    BY <2>5 DEF IdInv
  <2>7. Matching' => taker' \in Replacements(queue[s][p][i])
    BY <2>3, EnterFacts DEF Matching
  <2>8. Matching' => Issued(taker'.id)
    BY <2>4, <2>6, <2>7, ReplacementId
  <2> QED BY <1>1, <1>2, <2>1, <2>8, ShrinksIssued, NoNewIds
<1> QED BY <1>3, <1>4 DEF CancelOrAmend

\* The matching loop and its end: only the order being matched can join the
\* book.
LEMMA LoopIssues ==
    ASSUME IdInv, OnTrade \/ BookRuns PROVE IdInv'
<1>1. UNCHANGED <<next_order_id_, given>>
  BY DEF OnTrade, BookRuns, ids
<1>2. CASE Fill \/ PreventSelfTrade
  <2>1. IInv' /\ Shrinks(queue, queue')
    BY <1>2, FillKeeps, PreventSelfTradeKeeps DEF IdInv
  <2>2. taker \in Order(OrderIds \cup {kInvalidOrderId}, Int, Nat, Nat)
    BY DEF IdInv, IInv, TypeOK
  <2>3. pc = "match" /\ pc' \in {"match", "killed"} /\ taker'.id = taker.id
    BY Zenon, <1>2, <2>2 DEF Fill, PreventSelfTrade, Order
  <2>4. Issued(taker'.id)
    BY <2>3 DEF IdInv, Matching
  <2>5. AssignedIdsFresh'
    BY <2>3 DEF AssignedIdsFresh
  <2> QED BY <1>1, <2>1, <2>4, <2>5, ShrinksIssued, NoNewIds
<1>3. CASE Finish
  <2>1. IInv' /\ \A id : Contains(queue', id) => Contains(queue, id) \/ id = taker.id
    BY <1>3, FinishKeeps DEF IdInv
  <2>2. Matching /\ pc' = "return" /\ report'.reason = "None"
    BY <1>3 DEF Finish, Return, Answer, ExecutionReport, Matching
  <2>3. \A id \in OrderIds : Contains(queue', id) => Issued(id)
    BY <2>1, <2>2 DEF IdInv
  <2>4. AssignedIdsFresh' /\ ~Matching'
    BY <2>2 DEF AssignedIdsFresh, Matching
  <2> QED BY <1>1, <2>1, <2>3, <2>4, NoNewIds
<1> QED BY <1>2, <1>3 DEF OnTrade, BookRuns

\* What is left touches neither ids nor, except to empty it, the book.
LEMMA QuietIssues ==
    ASSUME IdInv, [EngineNext]_engine_vars, ~OnTrade, ~BookRuns, ~CancelOrAmend,
           ~\E o \in Requests, by \in {"client", "engine"} : SubmitOrder(o, by)
    PROVE  IdInv'
<1>1. IInv'
  BY EngineStep, NextIInv DEF IdInv
<1>2. UNCHANGED <<next_order_id_, given>>
  BY Zenon DEF EngineNext, Calls, EngineRuns, engine_vars, ids, AddSymbol, SetLimits,
         SubmitUnknown, AmendUnknown, ResetSymbol, EngineReturned, Tick
<1>3. CASE ResetSymbol
  <2>1. Shrinks(queue, queue') /\ pc' = "idle"
    BY <1>3, ResetKeeps DEF ResetSymbol, IdInv, Reset
  <2> QED BY <1>1, <1>2, <2>1, ShrinksIssued, NoNewIds DEF Matching, AssignedIdsFresh
<1>4. CASE EngineReturned /\ Returned
  <2>1. UNCHANGED queue /\ pc' = "idle"
    BY <1>4 DEF Returned
  <2> QED BY <1>1, <1>2, <2>1, NoNewIds DEF IdInv, Matching, AssignedIdsFresh
<1>5. CASE UNCHANGED vars /\ origin' \in {origin, "none"}
  <2>1. UNCHANGED <<queue, pc, taker, report>>
    BY <1>5 DEF vars
  <2>2. AssignedIdsFresh'
    BY <1>2, <1>5, <2>1 DEF IdInv, AssignedIdsFresh
  <2> QED BY <1>1, <1>2, <2>1, <2>2, NoNewIds DEF IdInv, Matching
<1> QED
  BY Zenon, <1>3, <1>4, <1>5 DEF EngineNext, Calls, EngineRuns, engine_vars, AddSymbol, SetLimits,
         SubmitUnknown, AmendUnknown, EngineReturned, Tick

\* For any mixture of requests with and without a client_order_id, of fills,
\* cancels and amends: the engine's own counter never produces a duplicate.
THEOREM OwnIdsAreFresh == EngineSpec => []AssignedIdsFresh
<1>1. EngineInit => IdInv
  <2>1. EngineInit => IInv
    BY InitIInv DEF EngineInit
  <2>2. EngineInit => \A id : ~Contains(queue, id)
    BY DEF EngineInit, Init, Contains, HasId
  <2> QED BY <2>1, <2>2 DEF EngineInit, Init, IdInv, Matching, AssignedIdsFresh
<1>2. IdInv /\ [EngineNext]_engine_vars => IdInv'
  BY SubmitOrderIssues, CancelOrAmendIssues, LoopIssues, QuietIssues
<1>3. IdInv => AssignedIdsFresh
  BY DEF IdInv
<1> QED
  BY <1>1, <1>2, <1>3, PTL DEF EngineSpec

-----------------------------------------------------------------------------
(***************************************************************************)
(* Positions.                                                              *)
(***************************************************************************)
PositionsInv ==
    /\ EngineInv
    /\ IsFiniteSet(DOMAIN state_)
    /\ Total(state_) = 0

\* A step that touches no position.
LEMMA SameNet ==
    ASSUME PositionsInv, EngineInv', DOMAIN state_' = DOMAIN state_,
           \A p \in DOMAIN state_ : state_'[p].net_position = state_[p].net_position
    PROVE  PositionsInv'
<1>1. Net(state_') = Net(state_)
  BY DEF Net
<1> QED BY <1>1 DEF PositionsInv, Total

\* A trade moves two positions by opposite amounts.
LEMMA OnTradeTotal == PositionsInv /\ OnTrade => PositionsInv'
<1> SUFFICES ASSUME PositionsInv, OnTrade PROVE PositionsInv'
  OBVIOUS
<1> DEFINE trade == trades'[Len(trades')]
           n == trade.quantity
           who == taker.participant
           maker == trade.participant
           st1 == on_fill(state_, who, taker.side, n)
           st2 == on_fill(st1, maker, Opposite(taker.side), n)
<1>1. n \in Nat
  BY FillFacts DEF PositionsInv, EngineInv, OnTrade
<1>2. taker.side \in Side /\ Opposite(taker.side) \in Side
  BY DEF PositionsInv, EngineInv, IInv, TypeOK, Order, Opposite, Side
<1>3. state_' = st2
  BY DEF OnTrade
<1>4. /\ EngineInv' /\ IsFiniteSet(DOMAIN state_) /\ Total(state_) = 0
      /\ \A p \in DOMAIN state_ : state_[p] \in RiskState
  BY OnTradeKeeps DEF PositionsInv, EngineInv
<1> HIDE DEF n, who, maker
<1>5. \A p \in DOMAIN st1 : st1[p] \in RiskState
  BY Zenon, <1>1, <1>2, <1>4, OnFillFacts DEF Moved
<1>6. IsFiniteSet(DOMAIN st1) /\ Total(st1) = Total(state_) + Signed(taker.side, n)
  BY <1>1, <1>2, <1>4, OnFillTotal
<1> HIDE DEF st1
<1>7. /\ IsFiniteSet(DOMAIN st2) /\ Total(st1) \in Int
      /\ Total(st2) = Total(st1) + Signed(Opposite(taker.side), n)
  BY <1>1, <1>2, <1>5, <1>6, OnFillTotal
<1>8. Signed(taker.side, n) + Signed(Opposite(taker.side), n) = 0
  BY <1>1, <1>2 DEF Signed, Opposite, Side
<1>9. Signed(taker.side, n) \in Int /\ Signed(Opposite(taker.side), n) \in Int
  BY <1>1 DEF Signed
<1> HIDE DEF st2
<1> QED BY <1>3, <1>4, <1>6, <1>7, <1>8, <1>9 DEF PositionsInv

\* Only trades move positions.
LEMMA NextPositions == PositionsInv /\ [EngineNext]_engine_vars => PositionsInv'
<1> SUFFICES ASSUME PositionsInv, [EngineNext]_engine_vars PROVE PositionsInv'
  OBVIOUS
<1>1. EngineInv'
  BY OnTradeKeeps, SubmitOrderKeeps, OthersKeep DEF PositionsInv
<1>2. CASE OnTrade
  BY <1>2, OnTradeTotal
<1>3. CASE \E o \in Requests, by \in {"client", "engine"} : SubmitOrder(o, by)
  <2>1. PICK o \in Requests, by \in {"client", "engine"} : SubmitOrder(o, by)
    BY <1>3
  <2>2. state_' = Checked(o)
    BY <2>1 DEF SubmitOrder
  <2> QED BY <1>1, <2>2, CheckFacts, SameNet DEF PositionsInv
<1>4. CASE \E p \in Participants, l \in LimitChoices : SetLimits(p, l)
  <2>1. PICK p \in Participants, l \in LimitChoices : SetLimits(p, l)
    BY <1>4
  <2> DEFINE r == At(state_, p)
             r1 == [r EXCEPT !.limits = l]
  <2>2. state_' = Put(state_, p, r1)
    BY <2>1 DEF SetLimits
  <2>3. Fresh \in RiskState
    BY LimitAssumption DEF Fresh, RiskState, SymbolRiskLimits
  <2>4. r \in RiskState /\ l \in SymbolRiskLimits
    BY <2>3, LimitAssumption DEF At, PositionsInv, EngineInv
  <2>5. r1 \in RiskState /\ r1.net_position = r.net_position /\ r.net_position \in Int
    BY <2>4 DEF RiskState
  <2> HIDE DEF r1
  <2>6. /\ IsFiniteSet(DOMAIN state_') /\ Total(state_) \in Int
        /\ Total(state_') = Total(state_) + (r1.net_position - r.net_position)
    BY <2>2, <2>5, PutTotal DEF PositionsInv, EngineInv
  <2> HIDE DEF r
  <2> QED BY <1>1, <2>5, <2>6 DEF PositionsInv
<1>5. CASE state_' = state_
  BY <1>1, <1>5 DEF PositionsInv
<1> QED
  BY <1>2, <1>3, <1>4, <1>5 DEF EngineNext, Calls, EngineRuns, engine_vars, risk, AddSymbol,
         SubmitUnknown, AmendUnknown, ResetSymbol, CancelOrAmend, BookRuns, EngineReturned, Tick

\* For any participants, limits and sequence of calls, positions add up to
\* zero: each trade of on_trade moves two of them by opposite amounts.
THEOREM PositionsBalance == EngineSpec => []PositionsNetToZero
<1>1. EngineInit => PositionsInv
  <2> SUFFICES ASSUME EngineInit PROVE PositionsInv
    OBVIOUS
  <2>1. DOMAIN state_ = {}
    BY DEF EngineInit
  <2>2. IsFiniteSet({}) /\ SumFunctionOnSet(Net(state_), {}) = 0
    BY Zenon, FS_EmptySet, SumUnfold DEF IntOn
  <2> QED BY <2>1, <2>2, InitEngineInv DEF PositionsInv, Total
<1>2. PositionsInv => PositionsNetToZero
  BY DEF PositionsInv, PositionsNetToZero, Total, Net, SumFunction
<1> QED
  BY <1>1, <1>2, NextPositions, PTL DEF EngineSpec

-----------------------------------------------------------------------------
(***************************************************************************)
(* The rate limit.                                                         *)
(***************************************************************************)
\* Limits are installed for Participants only; everyone else's are Fresh's.
Limited(p) == state_[p].limits.max_orders_per_second < kUnlimited

RateInv ==
    /\ EngineInv
    /\ taken \in [Participants -> AgeCounts]
    /\ \A p \in DOMAIN state_ : state_[p].window_start <= now
    /\ \A p \in DOMAIN state_ : Limited(p) => p \in Participants /\ Paced(state_[p], taken[p], now)

\* A trade leaves the windows alone.
LEMMA OnTradeRate == RateInv /\ OnTrade => RateInv'
<1> SUFFICES ASSUME RateInv, OnTrade PROVE RateInv'
  OBVIOUS
<1> DEFINE trade == trades'[Len(trades')]
           n == trade.quantity
           who == taker.participant
           maker == trade.participant
           st1 == on_fill(state_, who, taker.side, n)
           st2 == on_fill(st1, maker, Opposite(taker.side), n)
<1>1. /\ EngineInv' /\ \A p \in DOMAIN state_ : state_[p] \in RiskState
      /\ now \in Nat
  BY OnTradeKeeps DEF RateInv, EngineInv
<1>2. state_' = st2 /\ taken' = taken /\ now' = now
  BY DEF OnTrade
<1>3. n \in Nat /\ taker.side \in Side
  BY Zenon, FillFacts DEF RateInv, EngineInv, OnTrade, IInv, TypeOK, Order
<1> HIDE DEF n, who, maker
<1>4. \A p \in DOMAIN st1 : st1[p] \in RiskState
  BY Zenon, <1>1, <1>3, OnFillFacts DEF Moved
<1>5. \A p \in DOMAIN st1 : SameWindow(st1[p], At(state_, p))
  BY Zenon, <1>1, OnFillWindow
<1>6. DOMAIN st1 = DOMAIN state_ \cup {who}
  BY DEF on_fill, Put
<1> HIDE DEF st1
<1>7. \A p \in DOMAIN st2 : SameWindow(st2[p], At(st1, p))
  BY Zenon, <1>4, OnFillWindow
<1> HIDE DEF st2
<1>8. ASSUME NEW p \in DOMAIN state_'
      PROVE  SameWindow(state_'[p], At(state_, p))
  <2>1. CASE p \in DOMAIN st1
    BY <1>2, <1>5, <1>7, <2>1 DEF At, SameWindow
  <2>2. CASE p \notin DOMAIN st1
    BY <1>2, <1>6, <1>7, <2>2 DEF At
  <2> QED BY <2>1, <2>2
<1>9. ASSUME NEW p \in DOMAIN state_'
      PROVE  /\ state_'[p].window_start <= now
             /\ Limited(p)' => p \in Participants /\ Paced(state_'[p], taken[p], now)
  <2>1. CASE p \in DOMAIN state_
    <3>1. At(state_, p) = state_[p] /\ state_[p].window_start <= now
          /\ (Limited(p) => p \in Participants /\ Paced(state_[p], taken[p], now))
      BY <2>1 DEF At, RateInv
    <3>2. Limited(p)' => Limited(p)
      BY <1>8, <3>1 DEF Limited, SameWindow
    <3> QED BY <1>8, <3>1, <3>2 DEF Paced, SameWindow
  <2>2. CASE p \notin DOMAIN state_
    <3>1. At(state_, p) = Fresh
      BY <2>2 DEF At
    <3>2. Fresh.window_start = 0 /\ ~(Fresh.limits.max_orders_per_second < kUnlimited)
      BY LimitAssumption DEF Fresh
    <3> QED BY <1>1, <1>8, <3>1, <3>2 DEF Limited, SameWindow
  <2> QED BY <2>1, <2>2
<1> QED BY <1>1, <1>2, <1>9 DEF RateInv

\* set_limits: the count starts afresh under the new limits.
LEMMA SetLimitsRate ==
    ASSUME RateInv, EngineInv', NEW p \in Participants, NEW l \in LimitChoices, SetLimits(p, l)
    PROVE  RateInv'
<1> DEFINE r == At(state_, p)
           r1 == [r EXCEPT !.limits = l]
<1>1. /\ state_' = Put(state_, p, r1) /\ now' = now
      /\ taken' = [taken EXCEPT ![p] = NoneTaken]
  BY DEF SetLimits, NoneTaken
<1>2. Fresh \in RiskState /\ Fresh.window_start = 0
  BY LimitAssumption DEF Fresh, RiskState, SymbolRiskLimits
<1>3. r \in RiskState /\ l \in SymbolRiskLimits /\ r.window_start <= now /\ now \in Nat
  BY <1>2, LimitAssumption DEF At, RateInv, EngineInv
<1>4. r1 \in RiskState /\ r1.window_start = r.window_start
  BY <1>3 DEF RiskState
<1> HIDE DEF r, r1
<1>5. Paced(r1, NoneTaken, now)
  BY <1>3, <1>4, PacedAfresh
<1>6. /\ taken' \in [Participants -> AgeCounts] /\ taken'[p] = NoneTaken
      /\ \A q \in Participants \ {p} : taken'[q] = taken[q]
  BY <1>1, SumOfFacts DEF RateInv
<1>7. ASSUME NEW q \in DOMAIN state_'
      PROVE  /\ state_'[q].window_start <= now
             /\ Limited(q)' => q \in Participants /\ Paced(state_'[q], taken'[q], now)
  <2>1. CASE q = p
    <3>1. state_'[q] = r1
      BY <1>1, <2>1 DEF Put
    <3> QED BY <1>3, <1>4, <1>5, <1>6, <2>1, <3>1
  <2>2. CASE q # p
    <3>1. q \in DOMAIN state_ /\ state_'[q] = state_[q]
      BY <1>1, <2>2 DEF Put
    <3>2. Limited(q)' => Limited(q)
      BY <3>1 DEF Limited
    <3> QED BY <1>6, <2>2, <3>1, <3>2 DEF RateInv
  <2> QED BY <2>1, <2>2
<1> QED BY Zenon, <1>1, <1>6, <1>7 DEF RateInv

\* Replacing one entry keeps the invariant if the new entry keeps its part.
LEMMA PutRate ==
    ASSUME RateInv, EngineInv', NEW p \in DOMAIN state_, NEW r1,
           state_' = Put(state_, p, r1), now' = now,
           taken' \in [Participants -> AgeCounts],
           \A q \in Participants \ {p} : taken'[q] = taken[q],
           r1.window_start <= now, r1.limits = state_[p].limits,
           Limited(p) => p \in Participants /\ Paced(r1, taken'[p], now)
    PROVE  RateInv'
<1>1. ASSUME NEW q \in DOMAIN state_'
      PROVE  /\ state_'[q].window_start <= now
             /\ Limited(q)' => q \in Participants /\ Paced(state_'[q], taken'[q], now)
  <2>1. CASE q = p
    <3>1. state_'[q] = r1
      BY <2>1 DEF Put
    <3>2. Limited(q)' => Limited(p)
      BY <3>1 DEF Limited
    <3> QED BY <2>1, <3>1, <3>2
  <2>2. CASE q # p
    <3>1. q \in DOMAIN state_ /\ state_'[q] = state_[q]
      BY <2>2 DEF Put
    <3>2. Limited(q)' => Limited(q)
      BY <3>1 DEF Limited
    <3> QED BY <2>2, <3>1, <3>2 DEF RateInv
  <2> QED BY <2>1, <2>2
<1> QED BY <1>1 DEF RateInv

\* check_new_order: the order is counted, in the window or in a new one.
LEMMA SubmitOrderRate ==
    ASSUME RateInv, NEW o \in Requests, NEW by \in {"client", "engine"}, SubmitOrder(o, by)
    PROVE  RateInv'
<1> DEFINE who == o.participant
           r == state_[who]
           w == Window(r)
           w1 == [w EXCEPT !.orders_in_window = @ + 1]
           t1 == [taken[who] EXCEPT ![0] = @ + 1]
<1>1. EngineInv' /\ now' = now /\ state_' = Checked(o) /\ now \in Nat /\ who \in Participants
  BY Zenon, SubmitOrderKeeps, ParticipantAssumption DEF RateInv, EngineInv, SubmitOrder
<1>2. Verdict(o) # "None" => taken' = taken
  BY DEF SubmitOrder
<1>3. ASSUME Verdict(o) = "None"
      PROVE  /\ taken' \in [Participants -> AgeCounts] /\ taken'[who] = t1
             /\ \A q \in Participants \ {who} : taken'[q] = taken[q]
  <2>1. taken' = [taken EXCEPT ![who][0] = @ + 1]
    BY <1>3 DEF SubmitOrder
  <2>2. taken[who] \in AgeCounts /\ 0 \in Ages
    BY <1>1, SumOfFacts DEF RateInv
  <2>3. t1 \in AgeCounts
    BY <2>2 DEF AgeCounts
  <2> QED BY <1>1, <2>1, <2>3 DEF RateInv
<1>4. CASE ~Known(who)
  <2>1. Verdict(o) = "None" /\ state_' = state_
    BY <1>1, <1>4 DEF Verdict, Checked
  <2>2. \A q \in DOMAIN state_ : q # who /\ Limited(q)' = Limited(q)
    BY <1>4, <2>1 DEF Known, Limited
  <2>3. \A q \in DOMAIN state_' : Limited(q)' =>
            q \in Participants /\ Paced(state_'[q], taken'[q], now)
    BY Zenon, <1>3, <2>1, <2>2 DEF RateInv
  <2> QED BY Zenon, <1>1, <1>3, <2>1, <2>3 DEF RateInv
<1>5. CASE Known(who)
  <2>1. /\ who \in DOMAIN state_ /\ r \in RiskState /\ r.window_start <= now
        /\ Limited(who) => Paced(r, taken[who], now)
        /\ taken[who] \in AgeCounts
    BY <1>1, <1>5 DEF Known, RateInv, EngineInv
  <2>2. /\ w \in RiskState /\ w.limits = r.limits /\ w.window_start <= now
        /\ now - w.window_start < kRateLimitWindow
    BY Zenon, <1>1, <2>1, WindowFacts
  <2>3. Limited(who) => Paced(w, taken[who], now)
    BY Zenon, <1>1, <2>1, PacedWindow
  <2>4. CASE Verdict(o) \in {"RiskMaxOrderSize", "RiskMaxPosition"}
    <3>1. state_' = state_ /\ taken' = taken
      BY <1>1, <1>2, <2>4 DEF Checked
    <3> QED BY Zenon, <1>1, <3>1 DEF RateInv, Limited
  <2>5. CASE Verdict(o) = "RiskRateLimited"
    <3>1. state_' = Put(state_, who, w) /\ taken' = taken
      BY <1>1, <1>2, <1>5, <2>5 DEF Checked
    <3> HIDE DEF w, r
    <3> QED BY Zenon, <1>1, <2>1, <2>2, <2>3, <3>1, PutRate DEF RateInv, r
  <2>6. CASE Verdict(o) = "None"
    <3>1. state_' = Put(state_, who, w1)
      BY <1>1, <1>5, <2>6 DEF Checked
    <3>2. ~(w.orders_in_window >= r.limits.max_orders_per_second)
      BY Zenon, <1>5, <2>6 DEF Verdict
    <3>3. /\ w1.limits = r.limits /\ w1.window_start <= now
          /\ w.orders_in_window < w.limits.max_orders_per_second
      BY <2>2, <3>2 DEF RiskState, SymbolRiskLimits
    <3>4. Limited(who) => Paced(w1, t1, now)
      BY <1>1, <2>1, <2>2, <2>3, <3>3, PacedCount
    <3> HIDE DEF w1, w, r, t1
    <3> QED BY Zenon, <1>1, <1>3, <2>1, <2>6, <3>1, <3>3, <3>4, PutRate DEF r
  <2>7. Verdict(o) \in {"RiskMaxOrderSize", "RiskMaxPosition", "RiskRateLimited", "None"}
    BY DEF Verdict
  <2> QED BY <2>4, <2>5, <2>6, <2>7
<1> QED BY <1>4, <1>5

\* The clock ticks for every participant.
LEMMA TickRate == RateInv /\ EngineInv' /\ Tick => RateInv'
<1> SUFFICES ASSUME RateInv, EngineInv', Tick PROVE RateInv'
  OBVIOUS
<1>1. /\ now' = now + 1 /\ state_' = state_ /\ now \in Nat
      /\ taken' = [p \in Participants |-> Older(taken[p])]
  BY Zenon DEF Tick, Older, RateInv, EngineInv
<1>2. \A p \in Participants : taken[p] \in AgeCounts /\ Older(taken[p]) \in AgeCounts
  BY SumOlder DEF RateInv
<1>3. ASSUME NEW p \in DOMAIN state_
      PROVE  /\ state_[p].window_start <= now + 1
             /\ Limited(p)' => p \in Participants /\ Paced(state_[p], taken'[p], now + 1)
  <2>1. /\ state_[p] \in RiskState /\ state_[p].window_start <= now
        /\ Limited(p) => p \in Participants /\ Paced(state_[p], taken[p], now)
    BY Zenon DEF RateInv, EngineInv
  <2>2. Limited(p)' = Limited(p)
    BY <1>1 DEF Limited
  <2>3. state_[p].window_start \in Nat
    BY <2>1 DEF RiskState
  <2> QED BY <1>1, <1>2, <2>1, <2>2, <2>3, PacedTick
<1> QED BY <1>1, <1>2, <1>3 DEF RateInv

\* Every step of the engine keeps the invariant.
LEMMA NextRate == RateInv /\ [EngineNext]_engine_vars => RateInv'
<1> SUFFICES ASSUME RateInv, [EngineNext]_engine_vars PROVE RateInv'
  OBVIOUS
<1>1. EngineInv'
  BY Zenon, OnTradeKeeps, SubmitOrderKeeps, OthersKeep DEF RateInv
<1>2. CASE OnTrade
  BY <1>2, OnTradeRate
<1>3. CASE \E o \in Requests, by \in {"client", "engine"} : SubmitOrder(o, by)
  BY <1>3, SubmitOrderRate
<1>4. CASE \E p \in Participants, l \in LimitChoices : SetLimits(p, l)
  BY <1>1, <1>4, SetLimitsRate
<1>5. CASE Tick
  BY <1>1, <1>5, TickRate
<1>6. CASE UNCHANGED <<state_, taken, now>>
  BY Zenon, <1>1, <1>6 DEF RateInv, Limited
<1> QED
  BY <1>2, <1>3, <1>4, <1>5, <1>6 DEF EngineNext, Calls, EngineRuns, engine_vars, risk, AddSymbol,
         SubmitUnknown, AmendUnknown, ResetSymbol, CancelOrAmend, BookRuns, EngineReturned

\* For any window length, limits and sequence of calls: of a participant with
\* a limit, check_new_order lets through at most twice that limit in any span
\* of one window's length.
THEOREM RateStaysBounded == EngineSpec => []RateBounded
<1>1. EngineInit => RateInv
  <2> SUFFICES ASSUME EngineInit PROVE RateInv
    OBVIOUS
  <2>1. DOMAIN state_ = {} /\ taken = [p \in Participants |-> NoneTaken]
    BY DEF EngineInit, NoneTaken
  <2> QED BY <2>1, InitEngineInv, SumOfFacts DEF RateInv
<1>2. RateInv => RateBounded
  <2> SUFFICES ASSUME RateInv, NEW p \in DOMAIN state_, Limited(p)
               PROVE  SumFunction(taken[p]) <= 2 * state_[p].limits.max_orders_per_second
    BY DEF RateBounded, Limited
  <2>1. /\ state_[p] \in RiskState /\ now \in Nat /\ p \in Participants
        /\ Paced(state_[p], taken[p], now) /\ taken[p] \in AgeCounts
    BY DEF RateInv, EngineInv
  <2>2. SumFunction(taken[p]) = SumOf(taken[p])
    BY <2>1 DEF AgeCounts, SumFunction, SumOf
  <2> QED BY <2>1, <2>2, PacedBound
<1> QED
  BY <1>1, <1>2, NextRate, PTL DEF EngineSpec
=============================================================================
