--------------------------- MODULE MatchingEngine ---------------------------
(***************************************************************************)
(* matching_engine.hpp and risk_manager.cpp over one book: registration of *)
(* the symbol, order ids, the pre-trade checks, and the positions that     *)
(* every trade moves.  The book is OrderBook, whose actions the engine's   *)
(* calls are made of; an order the engine refuses itself never reaches it. *)
(*                                                                         *)
(* One symbol: books_ and state_ keep symbols apart, and next_order_id_ is *)
(* the only thing they share.  state_ is therefore keyed by participant.   *)
(* A request is the order it becomes; one whose client_order_id is missing *)
(* becomes an order with the id next_order_id_.                            *)
(***************************************************************************)
EXTENDS OrderBook

CONSTANTS ClientIds,          \* client_order_ids that requests may carry
          Participants,
          LimitChoices,       \* SymbolRiskLimits that set_limits may install
          kUnlimited,         \* numeric_limits::max(), the default limit
          kRateLimitWindow,   \* kRateLimitWindowNs, in ticks
          MaxSubmits, MaxNow  \* bounds: calls of submit_order; the clock

Ages == 0 .. kRateLimitWindow - 1

SymbolRiskLimits == [max_position : Nat, max_order_size : Nat,
                     max_orders_per_second : Nat]

ASSUME EngineIdAssumption == ClientIds \subseteq OrderIds /\ OrderIds \subseteq Nat
ASSUME ParticipantAssumption ==
    Participants \subseteq Nat /\ \A o \in Requests : o.participant \in Participants
ASSUME LimitAssumption == LimitChoices \subseteq SymbolRiskLimits /\ kUnlimited \in Nat
ASSUME WindowAssumption == kRateLimitWindow \in Nat \ {0}
ASSUME EngineBoundsAssumption == MaxSubmits \in Nat /\ MaxNow \in Nat

VARIABLES
  registered,      \* the symbol is in books_
  state_,          \* RiskManager::state_, defined on the participants it knows
  next_order_id_,
  now,             \* now_ns()
  refused,         \* what the engine returns without asking the book
  origin,          \* of the order the book works on: "client" or "engine" gave
                   \* it its id, "amend", or "none"
  given,           \* client_order_ids seen so far
  taken,           \* taken[p][a]: orders of p let through a ticks ago, since
                   \* the last set_limits for p
  submits

risk == <<state_, taken>>
ids == <<next_order_id_, given, submits>>
engine_vars == <<vars, registered, risk, ids, now, refused, origin>>

\* state_.find, state_[p] = r, and the entry operator[] finds or creates.
Known(p) == p \in DOMAIN state_
Fresh == [limits |-> [max_position |-> kUnlimited, max_order_size |-> kUnlimited,
                      max_orders_per_second |-> kUnlimited],
          net_position |-> 0, window_start |-> 0, orders_in_window |-> 0]
At(st, p) == IF p \in DOMAIN st THEN st[p] ELSE Fresh
Put(st, p, r) == [q \in DOMAIN st \cup {p} |-> IF q = p THEN r ELSE st[q]]

Signed(side, quantity) == IF side = "Buy" THEN quantity ELSE -quantity

\* (mutant) Only participants that state_ already knows are tracked.
on_fill_known_only(st, p, side, quantity) ==
    IF p \in DOMAIN st
    THEN Put(st, p, [st[p] EXCEPT !.net_position = @ + Signed(side, quantity)])
    ELSE st

on_fill(st, p, side, quantity) ==
    Put(st, p, [At(st, p) EXCEPT !.net_position = @ + Signed(side, quantity)])

\* (mutant) The count starts over but the window does not.
WindowNotMoved(r) ==
    IF now - r.window_start >= kRateLimitWindow THEN [r EXCEPT !.orders_in_window = 0]
    ELSE r

\* The rate-limit window as check_new_order leaves it before counting.
Window(r) ==
    IF now - r.window_start >= kRateLimitWindow
    THEN [[r EXCEPT !.window_start = now] EXCEPT !.orders_in_window = 0]
    ELSE r

\* (mutant) The position is tested as it is, not as the order would make it.
PositionExceededNow(r, o) ==
    \/ r.net_position > r.limits.max_position
    \/ r.net_position < -r.limits.max_position

PositionExceeded(r, o) ==
    LET prospective == r.net_position + Signed(o.side, o.remaining)
    IN  \/ prospective > r.limits.max_position
        \/ prospective < -r.limits.max_position

\* check_new_order: its verdict on o, and state_ afterwards.
Verdict(o) ==
    LET r == state_[o.participant]
    IN  IF ~Known(o.participant) THEN "None"
        ELSE IF o.remaining > r.limits.max_order_size THEN "RiskMaxOrderSize"
        ELSE IF PositionExceeded(r, o) THEN "RiskMaxPosition"
        ELSE IF Window(r).orders_in_window >= r.limits.max_orders_per_second
             THEN "RiskRateLimited"
        ELSE "None"

Checked(o) ==
    LET p == o.participant
        r == Window(state_[p])
    IN  IF ~Known(p) \/ Verdict(o) \in {"RiskMaxOrderSize", "RiskMaxPosition"}
        THEN state_
        ELSE IF Verdict(o) = "RiskRateLimited" THEN Put(state_, p, r)
        ELSE Put(state_, p, [r EXCEPT !.orders_in_window = @ + 1])
-----------------------------------------------------------------------------
EngineInit ==
    /\ Init
    /\ registered = FALSE
    /\ state_ = [p \in {} |-> Fresh]
    /\ next_order_id_ = 1
    /\ now = 0
    /\ refused = NoReport
    /\ origin = "none"
    /\ given = {}
    /\ taken = [p \in Participants |-> [a \in Ages |-> 0]]
    /\ submits = 0

\* The calling thread is in none of the engine's calls.
Ready == pc = "idle" /\ refused = NoReport

\* add_symbol.  Init has already chosen the policy that the first call
\* passes; try_emplace ignores every later call.
AddSymbol ==
    /\ Ready
    /\ registered' = TRUE
    /\ UNCHANGED <<vars, risk, ids, now, refused, origin>>

\* set_risk_limits: the limits only, not the position or the window.
SetLimits(p, l) ==
    /\ Ready
    /\ state_' = Put(state_, p, [At(state_, p) EXCEPT !.limits = l])
    /\ taken' = [taken EXCEPT ![p] = [a \in Ages |-> 0]]
    /\ UNCHANGED <<vars, registered, ids, now, refused, origin>>

\* submit_order for a symbol that nobody has added.
SubmitUnknown(id) ==
    /\ Ready /\ ~registered
    /\ submits < MaxSubmits /\ submits' = submits + 1
    /\ refused' = Rejected(id, "UnknownSymbol")
    /\ UNCHANGED <<vars, registered, risk, next_order_id_, given, now, origin>>

\* (mutant) The counter is read and not advanced.
AssignIdStuck(o, by) ==
    \/ /\ by = "client" /\ o.id \in ClientIds
       /\ given' = given \cup {o.id}
       /\ UNCHANGED next_order_id_
    \/ /\ by = "engine" /\ o.id = next_order_id_
       /\ UNCHANGED <<next_order_id_, given>>

AssignId(o, by) ==
    \/ /\ by = "client" /\ o.id \in ClientIds
       /\ given' = given \cup {o.id}
       /\ UNCHANGED next_order_id_
    \/ /\ by = "engine" /\ o.id = next_order_id_
       /\ next_order_id_' = next_order_id_ + 1
       /\ UNCHANGED given

\* submit_order.  An id, used up even if the order is refused; the checks;
\* and add_order, up to its matching loop, for an order that passes them.
SubmitOrder(o, by) ==
    /\ Ready /\ registered
    /\ submits < MaxSubmits /\ submits' = submits + 1
    /\ AssignId(o, by)
    /\ state_' = Checked(o)
    /\ \/ /\ Verdict(o) # "None"
          /\ refused' = Rejected(o.id, Verdict(o))
          /\ UNCHANGED <<vars, taken, origin>>
       \/ /\ Verdict(o) = "None"
          /\ UNCHANGED <<queue, stp_policy>>
          /\ Enter(queue, {o})
          /\ taken' = [taken EXCEPT ![o.participant][0] = @ + 1]
          /\ origin' = by
          /\ UNCHANGED refused
    /\ UNCHANGED <<registered, now>>

\* cancel_order and amend_order.  Neither asks the risk manager.
CancelOrAmend ==
    /\ Ready /\ registered
    /\ \/ CancelOrder \/ AmendReject \/ AmendInPlace \/ AmendReplace
    /\ origin' = "amend"
    /\ UNCHANGED <<registered, risk, ids, now, refused>>

\* cancel_order returns false without a book, so it changes nothing at all.
AmendUnknown(id) ==
    /\ Ready /\ ~registered
    /\ refused' = Rejected(id, "UnknownSymbol")
    /\ UNCHANGED <<vars, registered, risk, ids, now, origin>>

ResetSymbol ==
    /\ Ready /\ registered
    /\ Reset
    /\ UNCHANGED <<registered, risk, ids, now, refused, origin>>

\* One trade: the book's callback is on_trade, which moves both positions.
OnTrade ==
    /\ Fill
    /\ LET trade == trades'[Len(trades')]
       IN  state_' = on_fill(on_fill(state_, taker.participant, taker.side, trade.quantity),
                             trade.participant, Opposite(taker.side), trade.quantity)
    /\ UNCHANGED <<registered, taken, ids, now, refused, origin>>

BookRuns ==
    /\ PreventSelfTrade \/ Finish
    /\ UNCHANGED <<registered, risk, ids, now, refused, origin>>

\* The caller has its report.
EngineReturned ==
    /\ \/ Returned /\ UNCHANGED refused
       \/ refused # NoReport /\ refused' = NoReport /\ UNCHANGED vars
    /\ origin' = "none"
    /\ UNCHANGED <<registered, risk, ids, now>>

\* Time is read once a call, so it may as well pass between calls.
Tick ==
    /\ Ready
    /\ now < MaxNow /\ now' = now + 1
    /\ taken' = [p \in Participants |->
                   [a \in Ages |-> IF a = 0 THEN 0 ELSE taken[p][a - 1]]]
    /\ UNCHANGED <<vars, registered, state_, ids, refused, origin>>

Calls ==
    \/ AddSymbol
    \/ \E p \in Participants, l \in LimitChoices : SetLimits(p, l)
    \/ \E id \in ClientIds \cup {kInvalidOrderId} : SubmitUnknown(id)
    \/ \E o \in Requests, by \in {"client", "engine"} : SubmitOrder(o, by)
    \/ \E id \in OrderIds : AmendUnknown(id)
    \/ CancelOrAmend
    \/ ResetSymbol

EngineRuns == OnTrade \/ BookRuns \/ EngineReturned

EngineNext == Calls \/ EngineRuns \/ Tick

EngineSpec == EngineInit /\ [][EngineNext]_engine_vars

\* A call that has begun runs on: nothing can suspend the calling thread's
\* loop for good.  New calls are the clients' choice and are not fair.
EngineFairSpec == EngineSpec /\ WF_engine_vars(EngineRuns)
-----------------------------------------------------------------------------
(***************************************************************************)
(* Properties.                                                             *)
(***************************************************************************)
\* An order that passed check_new_order cannot carry its participant past
\* max_position while it trades on arrival, however many makers it meets:
\* what it holds plus what it still wants stays within the limit.  (Orders
\* that rest, and amends, are checked by nothing when they trade later.)
TakerWithinLimit ==
    LET r == state_[taker.participant]
    IN  pc \in {"match", "killed"} /\ origin # "amend" /\ Known(taker.participant)
          /\ r.limits.max_position < kUnlimited =>
            IF taker.side = "Buy"
            THEN r.net_position + taker.remaining <= r.limits.max_position
            ELSE r.net_position - taker.remaining >= -r.limits.max_position

\* What some have bought, others have sold: positions add up to zero over
\* all participants, those without limits and those first seen by a trade
\* included, across reset_symbol and set_risk_limits (on_trade, on_fill).
PositionsNetToZero ==
    SumFunction([p \in DOMAIN state_ |-> state_[p].net_position]) = 0

\* Of a participant with a limit the fixed window lets through at most twice
\* that limit in any span of one window's length, wherever the span lies and
\* whatever limits were lowered or raised before (check_new_order's
\* window_start and orders_in_window).
RateBounded ==
    \A p \in DOMAIN state_ :
        LET max == state_[p].limits.max_orders_per_second
        IN  max < kUnlimited => SumFunction(taken[p]) <= 2 * max

\* An order whose id the engine chose is refused as a duplicate only if a
\* client has used that id: the engine never collides with itself, though
\* ids stay taken for as long as an order rests or is amended (submit_order).
AssignedIdsFresh ==
    pc = "return" /\ origin = "engine" /\ "reason" \in DOMAIN report
      /\ report.reason = "DuplicateOrderId" => report.id \in given
=============================================================================
