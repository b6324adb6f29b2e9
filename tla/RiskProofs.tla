----------------------------- MODULE RiskProofs -----------------------------
(***************************************************************************)
(* The arithmetic of MatchingEngine's risk state, for any limits and any   *)
(* window length: what on_fill does to positions and their total, and how  *)
(* an order, a new window and a tick change the orders a window counts.    *)
(***************************************************************************)
EXTENDS MatchingEngine, SharedLemmas

\* Time limits of the provers, for the larger steps.
USE SMTT(30), ZenonT(30)

RiskState == [limits : SymbolRiskLimits, net_position : Int,
              window_start : Nat, orders_in_window : Nat]

\* st1 is st with one position moved: everybody's limits are kept, and whom
\* st did not know gets no limit at all.
Moved(st, st1, who, delta) ==
    /\ DOMAIN st1 = DOMAIN st \cup {who}
    /\ \A p \in DOMAIN st1 : st1[p] \in RiskState
    /\ \A p \in DOMAIN st : st1[p].limits = st[p].limits
    /\ \A p \in DOMAIN st \ {who} : st1[p] = st[p]
    /\ who \in DOMAIN st => st1[who].net_position = st[who].net_position + delta
    /\ who \notin DOMAIN st => st1[who].limits.max_position = kUnlimited

\* on_fill does just that.
LEMMA OnFillFacts ==
    ASSUME NEW st, \A p \in DOMAIN st : st[p] \in RiskState,
           NEW who, NEW side \in Side, NEW n \in Nat
    PROVE  Moved(st, on_fill(st, who, side, n), who, Signed(side, n))
<1> DEFINE st1 == on_fill(st, who, side, n)
           r == At(st, who)
           r1 == [r EXCEPT !.net_position = @ + Signed(side, n)]
<1>1. Signed(side, n) \in Int
  BY DEF Signed, Side
<1>2. Fresh \in RiskState
  BY LimitAssumption DEF Fresh, RiskState, SymbolRiskLimits
<1>3. r \in RiskState
  BY <1>2 DEF At
<1>4. r1 \in RiskState /\ r1.limits = r.limits
      /\ r1.net_position = r.net_position + Signed(side, n)
  BY <1>1, <1>3 DEF RiskState
<1>5. st1 = [q \in DOMAIN st \cup {who} |-> IF q = who THEN r1 ELSE st[q]]
  BY DEF on_fill, Put
<1>6. who \in DOMAIN st => r = st[who]
  BY DEF At
<1>7. who \notin DOMAIN st => r.limits.max_position = kUnlimited
  BY DEF At, Fresh
<1> HIDE DEF st1, r, r1
<1>8. Moved(st, st1, who, Signed(side, n))
  BY <1>4, <1>5, <1>6, <1>7 DEF Moved
<1> QED
  BY <1>8 DEF st1

\* The positions in st, and what they add up to.
Net(st) == [p \in DOMAIN st |-> st[p].net_position]
Total(st) == SumFunctionOnSet(Net(st), DOMAIN st)

\* Moving one position, of a participant who may be new to st, moves the
\* total as much.
LEMMA PutTotal ==
    ASSUME NEW st, IsFiniteSet(DOMAIN st), \A p \in DOMAIN st : st[p] \in RiskState,
           NEW who, NEW r \in RiskState
    PROVE  /\ IsFiniteSet(DOMAIN Put(st, who, r))
           /\ Total(st) \in Int
           /\ Total(Put(st, who, r)) =
                Total(st) + (r.net_position - At(st, who).net_position)
<1> DEFINE D == DOMAIN st
           st1 == Put(st, who, r)
           D1 == D \cup {who}
           f == Net(st)
           f1 == Net(st1)
           n == r.net_position
<1>1. /\ DOMAIN st1 = D1 /\ st1[who] = r
      /\ \A p \in D \ {who} : st1[p] = st[p]
  BY DEF Put
<1>2. /\ \A p \in D : f[p] = st[p].net_position /\ f[p] \in Int
      /\ f1[who] = n /\ n \in Int
      /\ \A p \in D \ {who} : f1[p] = f[p]
  BY <1>1 DEF Net, RiskState
<1>3. IsFiniteSet(D) /\ IsFiniteSet(D1) /\ IntOn(f, D) /\ IntOn(f1, D1)
  BY <1>1, <1>2, FS_AddElement DEF IntOn
<1>4. Total(st) = SumFunctionOnSet(f, D) /\ Total(st1) = SumFunctionOnSet(f1, D1)
  BY <1>1 DEF Total
<1>5. SumFunctionOnSet(f, D) \in Int
  BY Zenon, <1>3, SumUnfold
<1> HIDE DEF f, f1, n, st1
<1>6. CASE who \in D
  <2>1. D1 = D /\ At(st, who).net_position = f[who]
    BY <1>2, <1>6 DEF At
  <2>2. SumFunctionOnSet(f1, D) = SumFunctionOnSet(f, D) + (f1[who] - f[who])
    BY <1>2, <1>3, <1>6, SumChange
  <2> QED BY <1>1, <1>2, <1>3, <1>4, <1>5, <2>1, <2>2 DEF st1, n
<1>7. CASE who \notin D
  <2>1. D1 \ {who} = D /\ At(st, who).net_position = 0
    BY Zenon, <1>7 DEF At, Fresh
  <2>2. SumFunctionOnSet(f1, D1) = f1[who] + SumFunctionOnSet(f1, D)
    BY <1>3, <2>1, SumRemove
  <2>3. SumFunctionOnSet(f1, D) = SumFunctionOnSet(f, D)
    BY <1>2, <1>3, <1>7, SumSame
  <2> QED BY <1>1, <1>2, <1>3, <1>4, <1>5, <2>1, <2>2, <2>3 DEF st1, n
<1> QED BY <1>6, <1>7

\* One leg of a trade moves the total by its signed quantity (on_fill).
LEMMA OnFillTotal ==
    ASSUME NEW st, IsFiniteSet(DOMAIN st), \A p \in DOMAIN st : st[p] \in RiskState,
           NEW who, NEW side \in Side, NEW n \in Nat
    PROVE  /\ IsFiniteSet(DOMAIN on_fill(st, who, side, n))
           /\ Total(st) \in Int
           /\ Total(on_fill(st, who, side, n)) = Total(st) + Signed(side, n)
<1> DEFINE r == At(st, who)
           r1 == [r EXCEPT !.net_position = @ + Signed(side, n)]
<1>1. Signed(side, n) \in Int
  BY DEF Signed, Side
<1>2. Fresh \in RiskState
  BY LimitAssumption DEF Fresh, RiskState, SymbolRiskLimits
<1>3. r \in RiskState
  BY <1>2 DEF At
<1>4. r1 \in RiskState /\ r1.net_position = r.net_position + Signed(side, n)
      /\ r.net_position \in Int
  BY <1>1, <1>3 DEF RiskState
<1>5. on_fill(st, who, side, n) = Put(st, who, r1)
  BY DEF on_fill
<1> HIDE DEF r1
<1>6. /\ IsFiniteSet(DOMAIN Put(st, who, r1)) /\ Total(st) \in Int
      /\ Total(Put(st, who, r1)) = Total(st) + (r1.net_position - r.net_position)
  BY <1>4, PutTotal
<1> HIDE DEF r
<1> QED BY <1>1, <1>4, <1>5, <1>6

\* Risk states that differ in the position at most.
SameWindow(r, s) ==
    /\ r.limits = s.limits
    /\ r.window_start = s.window_start
    /\ r.orders_in_window = s.orders_in_window

\* Moving positions leaves limits and windows alone.
LEMMA OnFillWindow ==
    ASSUME NEW st, NEW who, NEW side, NEW n,
           \A p \in DOMAIN st : st[p] \in RiskState
    PROVE  \A p \in DOMAIN on_fill(st, who, side, n) :
             SameWindow(on_fill(st, who, side, n)[p], At(st, p))
<1> DEFINE st1 == on_fill(st, who, side, n)
           r1 == [At(st, who) EXCEPT !.net_position = @ + Signed(side, n)]
<1>1. At(st, who) \in RiskState
  BY LimitAssumption DEF At, Fresh, RiskState, SymbolRiskLimits
<1>2. SameWindow(r1, At(st, who))
  BY <1>1 DEF RiskState, SameWindow
<1>3. st1 = [q \in DOMAIN st \cup {who} |-> IF q = who THEN r1 ELSE st[q]]
  BY DEF on_fill, Put
<1> HIDE DEF st1, r1
<1>4. ASSUME NEW p \in DOMAIN st1
      PROVE  SameWindow(st1[p], At(st, p))
  <2>1. CASE p = who
    BY <1>2, <1>3, <2>1
  <2>2. CASE p # who
    <3>1. p \in DOMAIN st /\ st1[p] = st[p]
      BY <1>3, <2>2
    <3> QED BY <3>1 DEF At, SameWindow
  <2> QED BY <2>1, <2>2
<1> QED BY Zenon, <1>4 DEF st1

-----------------------------------------------------------------------------
(***************************************************************************)
(* The rate limit.                                                         *)
(***************************************************************************)
AgeCounts == [Ages -> Nat]
NoneTaken == [a \in Ages |-> 0]
SumOf(t) == SumFunctionOnSet(t, Ages)

\* The orders of t that fall into a window begun d ticks ago, the earlier
\* ones, and t one tick later.
InWindow(t, d) == [a \in Ages |-> IF a <= d THEN t[a] ELSE 0]
Earlier(t, d) == [a \in Ages |-> IF a <= d THEN 0 ELSE t[a]]
Older(t) == [a \in Ages |-> IF a = 0 THEN 0 ELSE t[a - 1]]

\* At time n: orders_in_window counts all orders of t in the window; they,
\* and the ones before it, keep to the limit separately; and since the
\* window ended, which the next order notices, none has been let through.
Paced(r, t, n) ==
    LET d == n - r.window_start
        max == r.limits.max_orders_per_second
    IN  /\ SumOf(InWindow(t, d)) <= r.orders_in_window
        /\ SumOf(InWindow(t, d)) <= max
        /\ SumOf(Earlier(t, d)) <= max
        /\ \A a \in Ages : a <= d - kRateLimitWindow => t[a] = 0

\* Sums over the ages of a window and its predecessor.
LEMMA SumOfFacts ==
    /\ IsFiniteSet(Ages)
    /\ 0 \in Ages
    /\ \A t \in AgeCounts : IntOn(t, Ages) /\ SumOf(t) \in Int
    /\ NoneTaken \in AgeCounts /\ SumOf(NoneTaken) = 0
<1>1. IsFiniteSet(Ages) /\ 0 \in Ages
  BY WindowAssumption, FS_Interval DEF Ages
<1>2. ASSUME NEW t \in AgeCounts PROVE IntOn(t, Ages) /\ SumOf(t) \in Int
  <2>1. IntOn(t, Ages)
    BY DEF AgeCounts, IntOn
  <2>2. SumFunctionOnSet(t, Ages) \in Int
    BY Zenon, <1>1, <2>1, SumUnfold
  <2> QED BY <2>1, <2>2 DEF SumOf
<1>3. NoneTaken \in AgeCounts
  BY DEF NoneTaken, AgeCounts
<1>4. \A a \in Ages : NoneTaken[a] = 0
  BY DEF NoneTaken
<1>5. SumOf(NoneTaken) = 0 * Cardinality(Ages)
  BY <1>1, <1>4, SumConstant DEF SumOf
<1>6. Cardinality(Ages) \in Nat
  BY <1>1, FS_CardinalityType
<1> QED BY <1>1, <1>2, <1>3, <1>5, <1>6

\* The two parts add up to the whole.
LEMMA SumSplits ==
    ASSUME NEW t \in AgeCounts, NEW d \in Int
    PROVE  /\ InWindow(t, d) \in AgeCounts /\ Earlier(t, d) \in AgeCounts
           /\ SumOf(t) = SumOf(InWindow(t, d)) + SumOf(Earlier(t, d))
<1> DEFINE f == InWindow(t, d)
           g == Earlier(t, d)
<1>1. f \in AgeCounts /\ g \in AgeCounts
  BY DEF AgeCounts, InWindow, Earlier
<1>2. \A a \in Ages : t[a] = f[a] + g[a]
  BY DEF AgeCounts, InWindow, Earlier
<1> HIDE DEF f, g
<1>3. SumOf(t) = SumOf(f) + SumOf(g)
  BY <1>1, <1>2, SumOfFacts, SumPlus DEF SumOf
<1> QED BY <1>1, <1>3 DEF f, g

\* Time passing only drops the oldest count.
LEMMA SumOlder ==
    ASSUME NEW t \in AgeCounts
    PROVE  Older(t) \in AgeCounts /\ SumOf(Older(t)) <= SumOf(t)
<1> DEFINE g == Older(t)
           last == kRateLimitWindow - 1
           S == Ages \ {0}
           T == Ages \ {last}
           h == [a \in S |-> a - 1]
<1>1. /\ last \in Ages /\ 0 \in Ages
      /\ \A a \in S : a - 1 \in T
      /\ \A a \in T : a + 1 \in S /\ (a + 1) - 1 = a
      /\ \A a \in Ages : a \in Int
  BY WindowAssumption DEF Ages
<1>2. g \in AgeCounts
  BY <1>1 DEF AgeCounts, Older
<1>3. g[0] = 0 /\ \A a \in S : g[a] = t[h[a]]
  BY <1>1 DEF Older
<1>4. T = {h[a] : a \in S}
  <2>1. ASSUME NEW a \in T PROVE a \in {h[b] : b \in S}
    <3>1. a + 1 \in S /\ h[a + 1] = a
      BY <1>1
    <3> QED BY <3>1
  <2>2. \A b \in S : h[b] \in T
    BY <1>1
  <2> QED BY <2>1, <2>2
<1>5. \A a, b \in S : h[a] = h[b] => a = b
  BY <1>1
<1>6. IsFiniteSet(S) /\ IsFiniteSet(T) /\ IntOn(t, T) /\ IntOn(g, S)
  BY <1>2, SumOfFacts, FS_RemoveElement DEF IntOn
<1> HIDE DEF g, h
<1>7. SumFunctionOnSet(g, S) = SumFunctionOnSet(t, T)
  BY <1>3, <1>4, <1>5, <1>6, SumReindex
<1>8. SumOf(g) = g[0] + SumFunctionOnSet(g, S)
  BY <1>1, <1>2, SumOfFacts, SumRemove DEF SumOf
<1>9. SumOf(t) = t[last] + SumFunctionOnSet(t, T)
  BY <1>1, SumOfFacts, SumRemove DEF SumOf
<1>10. SumFunctionOnSet(t, T) \in Int /\ t[last] \in Nat
  BY Zenon, <1>1, <1>6, SumUnfold DEF AgeCounts
<1> QED BY <1>2, <1>3, <1>7, <1>8, <1>9, <1>10 DEF g

\* Two windows at most lie in reach, each within the limit.
LEMMA PacedBound ==
    ASSUME NEW r \in RiskState, NEW t \in AgeCounts, NEW n \in Nat, Paced(r, t, n)
    PROVE  SumOf(t) <= 2 * r.limits.max_orders_per_second
<1> DEFINE d == n - r.window_start
<1>1. d \in Int /\ r.limits.max_orders_per_second \in Nat
  BY DEF RiskState, SymbolRiskLimits
<1>2. /\ SumOf(InWindow(t, d)) <= r.limits.max_orders_per_second
      /\ SumOf(Earlier(t, d)) <= r.limits.max_orders_per_second
  BY DEF Paced
<1> HIDE DEF d
<1>3. /\ InWindow(t, d) \in AgeCounts /\ Earlier(t, d) \in AgeCounts
      /\ SumOf(t) = SumOf(InWindow(t, d)) + SumOf(Earlier(t, d))
  BY <1>1, SumSplits
<1>4. SumOf(InWindow(t, d)) \in Int /\ SumOf(Earlier(t, d)) \in Int
  BY <1>3, SumOfFacts
<1> QED BY <1>1, <1>2, <1>3, <1>4

\* set_limits: what was let through before does not count.
LEMMA PacedAfresh ==
    ASSUME NEW r \in RiskState, NEW n \in Nat
    PROVE  Paced(r, NoneTaken, n)
<1>1. \A d \in Int : InWindow(NoneTaken, d) = NoneTaken /\ Earlier(NoneTaken, d) = NoneTaken
  BY DEF InWindow, Earlier, NoneTaken
<1>2. /\ n - r.window_start \in Int /\ r.orders_in_window \in Nat
      /\ r.limits.max_orders_per_second \in Nat
  BY DEF RiskState, SymbolRiskLimits
<1>3. \A a \in Ages : NoneTaken[a] = 0
  BY DEF NoneTaken
<1> QED BY <1>1, <1>2, <1>3, SumOfFacts DEF Paced

\* Time passes: every order gets older by one tick.
LEMMA PacedTick ==
    ASSUME NEW r \in RiskState, NEW t \in AgeCounts, NEW n \in Nat, r.window_start <= n,
           Paced(r, t, n)
    PROVE  Paced(r, Older(t), n + 1)
<1> DEFINE d == n - r.window_start
           e == (n + 1) - r.window_start
           c == r.orders_in_window
           max == r.limits.max_orders_per_second
<1>1. e = d + 1 /\ d \in Nat /\ e \in Nat /\ c \in Nat /\ max \in Nat
  BY DEF RiskState, SymbolRiskLimits
<1>2. /\ SumOf(InWindow(t, d)) <= c /\ SumOf(InWindow(t, d)) <= max
      /\ SumOf(Earlier(t, d)) <= max
      /\ \A a \in Ages : a <= d - kRateLimitWindow => t[a] = 0
  BY DEF Paced
<1> HIDE DEF d, e, c, max
<1>3. \A a \in Ages : a \in Nat /\ (a # 0 => a - 1 \in Ages)
  BY WindowAssumption DEF Ages
<1>4. InWindow(Older(t), e) = Older(InWindow(t, d))
  BY <1>1, <1>3 DEF InWindow, Older
<1>5. Earlier(Older(t), e) = Older(Earlier(t, d))
  BY <1>1, <1>3 DEF Earlier, Older
<1>6. /\ SumOf(Older(InWindow(t, d))) <= SumOf(InWindow(t, d))
      /\ SumOf(Older(Earlier(t, d))) <= SumOf(Earlier(t, d))
      /\ SumOf(InWindow(t, d)) \in Int /\ SumOf(Earlier(t, d)) \in Int
      /\ SumOf(Older(InWindow(t, d))) \in Int /\ SumOf(Older(Earlier(t, d))) \in Int
  <2>1. InWindow(t, d) \in AgeCounts /\ Earlier(t, d) \in AgeCounts
    BY <1>1, SumSplits
  <2>2. /\ Older(InWindow(t, d)) \in AgeCounts
        /\ SumOf(Older(InWindow(t, d))) <= SumOf(InWindow(t, d))
    BY <2>1, SumOlder
  <2>3. /\ Older(Earlier(t, d)) \in AgeCounts
        /\ SumOf(Older(Earlier(t, d))) <= SumOf(Earlier(t, d))
    BY <2>1, SumOlder
  <2> QED BY <2>1, <2>2, <2>3, SumOfFacts
<1>7. ASSUME NEW a \in Ages, a <= e - kRateLimitWindow PROVE Older(t)[a] = 0
  <2>1. a # 0 => a - 1 \in Ages /\ a - 1 <= d - kRateLimitWindow
    BY <1>1, <1>3, <1>7, WindowAssumption
  <2> QED BY <1>2, <2>1 DEF Older
<1>8. /\ SumOf(InWindow(Older(t), e)) <= c /\ SumOf(InWindow(Older(t), e)) <= max
      /\ SumOf(Earlier(Older(t), e)) <= max
  BY <1>1, <1>2, <1>4, <1>5, <1>6
<1> QED BY <1>7, <1>8 DEF Paced, e, c, max

\* check_new_order moves the window on only when nothing of it can be left.
LEMMA PacedWindow ==
    ASSUME NEW r \in RiskState, NEW t \in AgeCounts, now \in Nat, r.window_start <= now,
           Paced(r, t, now)
    PROVE  Paced(Window(r), t, now)
<1>1. CASE ~(now - r.window_start >= kRateLimitWindow)
  BY <1>1 DEF Window
<1>2. CASE now - r.window_start >= kRateLimitWindow
  <2> DEFINE d == now - r.window_start
             a1 == [r EXCEPT !.window_start = now]
             w == [a1 EXCEPT !.orders_in_window = 0]
             max == r.limits.max_orders_per_second
  <2>1. w.window_start = now /\ w.orders_in_window = 0 /\ w.limits = r.limits
    BY DEF RiskState
  <2>2. Window(r) = w
    BY <1>2 DEF Window
  <2>3. d \in Nat /\ d >= kRateLimitWindow /\ max \in Nat
    BY <1>2 DEF RiskState, SymbolRiskLimits
  <2>4. /\ SumOf(InWindow(t, d)) <= max
        /\ \A a \in Ages : a <= d - kRateLimitWindow => t[a] = 0
    BY DEF Paced
  <2> HIDE DEF d, w, max
  <2>5. \A a \in Ages : a \in Nat /\ a <= d /\ (a <= 0 => a = 0)
                        /\ ~(a <= 0 - kRateLimitWindow)
    BY <2>3, WindowAssumption DEF Ages
  <2>6. t[0] = 0
    BY <2>3, <2>4, SumOfFacts, WindowAssumption
  <2>7. InWindow(t, d) = t
    BY <2>5 DEF InWindow, AgeCounts
  <2>8. InWindow(t, 0) = NoneTaken
    BY <2>5, <2>6 DEF InWindow, NoneTaken
  <2>9. Earlier(t, 0) = t
    BY <2>5, <2>6 DEF Earlier, AgeCounts
  <2>10. now - w.window_start = 0
    BY <2>1
  <2>11. /\ SumOf(InWindow(t, 0)) <= 0 /\ SumOf(InWindow(t, 0)) <= max
         /\ SumOf(Earlier(t, 0)) <= max
    BY <2>3, <2>4, <2>7, <2>8, <2>9, SumOfFacts
  <2>12. Paced(w, t, now)
    BY <2>1, <2>5, <2>10, <2>11 DEF Paced, max
  <2> QED BY <2>2, <2>12
<1> QED BY <1>1, <1>2

\* An order let through is counted.
LEMMA PacedCount ==
    ASSUME NEW r \in RiskState, NEW t \in AgeCounts, NEW n \in Nat, r.window_start <= n,
           n - r.window_start < kRateLimitWindow, Paced(r, t, n),
           r.orders_in_window < r.limits.max_orders_per_second
    PROVE  Paced([r EXCEPT !.orders_in_window = @ + 1], [t EXCEPT ![0] = @ + 1], n)
<1> DEFINE d == n - r.window_start
           c == r.orders_in_window
           max == r.limits.max_orders_per_second
           r1 == [r EXCEPT !.orders_in_window = @ + 1]
           t1 == [t EXCEPT ![0] = @ + 1]
<1>1. d \in Nat /\ d < kRateLimitWindow /\ c \in Nat /\ max \in Nat /\ c < max
  BY DEF RiskState, SymbolRiskLimits
<1>2. r1.window_start = r.window_start /\ r1.orders_in_window = c + 1 /\ r1.limits = r.limits
  BY DEF RiskState
<1>3. SumOf(InWindow(t, d)) <= c /\ SumOf(Earlier(t, d)) <= max
  BY DEF Paced
<1>4. \A a \in Ages : a \in Nat
  BY DEF Ages
<1>5. /\ t1 \in AgeCounts /\ t1[0] = t[0] + 1 /\ t[0] \in Nat
      /\ \A a \in Ages \ {0} : t1[a] = t[a]
  BY SumOfFacts DEF AgeCounts
<1> HIDE DEF d, c, max, r1, t1
<1> DEFINE f == InWindow(t, d)
           f1 == InWindow(t1, d)
<1>6. Earlier(t1, d) = Earlier(t, d)
  BY <1>1, <1>4, <1>5 DEF Earlier
<1>7. /\ f1[0] = f[0] + 1 /\ f1[0] \in Int /\ f[0] \in Int
      /\ \A a \in Ages \ {0} : f1[a] = f[a]
  BY <1>1, <1>5, SumOfFacts DEF InWindow
<1>8. f \in AgeCounts
  BY <1>1, SumSplits
<1> HIDE DEF f, f1
<1>9. SumOf(f1) = SumOf(f) + (f1[0] - f[0])
  BY <1>7, <1>8, SumOfFacts, SumChange DEF SumOf
<1>10. SumOf(f) \in Int
  BY <1>8, SumOfFacts
<1>11. SumOf(f1) <= c + 1 /\ SumOf(f1) <= max
  BY <1>1, <1>3, <1>7, <1>9, <1>10 DEF f
<1>12. \A a \in Ages : ~(a <= d - kRateLimitWindow)
  BY <1>1, <1>4, WindowAssumption
<1>13. Paced(r1, t1, n)
  BY <1>2, <1>3, <1>6, <1>11, <1>12 DEF Paced, d, max, f1
<1> QED BY <1>13 DEF r1, t1

\* The window as check_new_order counts in it holds the present.
LEMMA WindowFacts ==
    ASSUME NEW r \in RiskState, now \in Nat, r.window_start <= now
    PROVE  /\ Window(r) \in RiskState /\ Window(r).limits = r.limits
           /\ Window(r).window_start <= now
           /\ now - Window(r).window_start < kRateLimitWindow
<1> DEFINE a == [r EXCEPT !.window_start = now]
           b == [a EXCEPT !.orders_in_window = 0]
<1>1. a \in RiskState /\ a.limits = r.limits /\ a.window_start = now
  BY DEF RiskState
<1> HIDE DEF a
<1>2. b \in RiskState /\ b.limits = r.limits /\ b.window_start = now
  BY <1>1 DEF RiskState
<1>3. r.window_start \in Nat
  BY DEF RiskState
<1>4. CASE now - r.window_start >= kRateLimitWindow
  <2>1. Window(r) = b
    BY <1>4 DEF Window, a
  <2> HIDE DEF b
  <2> QED BY <1>2, <2>1, WindowAssumption
<1>5. CASE ~(now - r.window_start >= kRateLimitWindow)
  <2>1. Window(r) = r
    BY <1>5 DEF Window
  <2> QED BY <1>3, <1>5, <2>1, WindowAssumption
<1> QED BY <1>4, <1>5
=============================================================================
