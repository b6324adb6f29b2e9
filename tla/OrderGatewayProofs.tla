------------------------- MODULE OrderGatewayProofs -------------------------
(***************************************************************************)
(* For any number of producers and orders and any lane capacity: the       *)
(* matching thread leaves its loop with every lane drained and every order *)
(* counted, and no lane waits longer than two sweeps of the others.        *)
(***************************************************************************)
EXTENDS OrderGateway, SharedLemmas

\* Time limits of the provers, for the larger steps.
USE SMTT(30), ZenonT(30)

\* A lane whose two ends are in step and that holds no more than it should.
LaneOk(r) == InStep(r) /\ r.pushed <= kOrdersPerProducer

\* The matching thread has seen all that lane l will ever hold.
AllSeen(l) == lanes[l].c_view = kOrdersPerProducer

\* Producers leave once, with all their orders pushed.  The matching thread
\* looks at the lanes only after it has seen all of them leave, and goes on
\* to the next lane only past one it has emptied.
DrainInv ==
    /\ DOMAIN lanes = Lanes /\ \A l \in Lanes : LaneOk(lanes[l])
    /\ left \in Seq(Lanes)
    /\ \A j \in 1..Len(left) : lanes[left[j]].pushed = kOrdersPerProducer
    /\ \A j, k \in 1..Len(left) : left[j] = left[k] => j = k
    /\ m_pc \in {"remaining", "lanes", "sweep", "join", "exit"}
    /\ i \in Lanes
    /\ m_pc = "lanes" =>
        /\ \A l \in Lanes : AllSeen(l)
        /\ \A l \in 0 .. i - 1 : lanes[l].popped = kOrdersPerProducer
    /\ m_pc \in {"join", "exit"} => Drained

-----------------------------------------------------------------------------
\* As many producers gone as there are lanes: every lane's producer is gone.
LEMMA EveryoneGone ==
    ASSUME DrainInv, NEW k \in Nat, kProducers <= k, k <= Len(left), NEW l \in Lanes
    PROVE  Gone(l, k)
<1> DEFINE n == kProducers
           f == [j \in 1..n |-> left[j]]
<1>1. n \in Nat /\ 1 <= n /\ Len(left) \in Nat /\ left \in Seq(Lanes)
  BY ProducersAssumption DEF DrainInv
<1>2. \A j \in 1..n : j \in 1..Len(left) /\ left[j] \in Lanes
  BY <1>1
<1>3. f \in Injection(1..n, Lanes)
  BY <1>2 DEF DrainInv, Injection, IsInjective
<1>4. /\ IsFiniteSet(Lanes) /\ Cardinality(Lanes) = n /\ Cardinality(1..n) = n
  BY <1>1, FS_Interval DEF Lanes
<1>5. f \in Surjection(1..n, Lanes)
  BY <1>3, <1>4, FS_Injection
<1>6. \E j \in 1..n : f[j] = l
  BY Zenon, <1>5 DEF Surjection
<1> QED
  BY <1>1, <1>6 DEF Gone

\* The demo starts with empty lanes.
LEMMA InitDrain == Init => DrainInv
<1> SUFFICES ASSUME Init PROVE DrainInv
  OBVIOUS
<1>1. LaneOk(NewRing)
  BY FreshLoad, OrdersAssumption DEF NewRing, LaneOk
<1>2. lanes = [l \in Lanes |-> NewRing] /\ left = <<>> /\ m_pc = "remaining" /\ i = 0
  BY DEF Init
<1>3. i \in Lanes
  BY <1>2, ProducersAssumption DEF Lanes
<1> QED
  BY <1>1, <1>2, <1>3 DEF DrainInv

\* A producer whose lane is complete pushes no more, so nothing the
\* matching thread has settled is disturbed.
LEMMA SubmitKeepsDrain ==
    ASSUME DrainInv, NEW l \in Lanes, NEW k \in PushViews(lanes[l]), Submit(l, k)
    PROVE  DrainInv'
<1> DEFINE r == try_push(lanes[l], k, LaneCapacity - 1)
<1>1. /\ lanes[l].pushed < kOrdersPerProducer /\ lanes' = [lanes EXCEPT ![l] = r]
      /\ left' = left /\ m_pc' = m_pc /\ i' = i
  BY DEF Submit, matcher
<1>2. LaneOk(r) /\ r.popped = lanes[l].popped /\ r.c_view = lanes[l].c_view
  <2>1. InStep(lanes[l]) /\ lanes[l].pushed \in Nat
    BY DEF DrainInv, LaneOk, InStep, Ring
  <2>2. /\ InStep(r) /\ r.popped = lanes[l].popped /\ r.c_view = lanes[l].c_view
        /\ r.pushed = lanes[l].pushed \/ r.pushed = lanes[l].pushed + 1
    BY <2>1, PushFacts
  <2> QED
    BY <1>1, <2>1, <2>2, OrdersAssumption DEF LaneOk
<1> HIDE DEF r
<1>3. /\ DOMAIN lanes' = Lanes
      /\ \A j \in Lanes : /\ LaneOk(lanes'[j])
                          /\ lanes'[j].popped = lanes[j].popped
                          /\ lanes'[j].c_view = lanes[j].c_view
                          /\ j # l => lanes'[j] = lanes[j]
  BY <1>1, <1>2 DEF DrainInv
<1>4. lanes[l].pushed # kOrdersPerProducer
  BY <1>1, OrdersAssumption DEF DrainInv, LaneOk, InStep, Ring
<1>5. \A j \in 1..Len(left) : left[j] \in Lanes /\ left[j] # l
  BY <1>4 DEF DrainInv
<1>6. \A j \in 1..Len(left') : lanes'[left'[j]].pushed = kOrdersPerProducer
  BY <1>1, <1>3, <1>5 DEF DrainInv
<1>7. m_pc' = "lanes" => /\ \A j \in Lanes : AllSeen(j)'
                         /\ \A j \in 0 .. i' - 1 : lanes'[j].popped = kOrdersPerProducer
  <2> SUFFICES ASSUME m_pc = "lanes" PROVE FALSE
    BY <1>1
  <2>1. AllSeen(l) /\ InStep(lanes[l])
    BY DEF DrainInv, LaneOk
  <2> QED
    BY <1>1, <2>1, OrdersAssumption DEF AllSeen, InStep, Ring
<1>8. m_pc' \in {"join", "exit"} => Drained'
  BY <1>1, <1>3 DEF DrainInv, Drained
<1> QED
  BY <1>1, <1>3, <1>6, <1>7, <1>8 DEF DrainInv

\* A producer leaves when it has pushed everything.
LEMMA LeaveKeepsDrain ==
    ASSUME DrainInv, NEW l \in Lanes, Leave(l)
    PROVE  DrainInv'
<1>1. /\ lanes[l].pushed = kOrdersPerProducer /\ ~Gone(l, Len(left))
      /\ left' = Append(left, l) /\ lanes' = lanes /\ m_pc' = m_pc /\ i' = i
  BY DEF Leave, matcher
<1>2. left \in Seq(Lanes)
  BY DEF DrainInv
<1>3. /\ left' \in Seq(Lanes) /\ Len(left) \in Nat /\ Len(left') = Len(left) + 1
      /\ \A j \in 1..Len(left) : left'[j] = left[j]
      /\ left'[Len(left) + 1] = l
  BY <1>1, <1>2
<1>4. \A j \in 1..Len(left') : j \in 1..Len(left) \/ j = Len(left) + 1
  BY <1>3
<1>5. \A j \in 1..Len(left) : left[j] # l
  BY <1>1 DEF Gone
<1>6. \A j \in 1..Len(left') : lanes'[left'[j]].pushed = kOrdersPerProducer
  BY <1>1, <1>3, <1>4 DEF DrainInv
<1>7. \A j, k \in 1..Len(left') : left'[j] = left'[k] => j = k
  BY <1>3, <1>4, <1>5 DEF DrainInv
<1> QED
  BY <1>1, <1>3, <1>6, <1>7 DEF DrainInv, AllSeen, Drained

\* The matching thread reads producers_remaining.
LEMMA LoadRemainingKeepsDrain ==
    ASSUME DrainInv, NEW k \in seen .. Len(left), seen \in Nat, LoadRemaining(k)
    PROVE  DrainInv'
<1>1. /\ lanes' = [l \in Lanes |-> IF Gone(l, k)
                     THEN PopLoad(lanes[l], lanes[l].pushed) ELSE lanes[l]]
      /\ m_pc' = IF k < kProducers THEN "sweep" ELSE "lanes"
      /\ i' = 0 /\ left' = left
  BY DEF LoadRemaining
<1>2. left \in Seq(Lanes) /\ Len(left) \in Nat /\ k \in Nat /\ k <= Len(left)
  BY DEF DrainInv
<1>3. \A l \in Lanes : /\ InStep(lanes[l]) /\ lanes[l].pushed \in PopViews(lanes[l])
  BY FreshLoad DEF DrainInv, LaneOk
<1>4. \A l \in Lanes : /\ LaneOk(lanes'[l]) /\ lanes'[l].pushed = lanes[l].pushed
                       /\ Gone(l, k) => lanes'[l].c_view = lanes[l].pushed
  BY <1>1, <1>3, PopFacts DEF DrainInv, LaneOk
<1>5. \A j \in 1..Len(left') : lanes'[left'[j]].pushed = kOrdersPerProducer
  BY <1>1, <1>2, <1>4 DEF DrainInv
<1>6. m_pc' = "lanes" => \A l \in Lanes : AllSeen(l)'
  <2> SUFFICES ASSUME m_pc' = "lanes", NEW l \in Lanes PROVE lanes'[l].c_view = kOrdersPerProducer
    BY DEF AllSeen
  <2>1. kProducers <= k
    BY <1>1, <1>2, ProducersAssumption
  <2>2. Gone(l, k)
    BY <1>2, <2>1, EveryoneGone
  <2>3. PICK j \in 1..k : left[j] = l
    BY <2>2 DEF Gone
  <2>4. lanes[l].pushed = kOrdersPerProducer
    BY <1>2, <2>3 DEF DrainInv
  <2> QED
    BY <1>4, <2>2, <2>4
<1>7. i' \in Lanes /\ 0 .. i' - 1 = {}
  BY <1>1, ProducersAssumption DEF Lanes
<1> QED
  BY <1>1, <1>4, <1>5, <1>6, <1>7 DEF DrainInv

\* all_lanes_empty looks at one lane.
LEMMA CheckLaneKeepsDrain ==
    ASSUME DrainInv, NEW k \in PopViews(lanes[i]), CheckLane(k)
    PROVE  DrainInv'
<1>1. /\ m_pc = "lanes" /\ lanes' = [lanes EXCEPT ![i] = PopLoad(@, k)]
      /\ left' = left
      /\ \/ m_pc' = "sweep" /\ i' = 0
         \/ /\ SeesEmpty(lanes[i], k)
            /\ \/ i + 1 < kProducers /\ m_pc' = "lanes" /\ i' = i + 1
               \/ i + 1 = kProducers /\ m_pc' = "join" /\ i' = 0
  BY DEF CheckLane
<1>2. i \in Lanes /\ InStep(lanes[i]) /\ lanes[i].c_view = kOrdersPerProducer
      /\ DOMAIN lanes = Lanes /\ lanes[i].pushed <= kOrdersPerProducer
  BY <1>1 DEF DrainInv, AllSeen, LaneOk
<1>3. k = kOrdersPerProducer
  BY <1>2, OrdersAssumption DEF InStep, Ring, PopViews
<1>4. \A l \in Lanes : /\ LaneOk(lanes'[l])
                       /\ lanes'[l].pushed = lanes[l].pushed
                       /\ lanes'[l].popped = lanes[l].popped
                       /\ lanes'[l].c_view = kOrdersPerProducer
  BY <1>1, <1>2, <1>3, PopFacts DEF DrainInv, AllSeen, LaneOk
<1>5. \A j \in 1..Len(left') : lanes'[left'[j]].pushed = kOrdersPerProducer
  BY <1>1, <1>4 DEF DrainInv
<1>6. SeesEmpty(lanes[i], k) => \A l \in 0 .. i : lanes'[l].popped = kOrdersPerProducer
  <2> SUFFICES ASSUME SeesEmpty(lanes[i], k), NEW l \in 0 .. i
               PROVE  lanes'[l].popped = kOrdersPerProducer
    OBVIOUS
  <2>1. l \in Lanes /\ (l = i \/ l \in 0 .. i - 1)
    BY <1>2, ProducersAssumption DEF Lanes
  <2> QED
    BY <1>1, <1>3, <1>4, <2>1 DEF SeesEmpty, DrainInv
<1>7. i' \in Lanes
  BY <1>1, <1>2, ProducersAssumption DEF Lanes
<1>8. m_pc' = "lanes" => \A l \in 0 .. i' - 1 : lanes'[l].popped = kOrdersPerProducer
  BY <1>1, <1>2, <1>6, ProducersAssumption DEF Lanes
<1>9. m_pc' \in {"join", "exit"} => Drained'
  BY <1>1, <1>2, <1>6, ProducersAssumption DEF Lanes, Drained
<1> QED
  BY <1>1, <1>2, <1>4, <1>5, <1>7, <1>8, <1>9 DEF DrainInv, AllSeen

\* poll_once takes at most one order from a lane.
LEMMA PollLaneKeepsDrain ==
    ASSUME DrainInv, NEW l \in Lanes, NEW k \in PopViews(lanes[l]), PollLane(l, k)
    PROVE  DrainInv'
<1>1. /\ lanes' = [lanes EXCEPT ![l] = try_pop(@, k)] /\ left' = left
      /\ \/ i + 1 < kProducers /\ i' = i + 1 /\ m_pc' = "sweep"
         \/ m_pc' = "remaining" /\ i' = 0
  BY DEF PollLane
<1>2. \A j \in Lanes : LaneOk(lanes'[j]) /\ lanes'[j].pushed = lanes[j].pushed
  BY <1>1, PopFacts DEF DrainInv, LaneOk
<1>3. \A j \in 1..Len(left') : lanes'[left'[j]].pushed = kOrdersPerProducer
  BY <1>1, <1>2 DEF DrainInv
<1>4. i' \in Lanes
  BY <1>1, ProducersAssumption DEF Lanes, DrainInv
<1> QED
  BY <1>1, <1>2, <1>3, <1>4 DEF DrainInv

\* Every step keeps the invariant.
LEMMA NextDrain == DrainInv /\ seen \in Nat /\ [Next]_vars => DrainInv' /\ seen' \in Nat
<1> SUFFICES ASSUME DrainInv, seen \in Nat, [Next]_vars PROVE DrainInv' /\ seen' \in Nat
  OBVIOUS
<1>1. CASE \E l \in Lanes : \E k \in PushViews(lanes[l]) : Submit(l, k)
  BY Zenon, <1>1, SubmitKeepsDrain DEF Submit, matcher
<1>2. CASE \E l \in Lanes : Leave(l)
  BY <1>2, LeaveKeepsDrain DEF Leave, matcher
<1>3. CASE \E k \in seen .. Len(left) : LoadRemaining(k)
  <2>1. PICK k \in seen .. Len(left) : LoadRemaining(k)
    BY <1>3
  <2>2. k \in Nat
    BY DEF DrainInv
  <2> QED
    BY <2>1, <2>2, LoadRemainingKeepsDrain DEF LoadRemaining
<1>4. CASE \E k \in PopViews(lanes[i]) : CheckLane(k)
  BY Zenon, <1>4, CheckLaneKeepsDrain DEF CheckLane
<1>5. CASE \E l \in Lanes : \E k \in PopViews(lanes[l]) : PollLane(l, k)
  BY Zenon, <1>5, PollLaneKeepsDrain DEF PollLane
<1>6. CASE Join
  BY <1>6 DEF Join, DrainInv, AllSeen, Drained
<1>7. CASE UNCHANGED vars
  BY <1>7 DEF vars, matcher, DrainInv, AllSeen, Drained
<1> QED
  BY <1>1, <1>2, <1>3, <1>4, <1>5, <1>6, <1>7 DEF Next, Matching, Exited

-----------------------------------------------------------------------------
Popped == [l \in Lanes |-> lanes[l].popped]

\* What has been handed to the handler is what has left the lanes.
CountInv == processed = SumFunctionOnSet(Popped, Lanes)

\* Only poll_once takes orders out of a lane: one at most, counted once.
LEMMA PoppedMoves ==
    ASSUME DrainInv, processed \in Int, [Next]_vars
    PROVE  \/ processed' = processed /\ \A l \in Lanes : Popped'[l] = Popped[l]
           \/ /\ processed' = processed + 1
              /\ \E l \in Lanes : /\ Popped'[l] = Popped[l] + 1
                                  /\ \A j \in Lanes \ {l} : Popped'[j] = Popped[j]
<1>1. DOMAIN lanes = Lanes /\ i \in Lanes /\ \A l \in Lanes : InStep(lanes[l])
  BY DEF DrainInv, LaneOk
<1>2. CASE \E l \in Lanes : \E k \in PushViews(lanes[l]) : Submit(l, k)
  <2>1. PICK l \in Lanes : \E k \in PushViews(lanes[l]) : Submit(l, k)
    BY <1>2
  <2>2. PICK k \in PushViews(lanes[l]) : Submit(l, k)
    BY <2>1
  <2> DEFINE r == try_push(lanes[l], k, LaneCapacity - 1)
  <2>3. lanes' = [lanes EXCEPT ![l] = r] /\ processed' = processed
    BY <2>2 DEF Submit, matcher
  <2>4. r.popped = lanes[l].popped
    BY <1>1, PushFacts
  <2> HIDE DEF r
  <2> QED BY <1>1, <2>3, <2>4 DEF Popped
<1>3. CASE \E k \in seen .. Len(left) : LoadRemaining(k)
  <2>1. PICK k \in seen .. Len(left) : LoadRemaining(k)
    BY <1>3
  <2>2. \A l \in Lanes : PopLoad(lanes[l], lanes[l].pushed).popped = lanes[l].popped
    BY <1>1, FreshLoad, PopFacts
  <2> QED BY <2>1, <2>2 DEF LoadRemaining, Popped
<1>4. CASE \E k \in PopViews(lanes[i]) : CheckLane(k)
  <2>1. PICK k \in PopViews(lanes[i]) : CheckLane(k)
    BY <1>4
  <2>2. lanes' = [lanes EXCEPT ![i] = PopLoad(@, k)] /\ processed' = processed
    BY <2>1 DEF CheckLane
  <2>3. PopLoad(lanes[i], k).popped = lanes[i].popped
    BY <1>1, PopFacts
  <2> QED BY <1>1, <2>2, <2>3 DEF Popped
<1>5. CASE \E l \in Lanes : \E k \in PopViews(lanes[l]) : PollLane(l, k)
  <2>1. PICK l \in Lanes : \E k \in PopViews(lanes[l]) : PollLane(l, k)
    BY <1>5
  <2>2. PICK k \in PopViews(lanes[l]) : PollLane(l, k)
    BY <2>1
  <2> DEFINE r == try_pop(lanes[l], k)
  <2>3. /\ lanes' = [lanes EXCEPT ![l] = r]
        /\ processed' = processed + (IF SeesEmpty(lanes[l], k) THEN 0 ELSE 1)
    BY <2>2 DEF PollLane
  <2>4. r.popped = IF SeesEmpty(lanes[l], k) THEN lanes[l].popped ELSE lanes[l].popped + 1
    BY <1>1, PopFacts
  <2> HIDE DEF r
  <2>5. /\ Popped'[l] = r.popped /\ Popped[l] = lanes[l].popped
        /\ \A j \in Lanes \ {l} : Popped'[j] = Popped[j]
    BY <1>1, <2>3 DEF Popped
  <2>6. CASE SeesEmpty(lanes[l], k)
    BY <2>3, <2>4, <2>5, <2>6
  <2>7. CASE ~SeesEmpty(lanes[l], k)
    BY <2>3, <2>4, <2>5, <2>7
  <2> QED BY <2>6, <2>7
<1>6. CASE (\E l \in Lanes : Leave(l)) \/ Join \/ UNCHANGED vars
  BY <1>6 DEF Leave, Join, vars, matcher, Popped
<1> QED
  BY <1>2, <1>3, <1>4, <1>5, <1>6 DEF Next, Matching, Exited

\* Every step counts the orders it handles.
LEMMA NextCount == DrainInv /\ DrainInv' /\ CountInv /\ [Next]_vars => CountInv'
<1> SUFFICES ASSUME DrainInv, DrainInv', CountInv, [Next]_vars PROVE CountInv'
  OBVIOUS
<1>1. IsFiniteSet(Lanes)
  BY FS_Interval, ProducersAssumption DEF Lanes
<1>2. IntOn(Popped, Lanes) /\ IntOn(Popped', Lanes)
  <2>1. \A l \in Lanes : lanes[l].popped \in Nat /\ lanes'[l].popped \in Nat
    BY DEF DrainInv, LaneOk, InStep, Ring
  <2> QED BY <2>1 DEF IntOn, Popped
<1>0. processed \in Int
  BY Zenon, <1>1, <1>2, SumUnfold DEF CountInv
<1>3. CASE processed' = processed /\ \A l \in Lanes : Popped'[l] = Popped[l]
  BY <1>1, <1>2, <1>3, SumSame DEF CountInv
<1>4. CASE /\ processed' = processed + 1
           /\ \E l \in Lanes : /\ Popped'[l] = Popped[l] + 1
                               /\ \A j \in Lanes \ {l} : Popped'[j] = Popped[j]
  <2>1. PICK l \in Lanes : /\ Popped'[l] = Popped[l] + 1
                           /\ \A j \in Lanes \ {l} : Popped'[j] = Popped[j]
    BY <1>4
  <2>2. Popped[l] \in Int /\ Popped'[l] \in Int
    BY <1>2 DEF IntOn
  <2>3. SumFunctionOnSet(Popped', Lanes) =
          SumFunctionOnSet(Popped, Lanes) + (Popped'[l] - Popped[l])
    BY <1>1, <1>2, <2>1, <2>2, SumChange
  <2> QED BY <1>4, <2>1, <2>2, <2>3 DEF CountInv
<1> QED
  BY <1>0, <1>3, <1>4, PoppedMoves

\* Whatever the producers, the lanes and the staleness of the loads: when
\* the matching thread leaves its loop no order is left in any lane, and the
\* number of orders handled is the number submitted.
THEOREM EveryOrderHandled == Spec => []NothingLost
<1> DEFINE Inv == DrainInv /\ seen \in Nat /\ CountInv
<1>1. IsFiniteSet(Lanes) /\ Cardinality(Lanes) = kProducers
  BY FS_Interval, ProducersAssumption DEF Lanes
<1>2. Init => Inv
  <2> SUFFICES ASSUME Init PROVE CountInv
    BY InitDrain DEF Init
  <2>1. \A l \in Lanes : Popped[l] = 0
    BY DEF Init, Popped, NewRing
  <2>2. SumFunctionOnSet(Popped, Lanes) = 0 * kProducers
    BY <1>1, <2>1, SumConstant
  <2> QED BY <2>2, ProducersAssumption DEF Init, CountInv
<1>3. Inv /\ [Next]_vars => Inv'
  BY NextDrain, NextCount
<1>4. Inv => NothingLost
  <2> SUFFICES ASSUME Inv, m_pc \in {"join", "exit"}
               PROVE  Drained /\ processed = kProducers * kOrdersPerProducer
    BY DEF NothingLost
  <2>1. Drained
    BY DEF DrainInv
  <2>2. \A l \in Lanes : Popped[l] = kOrdersPerProducer
    BY <2>1 DEF Drained, Popped
  <2>3. processed = kOrdersPerProducer * kProducers
    BY <1>1, <2>2, SumConstant, OrdersAssumption DEF CountInv
  <2> QED BY <2>1, <2>3, OrdersAssumption, ProducersAssumption
<1> HIDE DEF Inv
<1> QED
  BY <1>2, <1>3, <1>4, PTL DEF Spec

-----------------------------------------------------------------------------
\* How many turns of a sweep that starts at next_lane_ come before lane l's,
\* and how many have been taken.
Offset(l) == IF l >= next_lane_ THEN l - next_lane_ ELSE l - next_lane_ + kProducers
Turns == IF m_pc = "sweep" THEN i ELSE 0

\* A lane that has had its turn in this sweep has waited for the turns since;
\* one that has not also for those that followed its turn in the last sweep,
\* which started one lane earlier.
WaitInv ==
    /\ next_lane_ \in Lanes /\ i \in Lanes
    /\ waited \in [Lanes -> Nat]
    /\ \A l \in Lanes :
        /\ Offset(l) < Turns => waited[l] <= Turns - Offset(l) - 1
        /\ Offset(l) >= Turns =>
             waited[l] <= Turns + (IF Offset(l) = kProducers - 1 THEN kProducers - 1
                                   ELSE kProducers - 2 - Offset(l))

\* Lane l has the turn exactly when its offset is i.
LEMMA OffsetFacts ==
    ASSUME next_lane_ \in Lanes, NEW t \in Lanes, NEW l \in Lanes
    PROVE  /\ Offset(l) \in Lanes
           /\ Cyclic(next_lane_, t) \in Lanes
           /\ l = Cyclic(next_lane_, t) <=> Offset(l) = t
<1>1. kProducers \in Nat /\ next_lane_ \in Nat /\ t \in Nat /\ l \in Nat
      /\ next_lane_ < kProducers /\ t < kProducers /\ l < kProducers
  BY ProducersAssumption DEF Lanes
<1> DEFINE d == Offset(l)
           c == Cyclic(next_lane_, t)
<1>2. \/ d = l - next_lane_ /\ l >= next_lane_
      \/ d = l - next_lane_ + kProducers /\ l < next_lane_
  BY <1>1 DEF Offset
<1>3. \/ c = next_lane_ + t /\ next_lane_ + t < kProducers
      \/ c = next_lane_ + t - kProducers /\ next_lane_ + t >= kProducers
  BY <1>1 DEF Cyclic
<1> HIDE DEF d, c
<1>4. d \in 0 .. kProducers - 1 /\ c \in 0 .. kProducers - 1 /\ (l = c <=> d = t)
  BY <1>1, <1>2, <1>3
<1> QED
  BY <1>4 DEF d, c, Lanes

\* A lane's turn ends its wait and adds at most one order to the others'.
LEMMA PollLaneKeepsWait ==
    ASSUME WaitInv, NEW l \in Lanes, NEW k, PollLane(l, k)
    PROVE  WaitInv'
<1> DEFINE n == kProducers
           drained == IF SeesEmpty(lanes[l], k) THEN 0 ELSE 1
<1>1. /\ m_pc = "sweep" /\ l = Cyclic(next_lane_, i)
      /\ waited' = [j \in Lanes |-> IF j = l THEN 0 ELSE waited[j] + drained]
  BY DEF PollLane
<1>2. drained \in {0, 1}
  OBVIOUS
<1> HIDE DEF drained
<1>3. n \in Nat /\ 1 <= n /\ i \in Nat /\ i < n /\ next_lane_ \in Nat /\ next_lane_ < n
  BY ProducersAssumption DEF WaitInv, Lanes
<1>4. waited' \in [Lanes -> Nat]
  BY <1>1, <1>2 DEF WaitInv
<1>5. ASSUME NEW j \in Lanes
      PROVE  /\ Offset(j) \in Nat /\ Offset(j) < n /\ waited[j] \in Nat
             /\ j = l <=> Offset(j) = i
             /\ Offset(j) < i => waited[j] <= i - Offset(j) - 1
             /\ Offset(j) > i /\ Offset(j) # n - 1 => waited[j] <= i + n - 2 - Offset(j)
             /\ Offset(j) > i /\ Offset(j) = n - 1 => waited[j] <= i + n - 1
             /\ waited'[j] = IF j = l THEN 0 ELSE waited[j] + drained
  <2>1. Offset(j) \in Lanes /\ (j = l <=> Offset(j) = i)
    BY <1>1, OffsetFacts DEF WaitInv
  <2>2. /\ Offset(j) < i => waited[j] <= i - Offset(j) - 1
        /\ Offset(j) >= i => waited[j] <= i + (IF Offset(j) = n - 1 THEN n - 1
                                               ELSE n - 2 - Offset(j))
    BY <1>1 DEF WaitInv, Turns
  <2>3. Offset(j) \in Nat /\ Offset(j) < n /\ waited[j] \in Nat
    BY <1>3, <2>1 DEF Lanes, WaitInv
  <2> QED
    BY <1>1, <1>3, <2>1, <2>2, <2>3
<1>6. CASE i + 1 < n
  <2>1. i' = i + 1 /\ m_pc' = "sweep" /\ next_lane_' = next_lane_
    BY <1>1, <1>3, <1>6 DEF PollLane
  <2>2. Turns' = i + 1
    BY <2>1 DEF Turns
  <2>3. ASSUME NEW j \in Lanes
        PROVE  /\ Offset(j)' < Turns' => waited'[j] <= Turns' - Offset(j)' - 1
               /\ Offset(j)' >= Turns' =>
                    waited'[j] <= Turns' + (IF Offset(j)' = n - 1 THEN n - 1
                                            ELSE n - 2 - Offset(j)')
    <3>1. Offset(j)' = Offset(j)
      BY <2>1 DEF Offset
    <3>2. CASE Offset(j) = i
      BY <1>3, <1>5, <2>2, <3>1, <3>2
    <3>3. CASE Offset(j) < i
      BY <1>2, <1>3, <1>5, <2>2, <3>1, <3>3
    <3>4. CASE Offset(j) > i
      BY <1>2, <1>3, <1>5, <2>2, <3>1, <3>4
    <3> QED
      BY <1>3, <1>5, <3>2, <3>3, <3>4
  <2>4. i' \in Lanes /\ next_lane_' \in Lanes
    BY <1>3, <1>6, <2>1 DEF Lanes, WaitInv
  <2> QED
    BY <1>4, <2>3, <2>4 DEF WaitInv
<1>7. CASE i + 1 = n
  <2>1. i' = 0 /\ m_pc' = "remaining" /\ next_lane_' = Cyclic(next_lane_, 1)
    BY <1>1, <1>3, <1>7 DEF PollLane
  <2>2. Turns' = 0
    BY <2>1 DEF Turns
  <2>3. /\ next_lane_' \in Lanes
        /\ next_lane_' = IF next_lane_ + 1 = n THEN 0 ELSE next_lane_ + 1
    BY <1>3, <2>1 DEF Cyclic, Lanes
  <2>4. ASSUME NEW j \in Lanes
        PROVE  /\ Offset(j)' \in Nat
               /\ waited'[j] <= (IF Offset(j)' = n - 1 THEN n - 1 ELSE n - 2 - Offset(j)')
    <3>1. Offset(j)' = IF Offset(j) = 0 THEN n - 1 ELSE Offset(j) - 1
      <4>1. j \in Nat /\ j < n
        BY <1>3 DEF Lanes
      <4> QED
        BY <1>3, <2>3, <4>1 DEF Offset
    <3>2. CASE Offset(j) = i
      BY <1>3, <1>5, <1>7, <3>1, <3>2
    <3>3. CASE Offset(j) < i
      BY <1>2, <1>3, <1>5, <1>7, <3>1, <3>3
    <3> QED
      BY <1>3, <1>5, <1>7, <3>1, <3>2, <3>3
  <2>5. i' \in Lanes
    BY <1>3, <2>1 DEF Lanes
  <2>6. \A j \in Lanes :
          /\ Offset(j)' < Turns' => waited'[j] <= Turns' - Offset(j)' - 1
          /\ Offset(j)' >= Turns' =>
               waited'[j] <= Turns' + (IF Offset(j)' = n - 1 THEN n - 1
                                       ELSE n - 2 - Offset(j)')
    BY <1>3, <1>4, <2>2, <2>4
  <2> QED
    BY <1>4, <2>3, <2>5, <2>6 DEF WaitInv
<1> QED
  BY <1>3, <1>6, <1>7 DEF PollLane

\* At the start no lane has waited.
LEMMA InitWait == Init => WaitInv
<1> SUFFICES ASSUME Init PROVE WaitInv
  OBVIOUS
<1>1. /\ kProducers \in Nat /\ 1 <= kProducers /\ i = 0 /\ next_lane_ = 0
      /\ m_pc = "remaining" /\ waited = [l \in Lanes |-> 0]
  BY ProducersAssumption DEF Init
<1>2. Turns = 0 /\ 0 \in Lanes
  BY <1>1 DEF Turns, Lanes
<1>3. \A l \in Lanes : Offset(l) = l /\ l \in Nat /\ l < kProducers
  BY <1>1 DEF Offset, Lanes
<1> QED
  BY <1>1, <1>2, <1>3 DEF WaitInv

\* Only poll_once moves anyone's turn.
LEMMA NextWait == WaitInv /\ [Next]_vars => WaitInv'
<1> SUFFICES ASSUME WaitInv, [Next]_vars PROVE WaitInv'
  OBVIOUS
<1>1. CASE \E l \in Lanes : \E k \in PopViews(lanes[l]) : PollLane(l, k)
  BY <1>1, PollLaneKeepsWait
<1>2. CASE /\ waited' = waited /\ next_lane_' = next_lane_
           /\ Turns' = Turns /\ i' \in Lanes
  <2>1. \A l \in Lanes : Offset(l)' = Offset(l)
    BY <1>2 DEF Offset
  <2> QED
    BY <1>2, <2>1 DEF WaitInv
<1>3. 0 \in Lanes /\ i \in Lanes
  BY ProducersAssumption DEF Lanes, WaitInv
<1>4. CASE \E k \in seen .. Len(left) : LoadRemaining(k)
  BY <1>2, <1>3, <1>4 DEF LoadRemaining, Turns
<1>5. CASE \E k \in PopViews(lanes[i]) : CheckLane(k)
  <2>1. i + 1 < kProducers => i + 1 \in Lanes
    BY <1>3, ProducersAssumption DEF Lanes
  <2> QED
    BY <1>2, <1>3, <1>5, <2>1 DEF CheckLane, Turns
<1>6. CASE \/ \E l \in Lanes : \E k \in PushViews(lanes[l]) : Submit(l, k)
           \/ \E l \in Lanes : Leave(l)
           \/ UNCHANGED vars
  BY <1>2, <1>3, <1>6 DEF Submit, Leave, vars, matcher, Turns
<1>7. CASE Join
  BY <1>2, <1>3, <1>7 DEF Join, Turns
<1> QED
  BY <1>1, <1>4, <1>5, <1>6, <1>7 DEF Next, Matching, Exited

\* The starvation bound of poll_once, for any number of lanes.
THEOREM NoStarvation == Spec => []NoLaneStarved
<1>1. WaitInv => NoLaneStarved
  <2> SUFFICES ASSUME WaitInv, NEW l \in Lanes
               PROVE  waited[l] <= 2 * (kProducers - 1)
    BY DEF NoLaneStarved
  <2>1. /\ kProducers \in Nat /\ Turns \in Nat /\ Turns < kProducers
        /\ waited[l] \in Nat
    BY ProducersAssumption DEF WaitInv, Turns, Lanes
  <2>2. Offset(l) \in Nat /\ Offset(l) < kProducers
    BY <2>1, OffsetFacts DEF WaitInv, Lanes
  <2>3. /\ Offset(l) < Turns => waited[l] <= Turns - Offset(l) - 1
        /\ Offset(l) >= Turns =>
             waited[l] <= Turns + (IF Offset(l) = kProducers - 1 THEN kProducers - 1
                                   ELSE kProducers - 2 - Offset(l))
    BY DEF WaitInv
  <2> QED
    BY <2>1, <2>2, <2>3
<1> QED
  BY <1>1, InitWait, NextWait, PTL DEF Spec
=============================================================================
