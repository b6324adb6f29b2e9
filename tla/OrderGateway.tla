---------------------------- MODULE OrderGateway ----------------------------
(***************************************************************************)
(* order_gateway.hpp and the threads that main.cpp's mt-demo puts around   *)
(* it: each producer fills its own lane and then counts itself out of      *)
(* producers_remaining; the matching thread sweeps the lanes until it has  *)
(* read a zero there and then found every lane empty.                      *)
(*                                                                         *)
(* An atomic may be read stale.  producers_remaining is kept as the order  *)
(* in which the producers left; a load returns how many of them it sees,   *)
(* and with them (acquire; a fetch_sub continues the release sequence)     *)
(* everything those producers pushed.                                      *)
(*                                                                         *)
(* The handler, MatchingEngine::submit_order, is a call on the matching    *)
(* thread that touches nothing of this module.  `processed` already counts *)
(* what the sweep in progress has drained.                                 *)
(***************************************************************************)
EXTENDS RingEnds, Sequences

CONSTANTS kProducers, kOrdersPerProducer,
          LaneCapacity   \* template parameter: a lane holds one item less

ASSUME ProducersAssumption == kProducers \in Nat \ {0}
ASSUME OrdersAssumption == kOrdersPerProducer \in Nat
ASSUME LaneAssumption == LaneCapacity \in Nat /\ LaneCapacity >= 2

VARIABLES
  lanes,       \* lanes_
  left,        \* producers that have decremented producers_remaining, in order
  seen,        \* how many of those the matching thread has seen
  m_pc,        \* matching thread: "remaining" | "lanes" | "sweep" | "join" | "exit"
  i,           \* loop index of all_lanes_empty or poll_once
  next_lane_,
  processed,   \* orders handed to the handler
  waited       \* per lane, orders of other lanes handled since its last turn

matcher == <<seen, m_pc, i, next_lane_, processed, waited>>
vars == <<lanes, left, matcher>>

Lanes == 0 .. kProducers - 1

\* (a + b) % n for a, b below n.
Cyclic(a, b) == IF a + b >= kProducers THEN a + b - kProducers ELSE a + b

Gone(l, n) == \E j \in 1..n : left[j] = l

Init ==
    /\ lanes = [l \in Lanes |-> NewRing]
    /\ left = <<>> /\ seen = 0
    /\ m_pc = "remaining" /\ i = 0 /\ next_lane_ = 0 /\ processed = 0
    /\ waited = [l \in Lanes |-> 0]

\* One attempt of producer l to submit its next order; on a full lane it
\* yields and tries again.
Submit(l, k) ==
    /\ lanes[l].pushed < kOrdersPerProducer
    /\ k \in PushViews(lanes[l])
    /\ lanes' = [lanes EXCEPT ![l] = try_push(@, k, LaneCapacity - 1)]
    /\ UNCHANGED <<left, matcher>>

\* producers_remaining.fetch_sub(1, release), the producer's last step.
Leave(l) ==
    /\ lanes[l].pushed = kOrdersPerProducer
    /\ ~Gone(l, Len(left))
    /\ left' = Append(left, l)
    /\ UNCHANGED <<lanes, matcher>>

\* (mutant) A relaxed load.
LoadRemainingRelaxed(k) ==
    /\ m_pc = "remaining"
    /\ k \in seen .. Len(left)
    /\ seen' = k
    /\ m_pc' = IF k < kProducers THEN "sweep" ELSE "lanes"
    /\ i' = 0
    /\ UNCHANGED <<lanes, left, next_lane_, processed, waited>>

\* The loop's first test: producers_remaining.load(acquire) > 0.
LoadRemaining(k) ==
    /\ m_pc = "remaining"
    /\ k \in seen .. Len(left)
    /\ seen' = k
    /\ lanes' = [l \in Lanes |-> IF Gone(l, k)
                   THEN PopLoad(lanes[l], lanes[l].pushed) ELSE lanes[l]]
    /\ m_pc' = IF k < kProducers THEN "sweep" ELSE "lanes"
    /\ i' = 0
    /\ UNCHANGED <<left, next_lane_, processed, waited>>

\* The second test, one lane of all_lanes_empty.
CheckLane(k) ==
    /\ m_pc = "lanes"
    /\ k \in PopViews(lanes[i])
    /\ lanes' = [lanes EXCEPT ![i] = PopLoad(@, k)]
    /\ \/ /\ ~SeesEmpty(lanes[i], k)
          /\ m_pc' = "sweep" /\ i' = 0
       \/ /\ SeesEmpty(lanes[i], k) /\ i + 1 < kProducers
          /\ m_pc' = "lanes" /\ i' = i + 1
       \/ /\ SeesEmpty(lanes[i], k) /\ i + 1 = kProducers
          /\ m_pc' = "join" /\ i' = 0
    /\ UNCHANGED <<left, seen, next_lane_, processed, waited>>

\* (mutant) The sweep stays on a lane as long as it has orders.
PollLaneGreedy(l, k) ==
    /\ m_pc = "sweep"
    /\ l = Cyclic(next_lane_, i)
    /\ k \in PopViews(lanes[l])
    /\ lanes' = [lanes EXCEPT ![l] = try_pop(@, k)]
    /\ LET drained == IF SeesEmpty(lanes[l], k) THEN 0 ELSE 1
       IN  /\ processed' = processed + drained
           /\ waited' = [j \in Lanes |-> IF j = l THEN 0 ELSE waited[j] + drained]
           /\ IF drained = 1 THEN UNCHANGED <<m_pc, i, next_lane_>>
              ELSE IF i + 1 < kProducers THEN i' = i + 1 /\ UNCHANGED <<m_pc, next_lane_>>
              ELSE m_pc' = "remaining" /\ i' = 0 /\ next_lane_' = Cyclic(next_lane_, 1)
    /\ UNCHANGED <<left, seen>>

\* poll_once, its turn for lane l: at most one order.
PollLane(l, k) ==
    /\ m_pc = "sweep"
    /\ l = Cyclic(next_lane_, i)
    /\ k \in PopViews(lanes[l])
    /\ lanes' = [lanes EXCEPT ![l] = try_pop(@, k)]
    /\ LET drained == IF SeesEmpty(lanes[l], k) THEN 0 ELSE 1
       IN  /\ processed' = processed + drained
           /\ waited' = [j \in Lanes |-> IF j = l THEN 0 ELSE waited[j] + drained]
    /\ \/ /\ i + 1 < kProducers
          /\ i' = i + 1
          /\ UNCHANGED <<m_pc, next_lane_>>
       \/ /\ i + 1 = kProducers
          /\ m_pc' = "remaining" /\ i' = 0
          /\ next_lane_' = Cyclic(next_lane_, 1)
    /\ UNCHANGED <<left, seen>>

\* join() of every producer; nothing is read after it.
Join ==
    /\ m_pc = "join"
    /\ \A l \in Lanes : Gone(l, Len(left))
    /\ m_pc' = "exit"
    /\ UNCHANGED <<lanes, left, seen, i, next_lane_, processed, waited>>

Exited == m_pc = "exit" /\ UNCHANGED vars

Matching ==
    \/ \E k \in seen .. Len(left) : LoadRemaining(k)
    \/ \E k \in PopViews(lanes[i]) : CheckLane(k)
    \/ \E l \in Lanes : \E k \in PopViews(lanes[l]) : PollLane(l, k)
    \/ Join

Next ==
    \/ \E l \in Lanes : \E k \in PushViews(lanes[l]) : Submit(l, k)
    \/ \E l \in Lanes : Leave(l)
    \/ Matching
    \/ Exited

Spec == Init /\ [][Next]_vars

\* Every thread runs (mt-demo takes real-time priority for the matching
\* thread only where the producers have cores of their own), and a store
\* does not stay invisible for ever to a thread that keeps loading.
FairSpec ==
    /\ Spec
    /\ \A l \in Lanes :
        /\ WF_vars(Submit(l, lanes[l].popped))
        /\ WF_vars(Leave(l))
        /\ SF_vars(PollLane(l, lanes[l].pushed))
    /\ SF_vars(LoadRemaining(Len(left)))
    /\ WF_vars(Matching)
-----------------------------------------------------------------------------
(***************************************************************************)
(* Properties.                                                             *)
(***************************************************************************)
\* Every order of every producer has been taken out of its lane.
Drained == \A l \in Lanes : lanes[l].popped = kOrdersPerProducer

\* When the matching thread leaves its loop, every order of every producer
\* has been through the handler, exactly once: no stale read of the counter
\* or of a lane can make the two tests of main.cpp pass too early, and the
\* count the demo prints is the number of orders submitted.
NothingLost ==
    m_pc \in {"join", "exit"} => Drained /\ processed = kProducers * kOrdersPerProducer

\* "so no lane is starved" (order_gateway.hpp): between two turns of a lane
\* the matching thread handles at most 2(n - 1) orders of other lanes,
\* whichever of them are full and however the starting lane rotates.
NoLaneStarved == \A l \in Lanes : waited[l] <= 2 * (kProducers - 1)

\* The demo ends: full lanes drain, every producer gets to leave, and the
\* matching thread notices.
DemoTerminates == <>(m_pc = "exit")
=============================================================================
