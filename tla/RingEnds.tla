------------------------------ MODULE RingEnds ------------------------------
(***************************************************************************)
(* One SpscRingBuffer as its two ends see it: how many items have been     *)
(* pushed and popped, and how much of either the other end has noticed.    *)
(* OrderGateway and Logger are built on these operators.  RingStep is the  *)
(* whole of what a ring may do; SpscRingBuffer is shown to do no more.     *)
(***************************************************************************)
EXTENDS Naturals

NewRing == [pushed |-> 0, popped |-> 0, p_view |-> 0, c_view |-> 0]

\* The counts an acquire load may return at the producing and at the
\* consuming end: nothing older than what that end saw before.
PushViews(r) == r.p_view .. r.popped
PopViews(r) == r.c_view .. r.pushed

\* (mutant) Two slots are kept empty.
SeesFullEarly(r, k, capacity) == r.pushed - k >= capacity - 1

SeesFull(r, k, capacity) == r.pushed - k = capacity
SeesEmpty(r, k) == r.popped = k

\* The ring once one end has loaded k.
PushLoad(r, k) == [r EXCEPT !.p_view = k]
PopLoad(r, k) == [r EXCEPT !.c_view = k]

\* try_push and try_pop whose load returns k.
try_push(r, k, capacity) ==
    IF SeesFull(r, k, capacity) THEN PushLoad(r, k)
    ELSE [PushLoad(r, k) EXCEPT !.pushed = @ + 1]

try_pop(r, k) ==
    IF SeesEmpty(r, k) THEN PopLoad(r, k)
    ELSE [PopLoad(r, k) EXCEPT !.popped = @ + 1]

\* What one end may do at a time: a load alone is the first half of a call,
\* or empty().
RingStep(r, s, capacity) ==
    \/ \E k \in PushViews(r) : s \in {PushLoad(r, k), try_push(r, k, capacity)}
    \/ \E k \in PopViews(r) : s \in {PopLoad(r, k), try_pop(r, k)}
=============================================================================
