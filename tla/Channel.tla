------------------------------- MODULE Channel -------------------------------
(***************************************************************************)
(* What one SpscRingBuffer promises the two threads that share it: a FIFO  *)
(* of bounded length that loses, repeats and reorders nothing.  The values *)
(* sent and received so far are kept whole; the difference is in transit.  *)
(***************************************************************************)
EXTENDS Naturals, Sequences

CONSTANTS Items,   \* values that may be sent
          Bound    \* how many may be in transit (capacity())

VARIABLES sent, received

Init == sent = <<>> /\ received = <<>>

Send ==
    /\ Len(sent) - Len(received) < Bound
    /\ \E v \in Items : sent' = Append(sent, v)
    /\ UNCHANGED received

Receive ==
    /\ Len(received) < Len(sent)
    /\ received' = Append(received, sent[Len(received) + 1])
    /\ UNCHANGED sent

Next == Send \/ Receive

Spec == Init /\ [][Next]_<<sent, received>>
=============================================================================
