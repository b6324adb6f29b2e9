--------------------------- MODULE MCMatchingEngine ---------------------------
(* A small instance of MatchingEngine for TLC. *)
EXTENDS MatchingEngine

\* Participant 0 meets participant 1 on both sides, and each meets itself.
MCRequests ==
    {o \in Order(OrderIds, {1, 2}, {1, 2}, {0, 1}) :
        /\ o.type = "Limit" /\ o.tif = "GTC"
        /\ <<o.participant, o.side, o.price, o.remaining>> \in
            {<<0, "Buy", 1, 1>>, <<0, "Sell", 1, 1>>, <<1, "Buy", 2, 1>>,
             <<1, "Sell", 1, 2>>}}

MCLimits == {[max_position |-> 1, max_order_size |-> 1, max_orders_per_second |-> 1]}
=============================================================================
