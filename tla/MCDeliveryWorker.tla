-------------------------- MODULE MCDeliveryWorker --------------------------
(* Triggers that come with ids of their own, or without.                     *)
EXTENDS DeliveryWorker

CONSTANTS t1, t2, t3, t4, w1, w2

Triggers == {t1, t2, t3, t4}
OwnIds   == [t \in Trigger |->
                CASE t = t1 -> 1 [] t = t2 -> 2 [] t = t3 -> 3 [] t = t4 -> 4]
NoIds    == [t \in Trigger |-> 0]
=============================================================================
