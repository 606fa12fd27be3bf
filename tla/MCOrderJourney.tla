---------------------------- MODULE MCOrderJourney ----------------------------
(* Two calls of placeOrder with one key, at the same time or one after the   *)
(* other's answer, dispatched twice at the same time, or one by one where    *)
(* both calls may place an order.                                            *)
EXTENDS OrderJourney

CONSTANTS r1, r2, k1, c1, c2, d1, d2, projector

SameKey   == [r \in Request |-> k1]
OwnedByC1 == [r \in Request |-> c1]
JustIt    == <<projector>>
BothOrOne == [waits \in BOOLEAN |-> IF waits THEN {d1, d2} ELSE {d1}]
TwoTries  == [s \in Subscriber |-> 2]
=============================================================================
