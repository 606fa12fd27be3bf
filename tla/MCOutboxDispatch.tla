-------------------------- MODULE MCOutboxDispatch --------------------------
(* Model values for OutboxDispatch; messages, and dispatchers, are           *)
(* interchangeable in runs that check no liveness.                           *)
EXTENDS OutboxDispatch, TLC

CONSTANTS m1, m2, d1, d2

OneMessage     == {m1}
TwoMessages    == {m1, m2}
OneDispatcher  == {d1}
TwoDispatchers == {d1, d2}

Symmetry == Permutations(Message) \cup Permutations(Dispatcher)
=============================================================================
