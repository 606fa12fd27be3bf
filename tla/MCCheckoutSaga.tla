--------------------------- MODULE MCCheckoutSaga ---------------------------
(* Three sagas, two of them with the same idempotency key.                   *)
EXTENDS CheckoutSaga

CONSTANTS s1, s2, s3

Sagas        == {s1, s2, s3}
KeyIsShared  == [s \in Sagas |-> IF s = s3 THEN s3 ELSE s1]
OneSaga      == {s1}
OwnRequestId == [s \in OneSaga |-> s]
=============================================================================
