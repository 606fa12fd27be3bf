--------------------------- MODULE MCWorkerPolling ---------------------------
(* A trigger that uses the default command and one whose startAt is no       *)
(* date.  The default has just the cycles that the retries need.             *)
EXTENDS WorkerPolling

CONSTANTS t1, t2, m1, m2

BadTimeValue == 0 - 1
Default      == [startAt |-> 1, stepSeconds |-> 2, cycles |-> MaxAttempts,
                 retryDelaySeconds |-> 2]
MalformedAt  == [startAt |-> BadTime]
Triggers     == {t1, t2}
OwnIds       == [t \in Triggers |-> IF t = t1 THEN 1 ELSE 2]
Given        == [t \in Triggers |-> IF t = t2 THEN MalformedAt ELSE <<>>]
Commands     == {Default, [Default EXCEPT !.startAt = BadTime]}
=============================================================================
