---------------------------- MODULE CheckoutSaga ----------------------------
(***************************************************************************)
(* runOrderCheckoutSaga (run-order-checkout-saga.ts): charge, ask for the  *)
(* fulfillment, then store the order with its outbox message; when the     *)
(* fulfillment fails, refund instead.  A saga is one call.  Sagas run      *)
(* concurrently and in sequence, and may carry the same idempotency key:   *)
(* nothing is looked up by it, it only names the requests made of the      *)
(* payment gateway and of the fulfillment service.                         *)
(*                                                                         *)
(* Every awaited call may reject, and one that leaves the process may have *)
(* taken effect all the same; the telemetry calls, whose adapters never    *)
(* reject, are left out.  The process may die at every step.  The          *)
(* transaction is one step: how its statements run is PlaceOrder's subject.*)
(***************************************************************************)
EXTENDS Naturals, FiniteSets

CONSTANTS
    Saga,          \* calls of runOrderCheckoutSaga
    RequestId,     \* payment request ids
    RequestIdOf    \* [Saga -> RequestId]: command.idempotencyKey ?? order.id

ASSUME RequestIdAssumption == RequestIdOf \in [Saga -> RequestId]
ASSUME SagaAssumption      == IsFiniteSet(Saga)   \* so that charges can be counted

VARIABLES
    pc,         \* progress of each saga
    status,     \* its workflowStatus, or how it ended without one
    charges,    \* of each request id, the charges the gateway accepted
    refunds,    \* and the refunds it accepted
    shipping,   \* sagas whose fulfillment request was accepted
    lost,       \* those of them that never got the reply (history)
    orders,     \* sagas whose order and outbox message are stored
    audited     \* of each saga, the audit entries appended

vars == <<pc, status, charges, refunds, shipping, lost, orders, audited>>

Entries == {"completed", "compensated", "compensation-failed"}

TypeOK ==
    /\ pc \in [Saga -> {"prepare", "charge", "fulfill", "refund", "auditCompensated",
                        "auditCompensationFailed", "save", "auditCompleted", "done"}]
    /\ status \in [Saga -> Entries \cup {"none", "failed", "died"}]
    /\ charges \in [RequestId -> 0..Cardinality(Saga)]
    /\ refunds \in [RequestId -> 0..Cardinality(Saga)]
    /\ shipping \subseteq Saga
    /\ lost \subseteq Saga
    /\ orders \subseteq Saga
    /\ audited \in [Saga -> SUBSET Entries]

Init ==
    /\ pc = [s \in Saga |-> "prepare"]
    /\ status = [s \in Saga |-> "none"]
    /\ charges = [q \in RequestId |-> 0]
    /\ refunds = [q \in RequestId |-> 0]
    /\ shipping = {}
    /\ lost = {}
    /\ orders = {}
    /\ audited = [s \in Saga |-> {}]

-----------------------------------------------------------------------------

Goto(s, place) == pc' = [pc EXCEPT ![s] = place] /\ UNCHANGED status

Answer(s, outcome) ==
    /\ pc' = [pc EXCEPT ![s] = "done"]
    /\ status' = [status EXCEPT ![s] = outcome]

\* An exception leaves the saga.
Throw(s) == Answer(s, "failed")

\* The process dies.
Die(s) == Answer(s, "died")

Append(s, entry) == audited' = [audited EXCEPT ![s] = @ \cup {entry}]

\* Prices, Order.place and the authorization: they pass, or they throw.
Prepare(s) ==
    /\ pc[s] = "prepare"
    /\ Goto(s, "charge") \/ Throw(s) \/ Die(s)
    /\ UNCHANGED <<charges, refunds, shipping, lost, orders, audited>>

Charged(s) == charges' = [charges EXCEPT ![RequestIdOf[s]] = @ + 1]

\* paymentGateway.charge
Charge(s) ==
    /\ pc[s] = "charge"
    /\ \/ Charged(s) /\ Goto(s, "fulfill")
       \/ (Charged(s) \/ UNCHANGED charges) /\ (Throw(s) \/ Die(s))
    /\ UNCHANGED <<refunds, shipping, lost, orders, audited>>

\* fulfillmentService.request.  Accepted: the order is stored next.  Rejected,
\* though it may have been accepted: the payment is refunded next.
Fulfill(s) ==
    /\ pc[s] = "fulfill"
    /\ \/ shipping' = shipping \cup {s} /\ Goto(s, "save") /\ UNCHANGED lost
       \/ /\ \/ shipping' = shipping \cup {s} /\ lost' = lost \cup {s}
             \/ UNCHANGED <<shipping, lost>>
          /\ Goto(s, "refund") \/ Die(s)
    /\ UNCHANGED <<charges, refunds, orders, audited>>

Refunded(s) == refunds' = [refunds EXCEPT ![RequestIdOf[s]] = @ + 1]

\* A bug: a refund that throws is taken for one that worked.
RefundUnchecked(s) ==
    /\ pc[s] = "refund"
    /\ Refunded(s) \/ UNCHANGED refunds
    /\ Goto(s, "auditCompensated")
    /\ UNCHANGED <<charges, shipping, lost, orders, audited>>

\* A bug: the refund is tried again when the reply is lost.
RefundAgain(s) ==
    /\ pc[s] = "refund"
    /\ \/ Refunded(s) /\ (Goto(s, "auditCompensated") \/ Goto(s, "refund"))
       \/ UNCHANGED refunds /\ Goto(s, "auditCompensationFailed")
    /\ UNCHANGED <<charges, shipping, lost, orders, audited>>

\* paymentGateway.refund
Refund(s) ==
    /\ pc[s] = "refund"
    /\ \/ Refunded(s) /\ Goto(s, "auditCompensated")
       \/ (Refunded(s) \/ UNCHANGED refunds)
          /\ (Goto(s, "auditCompensationFailed") \/ Die(s))
    /\ UNCHANGED <<charges, shipping, lost, orders, audited>>

\* The entry is appended inside the refund's own try: when it is not, a saga that
\* did refund goes on as if the compensation had failed.
AuditCompensated(s) ==
    /\ pc[s] = "auditCompensated"
    /\ \/ Append(s, "compensated") /\ Answer(s, "compensated")
       \/ (Append(s, "compensated") \/ UNCHANGED audited)
          /\ (Goto(s, "auditCompensationFailed") \/ Die(s))
    /\ UNCHANGED <<charges, refunds, shipping, lost, orders>>

AuditCompensationFailed(s) ==
    /\ pc[s] = "auditCompensationFailed"
    /\ \/ Append(s, "compensation-failed") /\ Answer(s, "compensation-failed")
       \/ (Append(s, "compensation-failed") \/ UNCHANGED audited)
          /\ (Throw(s) \/ Die(s))
    /\ UNCHANGED <<charges, refunds, shipping, lost, orders>>

\* A bug: a failed transaction is compensated like a failed fulfillment, by a refund
\* alone.
SaveOrRefund(s) ==
    /\ pc[s] = "save"
    /\ \/ orders' = orders \cup {s} /\ Goto(s, "auditCompleted")
       \/ UNCHANGED orders /\ (Goto(s, "refund") \/ Die(s))
    /\ UNCHANGED <<charges, refunds, shipping, lost, audited>>

\* runInTransaction: committed, rolled back, or committed and rejected.  Nothing
\* is compensated when it throws.
Save(s) ==
    /\ pc[s] = "save"
    /\ \/ orders' = orders \cup {s} /\ Goto(s, "auditCompleted")
       \/ (orders' = orders \cup {s} \/ UNCHANGED orders) /\ (Throw(s) \/ Die(s))
    /\ UNCHANGED <<charges, refunds, shipping, lost, audited>>

AuditCompleted(s) ==
    /\ pc[s] = "auditCompleted"
    /\ \/ Append(s, "completed") /\ Answer(s, "completed")
       \/ (Append(s, "completed") \/ UNCHANGED audited) /\ (Throw(s) \/ Die(s))
    /\ UNCHANGED <<charges, refunds, shipping, lost, orders>>

Next ==
    \E s \in Saga :
        \/ Prepare(s) \/ Charge(s) \/ Fulfill(s)
        \/ Refund(s) \/ AuditCompensated(s) \/ AuditCompensationFailed(s)
        \/ Save(s) \/ AuditCompleted(s)

Spec == Init /\ [][Next]_vars

-----------------------------------------------------------------------------
(* Properties                                                              *)

Sharing(q) == {s \in Saga : RequestIdOf[s] = q}

\* A workflow status is a statement about four systems, and it is true of all of
\* them: a completed saga was charged, its goods are shipping, its order is stored
\* and its completion audited; a compensated one was refunded (each of
\* those that share a request id) and left no order.
\* A saga that reports its own compensation never also completes.
StatusIsTrue ==
    \A s \in Saga :
        /\ status[s] = "completed" =>
              /\ charges[RequestIdOf[s]] > 0
              /\ s \in shipping \cap orders
              /\ audited[s] = {"completed"}
        /\ status[s] = "compensated" =>
              /\ Cardinality({t \in Sharing(RequestIdOf[s]) : status[t] = "compensated"})
                    <= refunds[RequestIdOf[s]]
              /\ s \notin orders
              /\ audited[s] = {"compensated"}
        /\ status[s] = "compensation-failed" =>
              s \notin orders /\ "compensation-failed" \in audited[s]

\* The books balance, also when calls share a request id, replies get lost and
\* calls die: nothing is refunded that was not charged, and the charges left over
\* cover the orders stored.  Charges are counted one for each call, as the gateway
\* accepts them.
OrdersArePaidFor ==
    \A q \in RequestId :
        Cardinality(orders \cap Sharing(q)) + refunds[q] <= charges[q]

\* No goods leave before they are paid for, and no order is stored for goods that
\* do not.  What has left stays paid for, refunds taken off, save where the reply
\* of the warehouse was lost: such a saga refunds goods that ship, and no other does.
ShippedIsPaid ==
    /\ orders \subseteq shipping
    /\ \A q \in RequestId :
          /\ Cardinality(shipping \cap Sharing(q)) <= charges[q]
          /\ Cardinality((shipping \ lost) \cap Sharing(q)) + refunds[q] <= charges[q]

\* What the sprint plan asks for: when a step after a successful payment fails,
\* the compensation runs.  The transaction is such a step.
FailureIsCompensated ==
    \A s \in Saga :
        /\ status[s] = "failed"
        /\ s \in shipping \ orders
        => refunds[RequestIdOf[s]] > 0 \/ "compensation-failed" \in audited[s]
=============================================================================
