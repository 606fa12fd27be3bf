-------------------------- MODULE ReliableDelivery --------------------------
(***************************************************************************)
(* What the outbox promises to whoever saved a message, whatever happens   *)
(* inside a dispatcher: the message is offered to the broker until the     *)
(* broker has all its events (published) or until it failed often enough   *)
(* (abandoned), and never again after that.  Delivery is at least once: an *)
(* event may be transmitted any number of times while its message waits.   *)
(***************************************************************************)
EXTENDS Naturals

CONSTANTS Message, EventCount, MaxAttempts

VARIABLES
    stage,        \* where the outbox stands with each message
    transmitted,  \* how often the broker accepted each event of it
    failures      \* how many failed attempts were recorded

deliveryVars == <<stage, transmitted, failures>>

DeliveryInit ==
    /\ stage = [m \in Message |-> "unsaved"]
    /\ transmitted = [m \in Message |-> [e \in 1..EventCount |-> 0]]
    /\ failures = [m \in Message |-> 0]

Complete(m) == \A e \in 1..EventCount : transmitted[m][e] >= 1

Accept(m) ==
    /\ stage[m] = "unsaved"
    /\ stage' = [stage EXCEPT ![m] = "pending"]
    /\ UNCHANGED <<transmitted, failures>>

\* The broker accepts the first n events of a pending message.
Transmit(m) ==
    /\ stage[m] = "pending"
    /\ \E n \in 1..EventCount :
          transmitted' = [transmitted EXCEPT ![m] =
              [e \in 1..EventCount |-> IF e <= n THEN transmitted[m][e] + 1
                                                 ELSE transmitted[m][e]]]
    /\ UNCHANGED <<stage, failures>>

\* A failed attempt is counted; the last one allowed abandons the message.
Fail(m) ==
    /\ stage[m] = "pending"
    /\ failures' = [failures EXCEPT ![m] = @ + 1]
    /\ stage' = [stage EXCEPT ![m] = IF failures[m] + 1 >= MaxAttempts
                                       THEN "abandoned" ELSE "pending"]
    /\ UNCHANGED transmitted

Confirm(m) ==
    /\ stage[m] = "pending"
    /\ Complete(m)
    /\ stage' = [stage EXCEPT ![m] = "published"]
    /\ UNCHANGED <<transmitted, failures>>

\* The broker has everything, but the outbox could not be told so: the message
\* is taken out of circulation, unless the outbox was told after all.
GiveUpConfirming(m) ==
    /\ stage[m] \in {"pending", "published"}
    /\ Complete(m)
    /\ failures' = [failures EXCEPT ![m] = @ + 1]
    /\ stage' = [stage EXCEPT ![m] = IF @ = "published" THEN @ ELSE "abandoned"]
    /\ UNCHANGED transmitted

DeliveryNext ==
    \E m \in Message : \/ Accept(m)  \/ Transmit(m)  \/ Fail(m)
                       \/ Confirm(m) \/ GiveUpConfirming(m)

DeliverySpec == DeliveryInit /\ [][DeliveryNext]_deliveryVars

\* No message stays pending.
Prompt == \A m \in Message : stage[m] = "pending" ~> stage[m] \in {"published", "abandoned"}

PromptDeliverySpec == DeliverySpec /\ Prompt
=============================================================================
