------------------------ MODULE OutboxDispatchProofs ------------------------
(***************************************************************************)
(* Proofs about OutboxDispatch for any set of messages, any set of         *)
(* dispatchers, copies or live reads, and any bounds.                      *)
(***************************************************************************)
EXTENDS OutboxDispatch, FiniteSetTheorems, TLAPS

Holding == {"recordFailure", "acknowledge", "recordAckFailure", "notify"}

\* A dispatcher past publish works on a message of the outbox.
HoldsMessage == \A d \in Dispatcher : pc[d] \in Holding => msg[d] \in Message

TypeInv == TypeOK /\ HoldsMessage

-----------------------------------------------------------------------------
(* Type correctness                                                        *)

LEMMA InitTypeInv == Init => TypeInv
BY AbortsAssumption, EventCountAssumption
   DEF Init, TypeInv, TypeOK, HoldsMessage, Holding, Event

LEMMA DeliverKeepsType ==
  ASSUME TypeOK, NEW m \in Message, NEW n, Deliver(m, n)
  PROVE  delivered' \in [Message -> [Event -> Nat]]
BY DEF TypeOK, Deliver

\* Every step keeps the types, and a dispatcher past publish holds a message.
LEMMA NextTypeInv == TypeInv /\ [Next]_vars => TypeInv'
<1> SUFFICES ASSUME TypeInv, [Next]_vars PROVE TypeInv'
  OBVIOUS
<1> USE DEF TypeInv, Holding
<1>1. ASSUME NEW m \in Message, Save(m) PROVE TypeInv'
  BY <1>1 DEF Save, TypeOK, HoldsMessage
<1>2. ASSUME NEW m \in Message, RetryDelayElapses(m) PROVE TypeInv'
  BY <1>2 DEF RetryDelayElapses, TypeOK, HoldsMessage
<1>3. ASSUME NEW d \in Dispatcher, ListPending(d) PROVE TypeInv'
  <2>1. PICK B \in SUBSET Pending :
           /\ todo' = [todo EXCEPT ![d] = B]
           /\ seen' = [seen EXCEPT ![d] =
                         [m \in Message |-> IF m \in B THEN retryCount[m] ELSE 0]]
    BY <1>3 DEF ListPending
  <2>2. B \in SUBSET Message
    BY DEF Pending, TypeOK
  <2>3. todo' \in [Dispatcher -> SUBSET Message]
    BY <2>1, <2>2 DEF TypeOK
  <2>4. seen' \in [Dispatcher -> [Message -> Nat]]
    BY <2>1 DEF TypeOK
  <2>5. QED
    BY <1>3, <2>3, <2>4 DEF ListPending, columns, TypeOK, HoldsMessage
<1>4. ASSUME NEW d \in Dispatcher, Publish(d) PROVE TypeInv'
  <2>1. PICK m \in todo[d] : PublishTo(d, m)
    BY <1>4 DEF Publish
  <2>2. m \in Message
    BY DEF TypeOK
  <2>3. delivered' \in [Message -> [Event -> Nat]]
    BY <2>1, <2>2, DeliverKeepsType DEF PublishTo
  <2>4. QED
    BY <1>4, <2>1, <2>2, <2>3 DEF Publish, PublishTo, columns, TypeOK, HoldsMessage
<1>5. ASSUME NEW d \in Dispatcher, RecordFailure(d) PROVE TypeInv'
  BY <1>5 DEF RecordFailure, NextMessage, MarkAsFailed, TypeOK, HoldsMessage
<1>6. ASSUME NEW d \in Dispatcher, Acknowledge(d) PROVE TypeInv'
  BY <1>6 DEF Acknowledge, MarkAsPublished, TypeOK, HoldsMessage
<1>7. ASSUME NEW d \in Dispatcher, RecordAckFailure(d) PROVE TypeInv'
  BY <1>7 DEF RecordAckFailure, NextMessage, MarkAsFailed, TypeOK, HoldsMessage
<1>8. ASSUME NEW d \in Dispatcher, Notify(d) PROVE TypeInv'
  <2>1. msg[d] \in Message
    BY <1>8 DEF Notify, NotifyAll, SubscriberThrows, HoldsMessage
  <2>2. notified' \in [Message -> 0..EventCount]
    <3>1. EventCount \in 0..EventCount
      BY EventCountAssumption
    <3>2. CASE NotifyAll(d)
      BY <2>1, <3>1, <3>2 DEF NotifyAll, TypeOK
    <3>3. CASE SubscriberThrows(d)
      BY <2>1, <3>3, EventCountAssumption DEF SubscriberThrows, TypeOK
    <3>4. QED
      BY <1>8, <3>2, <3>3 DEF Notify
  <2>3. CASE NotifyAll(d)
    BY <2>2, <2>3 DEF NotifyAll, NextMessage, columns, TypeOK, HoldsMessage
  <2>4. CASE SubscriberThrows(d)
    BY <2>1, <2>2, <2>4 DEF SubscriberThrows, Quit, columns, TypeOK, HoldsMessage
  <2>5. QED
    BY <1>8, <2>3, <2>4 DEF Notify
<1>9. ASSUME NEW d \in Dispatcher, Abort(d) PROVE TypeInv'
  BY <1>9, AbortsAssumption DEF Abort, Quit, columns, TypeOK, HoldsMessage
<1>10. CASE UNCHANGED vars
  BY <1>10 DEF vars, columns, TypeOK, HoldsMessage
<1> QED
  BY <1>1, <1>2, <1>3, <1>4, <1>5, <1>6, <1>7, <1>8, <1>9, <1>10 DEF Next, Dispatch

\* Every reachable state of the dispatchers, the table and the broker is well
\* typed.
THEOREM TypeCorrect == Spec => []TypeOK
<1>1. TypeInv => TypeOK
  BY DEF TypeInv
<1>2. QED
  BY <1>1, InitTypeInv, NextTypeInv, PTL DEF Spec

LEMMA TypeInvariant == Spec => []TypeInv
BY InitTypeInv, NextTypeInv, PTL DEF Spec

-----------------------------------------------------------------------------
(* The broker comes first                                                  *)

Grown == \A m \in Message, e \in Event : delivered'[m][e] >= delivered[m][e]

LEMMA DeliverGrows ==
  ASSUME TypeOK, NEW m \in Message, NEW n, Deliver(m, n) PROVE Grown
BY DEF TypeOK, Deliver, Grown

\* What the broker accepted it never gives back.
LEMMA DeliveredGrows == TypeInv /\ [Next]_vars => Grown
<1> SUFFICES ASSUME TypeInv, [Next]_vars PROVE Grown
  OBVIOUS
<1> USE DEF TypeInv
<1>1. CASE UNCHANGED delivered
  BY <1>1 DEF Grown, TypeOK
<1>2. ASSUME NEW d \in Dispatcher, Publish(d) PROVE Grown
  <2>1. PICK m \in todo[d] : PublishTo(d, m)
    BY <1>2 DEF Publish
  <2>2. m \in Message
    BY DEF TypeOK
  <2>3. QED
    BY <2>1, <2>2, DeliverGrows DEF PublishTo
<1> QED
  BY <1>1, <1>2 DEF Next, vars, Dispatch, Save, RetryDelayElapses, ListPending,
     RecordFailure, Acknowledge, RecordAckFailure, Notify, NotifyAll,
     SubscriberThrows, Abort

\* A dispatcher that left the publish step with success works on a message
\* whose events the broker has.
Transmitted ==
    \A d \in Dispatcher :
        pc[d] \in {"acknowledge", "recordAckFailure", "notify"} => FullyDelivered(msg[d])

BrokerInv == TypeInv /\ Transmitted /\ BrokerFirst

LEMMA FullyDeliveredStays ==
  ASSUME TypeInv, [Next]_vars, NEW m \in Message, FullyDelivered(m)
  PROVE  FullyDelivered(m)'
<1>1. Grown
  BY DeliveredGrows
<1>2. TypeOK'
  BY NextTypeInv DEF TypeInv
<1> QED
  BY <1>1, <1>2 DEF TypeInv, TypeOK, Grown, FullyDelivered

LEMMA DeliverAll ==
  ASSUME TypeOK, NEW m \in Message, Deliver(m, EventCount)
  PROVE  FullyDelivered(m)'
BY EventCountAssumption DEF TypeOK, Deliver, FullyDelivered, Event

LEMMA NextTransmitted == BrokerInv /\ [Next]_vars => Transmitted'
<1> SUFFICES ASSUME BrokerInv, [Next]_vars, NEW d \in Dispatcher,
                    pc'[d] \in {"acknowledge", "recordAckFailure", "notify"}
             PROVE  FullyDelivered(msg[d])'
  BY DEF Transmitted
<1> USE DEF BrokerInv, TypeInv, TypeOK
<1>1. CASE pc'[d] = pc[d] /\ msg'[d] = msg[d]
  <2>1. msg[d] \in Message /\ FullyDelivered(msg[d])
    BY <1>1 DEF Transmitted, HoldsMessage, Holding
  <2>2. PICK m \in Message : m = msg[d]
    BY <2>1
  <2>3. FullyDelivered(m)'
    BY <2>1, <2>2, FullyDeliveredStays
  <2>4. QED
    BY <1>1, <2>2, <2>3 DEF FullyDelivered
<1>2. ASSUME Publish(d) PROVE FullyDelivered(msg[d])'
  <2>1. PICK m \in todo[d] : PublishTo(d, m)
    BY <1>2 DEF Publish
  <2>2. m \in Message /\ msg'[d] = m /\ Deliver(m, EventCount)
    BY <2>1 DEF PublishTo
  <2>3. QED
    BY <2>2, DeliverAll DEF FullyDelivered
<1>3. ASSUME Acknowledge(d) PROVE FullyDelivered(msg[d])'
  BY <1>3 DEF Acknowledge, Transmitted, FullyDelivered
<1>4. CASE UNCHANGED vars
  BY <1>1, <1>4 DEF vars
<1>5. ASSUME NEW c \in Dispatcher, Dispatch(c) \/ Abort(c)
      PROVE  FullyDelivered(msg[d])'
  <2>1. CASE c # d
    BY <1>1, <1>5, <2>1 DEF Dispatch, ListPending, Publish, PublishTo, RecordFailure,
       Acknowledge, RecordAckFailure, Notify, NotifyAll, SubscriberThrows, Abort,
       NextMessage, Quit
  <2>2. CASE c = d
    BY <1>2, <1>3, <1>5, <2>2 DEF Dispatch, ListPending, RecordFailure,
       RecordAckFailure, Notify, NotifyAll, SubscriberThrows, Abort, NextMessage, Quit
  <2>3. QED
    BY <2>1, <2>2
<1>6. ASSUME NEW m \in Message, Save(m) \/ RetryDelayElapses(m)
      PROVE  FullyDelivered(msg[d])'
  BY <1>1, <1>6 DEF Save, RetryDelayElapses
<1> QED
  BY <1>4, <1>5, <1>6 DEF Next

LEMMA NextBrokerFirst == BrokerInv /\ [Next]_vars => BrokerFirst'
<1> SUFFICES ASSUME BrokerInv, [Next]_vars, NEW m \in Message,
                    m \in published' \/ notified'[m] > 0
             PROVE  FullyDelivered(m)'
  BY DEF BrokerFirst
<1> USE DEF BrokerInv, TypeInv, TypeOK
<1>1. CASE m \in published \/ notified[m] > 0
  BY <1>1, FullyDeliveredStays DEF BrokerFirst
<1>2. ASSUME NEW d \in Dispatcher, m = msg[d], pc[d] \in {"acknowledge", "notify"}
      PROVE  FullyDelivered(m)'
  BY <1>2, FullyDeliveredStays DEF Transmitted
<1> QED
  BY <1>1, <1>2 DEF Next, vars, columns, Save, RetryDelayElapses, Dispatch, ListPending,
     Publish, RecordFailure, Acknowledge, RecordAckFailure, Notify, NotifyAll,
     SubscriberThrows, Abort,
     MarkAsPublished, MarkAsFailed

\* No message counts as published, and none of its events reaches the
\* subscriber, before the broker has all of them: for any number of dispatchers,
\* any interleaving, partial publishes, rejected acknowledgements and dispatch
\* runs that die anywhere.
THEOREM BrokerFirstHolds == Spec => []BrokerFirst
<1>1. Init => BrokerInv
  BY InitTypeInv DEF Init, BrokerInv, Transmitted, BrokerFirst
<1>2. BrokerInv /\ [Next]_vars => BrokerInv'
  BY NextTypeInv, NextTransmitted, NextBrokerFirst DEF BrokerInv
<1>3. BrokerInv => BrokerFirst
  BY DEF BrokerInv
<1> QED
  BY <1>1, <1>2, <1>3, PTL DEF Spec

-----------------------------------------------------------------------------
(* Giving up                                                               *)

\* A listed retryCount may be out of date, but never ahead of the table.
ListedNotAhead ==
    \A d \in Dispatcher, m \in Message : seen[d][m] <= retryCount[m]

\* Failures are only ever added to a message.
LEMMA RetryCountGrows ==
  ASSUME TypeInv, [Next]_vars, NEW m \in Message
  PROVE  retryCount'[m] >= retryCount[m]
<1> USE DEF TypeInv, TypeOK
<1>1. CASE UNCHANGED retryCount
  BY <1>1
<1>2. ASSUME NEW n, NEW g, MarkAsFailed(n, g) PROVE retryCount'[m] >= retryCount[m]
  BY <1>2 DEF MarkAsFailed
<1> QED
  BY <1>1, <1>2 DEF Next, vars, columns, Save, RetryDelayElapses, Dispatch, ListPending,
     Publish, RecordFailure, Acknowledge, RecordAckFailure, Notify, NotifyAll,
     SubscriberThrows, Abort

LEMMA NextListedNotAhead ==
  ASSUME TypeInv, ListedNotAhead, [Next]_vars PROVE ListedNotAhead'
<1> SUFFICES ASSUME NEW d \in Dispatcher, NEW m \in Message
             PROVE  seen'[d][m] <= retryCount'[m]
  BY DEF ListedNotAhead
<1> USE DEF TypeInv, TypeOK
<1>1. retryCount'[m] >= retryCount[m] /\ retryCount'[m] \in Nat
  BY RetryCountGrows, NextTypeInv
<1>2. CASE seen'[d][m] = seen[d][m]
  BY <1>1, <1>2 DEF ListedNotAhead
<1>3. ASSUME NEW c \in Dispatcher, ListPending(c) PROVE seen'[d][m] <= retryCount'[m]
  <2>1. CASE c # d
    BY <1>2, <1>3, <2>1 DEF ListPending
  <2>2. CASE c = d
    <3>1. seen'[d][m] = retryCount[m] \/ seen'[d][m] = 0
      BY <1>3, <2>2 DEF ListPending
    <3>2. QED
      BY <1>1, <3>1
  <2>3. QED
    BY <2>1, <2>2
<1> QED
  BY <1>2, <1>3 DEF Next, vars, Save, RetryDelayElapses, Dispatch, Publish,
     RecordFailure, Acknowledge, RecordAckFailure, Notify, NotifyAll,
     SubscriberThrows, Abort

GivingUpInv == BrokerInv /\ ListedNotAhead /\ GivenUpOnlyWhenExhausted

LEMMA NextGivenUp ==
  ASSUME GivingUpInv, [Next]_vars PROVE GivenUpOnlyWhenExhausted'
<1> SUFFICES ASSUME NEW m \in Message, m \in deadLettered'
             PROVE  retryCount'[m] >= MaxAttempts \/ FullyDelivered(m)'
  BY DEF GivenUpOnlyWhenExhausted
<1> USE DEF GivingUpInv, BrokerInv, TypeInv, TypeOK
<1>1. CASE m \in deadLettered
  BY <1>1, RetryCountGrows, NextTypeInv, FullyDeliveredStays, AttemptsAssumption
     DEF GivenUpOnlyWhenExhausted
<1>2. ASSUME NEW d \in Dispatcher, RecordFailure(d), m \notin deadLettered
      PROVE  retryCount'[m] >= MaxAttempts
  <2>1. m = msg[d] /\ GivesUp(d, m)
    BY <1>2 DEF RecordFailure, MarkAsFailed
  <2>2. retryCount'[m] = retryCount[m] + 1
    BY <1>2, <2>1 DEF RecordFailure, MarkAsFailed
  <2>3. KnownRetryCount(d, m) <= retryCount[m] /\ KnownRetryCount(d, m) \in Nat
    BY DEF KnownRetryCount, ListedNotAhead
  <2>4. QED
    BY <2>1, <2>2, <2>3, AttemptsAssumption DEF GivesUp
<1>3. ASSUME NEW d \in Dispatcher, RecordAckFailure(d), m \notin deadLettered
      PROVE  FullyDelivered(m)'
  <2>1. m = msg[d]
    BY <1>3 DEF RecordAckFailure, MarkAsFailed
  <2>2. QED
    BY <1>3, <2>1, FullyDeliveredStays DEF RecordAckFailure, Transmitted
<1> QED
  BY <1>1, <1>2, <1>3 DEF Next, vars, columns, Save, RetryDelayElapses, Dispatch,
     ListPending, Publish, Acknowledge, Notify, NotifyAll, SubscriberThrows, Abort

\* However stale the retryCount a dispatcher listed, a message is dead-lettered
\* only after maxAttempts recorded failures or once the broker has all of it.
THEOREM GivenUpOnlyWhenExhaustedHolds == Spec => []GivenUpOnlyWhenExhausted
<1>1. Init => GivingUpInv
  BY InitTypeInv DEF Init, GivingUpInv, BrokerInv, Transmitted, BrokerFirst,
     ListedNotAhead, GivenUpOnlyWhenExhausted
<1>2. GivingUpInv /\ [Next]_vars => GivingUpInv'
  BY NextTypeInv, NextTransmitted, NextBrokerFirst, NextListedNotAhead, NextGivenUp
     DEF GivingUpInv, BrokerInv
<1>3. GivingUpInv => GivenUpOnlyWhenExhausted
  BY DEF GivingUpInv
<1> QED
  BY <1>1, <1>2, <1>3, PTL DEF Spec

\* With live reads the dispatcher decides on the count it then increments.
LEMMA NextExhausted ==
  ASSUME TypeInv, ExhaustedIsDeadLettered, [Next]_vars
  PROVE  ExhaustedIsDeadLettered'
<1>0. liveReads' = liveReads
  BY DEF Next, vars, columns, Save, RetryDelayElapses, Dispatch, ListPending, Publish,
     RecordFailure, Acknowledge, RecordAckFailure, Notify, NotifyAll,
     SubscriberThrows, Abort, MarkAsFailed
<1> SUFFICES ASSUME liveReads, NEW m \in Message, Exhausted(m)'
             PROVE  m \in deadLettered'
  BY <1>0 DEF ExhaustedIsDeadLettered
<1> USE DEF TypeInv, TypeOK
<1>1. CASE UNCHANGED <<retryCount, deadLettered>>
  BY <1>1 DEF ExhaustedIsDeadLettered, Exhausted
<1>2. ASSUME NEW d \in Dispatcher, RecordFailure(d) PROVE m \in deadLettered'
  <2>1. CASE m = msg[d]
    <3>1. retryCount'[m] = retryCount[m] + 1
      BY <1>2, <2>1 DEF RecordFailure, MarkAsFailed
    <3>2. GivesUp(d, m)
      BY <3>1 DEF GivesUp, KnownRetryCount, Exhausted
    <3>3. QED
      BY <1>2, <2>1, <3>2 DEF RecordFailure, MarkAsFailed
  <2>2. CASE m # msg[d]
    BY <1>2, <2>2 DEF RecordFailure, MarkAsFailed, ExhaustedIsDeadLettered, Exhausted
  <2>3. QED
    BY <2>1, <2>2
<1>3. ASSUME NEW d \in Dispatcher, RecordAckFailure(d) PROVE m \in deadLettered'
  BY <1>3 DEF RecordAckFailure, MarkAsFailed, ExhaustedIsDeadLettered, Exhausted
<1> QED
  BY <1>1, <1>2, <1>3 DEF Next, vars, columns, Save, RetryDelayElapses, Dispatch,
     ListPending, Publish, Acknowledge, Notify, NotifyAll, SubscriberThrows, Abort

\* Over a store that returns live records any number of dispatchers may share
\* the outbox: a message that failed maxAttempts times is a dead letter.
THEOREM ExhaustedIsDeadLetteredHolds == Spec => []ExhaustedIsDeadLettered
<1>1. Init => ExhaustedIsDeadLettered
  BY DEF Init, ExhaustedIsDeadLettered, Exhausted
<1>2. TypeInv /\ ExhaustedIsDeadLettered /\ [Next]_vars => ExhaustedIsDeadLettered'
  BY NextExhausted
<1> QED
  BY <1>1, <1>2, TypeInvariant, PTL DEF Spec

-----------------------------------------------------------------------------
(* The subscriber                                                          *)

LEMMA AllHandled ==
  ASSUME NEW n \in 0..EventCount PROVE n = EventCount \/ n < EventCount
<1>1. EventCount \in Int
  BY EventCountAssumption
<1> QED
  BY <1>1

LEMMA NothingBelowItself == ~(EventCount < EventCount)
<1>1. EventCount \in Int
  BY EventCountAssumption
<1> QED
  BY <1>1

LEMMA NextGapsExplained == TypeInv /\ GapsExplained /\ [Next]_vars => GapsExplained'
<1> SUFFICES ASSUME TypeInv, GapsExplained, [Next]_vars, NEW m \in Message,
                    m \in published', notified'[m] < EventCount, m \notin cut'
             PROVE  \E d \in Dispatcher : pc'[d] = "notify" /\ msg'[d] = m
  BY DEF GapsExplained
<1> USE DEF TypeInv, TypeOK
<1>1. cut \subseteq cut'
  BY DEF Next, vars, Save, RetryDelayElapses, Dispatch, ListPending, Publish,
     RecordFailure, Acknowledge, RecordAckFailure, Notify, NotifyAll,
     SubscriberThrows, Abort
<1>2. ASSUME NEW d \in Dispatcher, pc[d] = "notify", msg[d] = m
      PROVE  pc'[d] = "notify" /\ msg'[d] = m
  <2>1. ~Notify(d) /\ ~Abort(d)
    <3>1. CASE Notify(d)
      BY <1>2, <3>1, NothingBelowItself DEF Notify, NotifyAll, SubscriberThrows
    <3>2. CASE Abort(d)
      BY <1>2, <3>2 DEF Abort
    <3>3. QED
      BY <3>1, <3>2
  <2>2. ASSUME NEW c \in Dispatcher, Dispatch(c) \/ Abort(c)
        PROVE  pc'[d] = "notify" /\ msg'[d] = m
    <3>1. c # d
      BY <1>2, <2>1, <2>2 DEF Dispatch, ListPending, Publish, RecordFailure,
         Acknowledge, RecordAckFailure
    <3>2. QED
      BY <1>2, <2>2, <3>1 DEF Dispatch, ListPending, Publish, PublishTo, RecordFailure,
         Acknowledge, RecordAckFailure, Notify, NotifyAll, SubscriberThrows, Abort,
         NextMessage, Quit
  <2>3. QED
    BY <1>2, <2>2 DEF Next, vars, Save, RetryDelayElapses
<1>3. CASE m \notin published
  <2>1. PICK d \in Dispatcher : Acknowledge(d)
    BY <1>3 DEF Next, vars, columns, Save, RetryDelayElapses, Dispatch, ListPending,
       Publish, RecordFailure, RecordAckFailure, Notify, NotifyAll,
       SubscriberThrows, Abort, MarkAsFailed
  <2>2. msg[d] = m
    BY <1>3, <2>1 DEF Acknowledge, MarkAsPublished
  <2>3. pc'[d] = "notify" /\ msg'[d] = m
    BY <2>1, <2>2 DEF Acknowledge
  <2>4. QED
    BY <2>3
<1>4. CASE m \in published /\ notified[m] < EventCount
  BY <1>1, <1>2, <1>4 DEF GapsExplained
<1>5. CASE m \in published /\ ~(notified[m] < EventCount)
  <2>0. notified[m] \in 0..EventCount
    BY DEF TypeOK
  <2>1. notified[m] = EventCount
    BY <1>5, <2>0, AllHandled
  <2>2. notified'[m] = EventCount
    <3>1. ASSUME NEW d \in Dispatcher, NotifyAll(d) PROVE notified'[m] = EventCount
      BY <2>1, <3>1 DEF NotifyAll
    <3>2. ASSUME NEW d \in Dispatcher, SubscriberThrows(d) PROVE notified'[m] = EventCount
      BY <2>1, <3>2, EventCountAssumption DEF SubscriberThrows
    <3>3. CASE UNCHANGED notified
      BY <2>1, <3>3
    <3>4. QED
      BY <3>1, <3>2, <3>3 DEF Next, vars, Save, RetryDelayElapses, Dispatch, ListPending,
         Publish, RecordFailure, Acknowledge, RecordAckFailure, Notify, Abort
  <2>3. QED
    BY <2>2, EventCountAssumption
<1> QED
  BY <1>3, <1>4, <1>5

\* The subscriber misses events of a published message only through a rejected
\* acknowledgement, its own exception or a dispatcher that died.
THEOREM GapsExplainedHolds == Spec => []GapsExplained
<1>1. Init => GapsExplained
  BY DEF Init, GapsExplained
<1> QED
  BY <1>1, NextGapsExplained, TypeInvariant, PTL DEF Spec

-----------------------------------------------------------------------------
(* One dispatcher: what it has taken nobody else touches                   *)

OneDispatcher == \A c, d \in Dispatcher : c = d

\* The batch still to do is unsettled and its counts are current.
BatchCurrent ==
    \A d \in Dispatcher :
        /\ todo[d] \subseteq saved \ Settled
        /\ msg[d] \notin todo[d]
        /\ \A m \in todo[d] : seen[d][m] = retryCount[m]

\* So is the message at hand, until its own outcome is recorded.
HandCurrent ==
    \A d \in Dispatcher :
        /\ pc[d] \in {"recordFailure", "acknowledge"} => msg[d] \in saved \ Settled
        /\ pc[d] = "recordFailure" => seen[d][msg[d]] = retryCount[msg[d]]
        /\ pc[d] = "recordAckFailure" => msg[d] \in saved \ deadLettered
        /\ pc[d] = "notify" => msg[d] \in published
        /\ pc[d] \notin Holding => msg[d] = NoMessage

SoloInv ==
    /\ TypeInv /\ Transmitted /\ BrokerFirst
    /\ BatchCurrent /\ HandCurrent
    /\ Settled \subseteq saved

LEMMA InitSoloInv == Init => SoloInv
BY InitTypeInv, NoMessageAssumption
   DEF Init, SoloInv, Transmitted, BrokerFirst, BatchCurrent, HandCurrent, Settled, Holding

LEMMA NextSoloInv ==
  ASSUME OneDispatcher, SoloInv, [Next]_vars PROVE SoloInv'
<1> USE DEF SoloInv, TypeInv, TypeOK, Settled
<1>1. (TypeInv /\ Transmitted /\ BrokerFirst)'
  BY NextTypeInv, NextTransmitted, NextBrokerFirst DEF BrokerInv
<1>2. ASSUME NEW m \in Message, Save(m) \/ RetryDelayElapses(m)
      PROVE  (BatchCurrent /\ HandCurrent /\ Settled \subseteq saved)'
  BY <1>2 DEF Save, RetryDelayElapses, BatchCurrent, HandCurrent
<1>3. CASE UNCHANGED vars
  BY <1>1, <1>3 DEF vars, columns, BatchCurrent, HandCurrent
<1>4. ASSUME NEW d \in Dispatcher, Dispatch(d) \/ Abort(d)
      PROVE  (BatchCurrent /\ HandCurrent /\ Settled \subseteq saved)'
  <2>0. Dispatcher = {d}
    BY DEF OneDispatcher
  <2> USE <2>0 DEF BatchCurrent, HandCurrent, Holding
  <2>1. ASSUME ListPending(d) PROVE (BatchCurrent /\ HandCurrent /\ Settled \subseteq saved)'
    BY <2>1, NoMessageAssumption DEF ListPending, Pending, columns
  <2>2. ASSUME Publish(d) PROVE (BatchCurrent /\ HandCurrent /\ Settled \subseteq saved)'
    BY <2>2 DEF Publish, PublishTo, columns
  <2>3. ASSUME RecordFailure(d) PROVE (BatchCurrent /\ HandCurrent /\ Settled \subseteq saved)'
    BY <2>3, NoMessageAssumption DEF RecordFailure, MarkAsFailed, NextMessage
  <2>4. ASSUME Acknowledge(d) PROVE (BatchCurrent /\ HandCurrent /\ Settled \subseteq saved)'
    BY <2>4 DEF Acknowledge, MarkAsPublished
  <2>5. ASSUME RecordAckFailure(d) PROVE (BatchCurrent /\ HandCurrent /\ Settled \subseteq saved)'
    BY <2>5, NoMessageAssumption DEF RecordAckFailure, MarkAsFailed, NextMessage
  <2>6. ASSUME Notify(d) PROVE (BatchCurrent /\ HandCurrent /\ Settled \subseteq saved)'
    BY <2>6, NoMessageAssumption DEF Notify, NotifyAll, SubscriberThrows,
           NextMessage, Quit, columns
  <2>7. ASSUME Abort(d) PROVE (BatchCurrent /\ HandCurrent /\ Settled \subseteq saved)'
    BY <2>7, NoMessageAssumption DEF Abort, Quit, columns
  <2>8. QED
    BY <1>4, <2>1, <2>2, <2>3, <2>4, <2>5, <2>6, <2>7 DEF Dispatch
<1> QED
  BY <1>1, <1>2, <1>3, <1>4 DEF Next

LEMMA SoloInvariant == ASSUME OneDispatcher PROVE Spec => []SoloInv
<1>1. SoloInv /\ [Next]_vars => SoloInv'
  BY NextSoloInv
<1> QED
  BY <1>1, InitSoloInv, PTL DEF Spec

\* With one dispatcher, published and dead-lettered are final and the broker
\* never sees the message again, even after a rejected acknowledgement or a
\* dispatch that died.
THEOREM SettledIsFinalHolds == ASSUME OneDispatcher PROVE Spec => SettledIsFinal
<1>1. ASSUME SoloInv, [Next]_vars
      PROVE  [\A m \in Message :
                m \in Settled => m \in Settled' /\ delivered'[m] = delivered[m]]_vars
  <2> SUFFICES ASSUME NEW m \in Message, m \in Settled
               PROVE  m \in Settled' /\ delivered'[m] = delivered[m]
    BY <1>1
  <2> USE <1>1 DEF SoloInv, TypeInv, TypeOK, Settled
  <2>1. ASSUME NEW d \in Dispatcher, Publish(d)
        PROVE  m \in Settled' /\ delivered'[m] = delivered[m]
    <3>1. PICK n \in todo[d] : PublishTo(d, n)
      BY <2>1 DEF Publish
    <3>2. n # m
      BY DEF BatchCurrent
    <3>3. QED
      BY <2>1, <3>1, <3>2 DEF Publish, PublishTo, Deliver, columns
  <2>2. ASSUME NEW d \in Dispatcher, RecordFailure(d)
        PROVE  m \in Settled' /\ delivered'[m] = delivered[m]
    BY <2>2 DEF RecordFailure, MarkAsFailed, HandCurrent
  <2>3. QED
    BY <2>1, <2>2 DEF Next, vars, columns, Save, RetryDelayElapses, Dispatch,
       ListPending, Acknowledge, RecordAckFailure, Notify, NotifyAll,
       SubscriberThrows, Abort, MarkAsPublished,
       MarkAsFailed
<1> QED
  BY <1>1, SoloInvariant, PTL DEF Spec, SettledIsFinal

-----------------------------------------------------------------------------
(* Duplicates are accounted for, by any dispatchers                        *)

\* A dispatcher at rest has no batch; before publish it has no message, and the one
\* it has is off its batch; it notifies of what is published.
HandsApart ==
    \A d \in Dispatcher :
        /\ pc[d] = "idle" => todo[d] = {}
        /\ pc[d] \notin Holding => msg[d] = NoMessage
        /\ msg[d] \notin todo[d]
        /\ pc[d] = "notify" => msg[d] \in published

LEMMA NextHandsApart == TypeInv /\ HandsApart /\ [Next]_vars => HandsApart'
<1> SUFFICES ASSUME TypeInv, HandsApart, [Next]_vars PROVE HandsApart'
  OBVIOUS
<1> USE NoMessageAssumption DEF TypeInv, TypeOK, HandsApart, HoldsMessage, Holding
<1>1. ASSUME NEW m \in Message, Save(m) \/ RetryDelayElapses(m) PROVE HandsApart'
  BY <1>1 DEF Save, RetryDelayElapses
<1>2. ASSUME NEW d \in Dispatcher, ListPending(d) PROVE HandsApart'
  <2>1. PICK B \in SUBSET Pending : todo' = [todo EXCEPT ![d] = B]
    BY <1>2 DEF ListPending
  <2>2. B \in SUBSET Message
    BY DEF Pending
  <2>3. QED
    BY <1>2, <2>1, <2>2 DEF ListPending, columns
<1>3. ASSUME NEW d \in Dispatcher, Publish(d) PROVE HandsApart'
  <2>1. PICK m \in todo[d] : PublishTo(d, m)
    BY <1>3 DEF Publish
  <2>2. /\ todo' = [todo EXCEPT ![d] = @ \ {m}] /\ msg' = [msg EXCEPT ![d] = m]
        /\ pc' \in {[pc EXCEPT ![d] = "acknowledge"], [pc EXCEPT ![d] = "recordFailure"]}
        /\ UNCHANGED published
    BY <1>3, <2>1 DEF Publish, PublishTo, columns
  <2>3. QED
    BY <2>2
<1>4. ASSUME NEW d \in Dispatcher, RecordFailure(d) \/ RecordAckFailure(d) PROVE HandsApart'
  <2>1. /\ pc' = [pc EXCEPT ![d] = IF todo[d] = {} THEN "idle" ELSE "publish"]
        /\ msg' = [msg EXCEPT ![d] = NoMessage] /\ UNCHANGED <<todo, published>>
    BY <1>4 DEF RecordFailure, RecordAckFailure, MarkAsFailed, NextMessage
  <2>2. NoMessage \notin todo[d]
    OBVIOUS
  <2>3. QED
    BY <2>1, <2>2
<1>5. ASSUME NEW d \in Dispatcher, Acknowledge(d) PROVE HandsApart'
  BY <1>5 DEF Acknowledge, MarkAsPublished
<1>6. ASSUME NEW d \in Dispatcher, Notify(d) PROVE HandsApart'
  BY <1>6 DEF Notify, NotifyAll, SubscriberThrows, NextMessage, Quit, columns
<1>7. ASSUME NEW d \in Dispatcher, Abort(d) PROVE HandsApart'
  BY <1>7 DEF Abort, Quit, columns
<1>8. CASE UNCHANGED vars
  BY <1>8 DEF vars, columns
<1>9. QED
  BY <1>1, <1>2, <1>3, <1>4, <1>5, <1>6, <1>7, <1>8 DEF Next, Dispatch

\* The dispatchers that have one delivery of m each which no failure pays for: those
\* that have m in hand and, once it is published, all but those that listed it
\* before and have yet to come to it.
Spent(m) ==
    IF m \in published THEN {d \in Dispatcher : m \notin todo[d]}
    ELSE {d \in Dispatcher : msg[d] = m}

DeliveriesAccountedFor ==
    \A m \in Message, e \in Event :
        delivered[m][e] <= retryCount[m] + aborts + Cardinality(Spent(m))

LEMMA SpentSize ==
  ASSUME IsFiniteSet(Dispatcher), NEW S \in SUBSET Dispatcher, NEW T \in SUBSET Dispatcher,
         NEW d \in Dispatcher
  PROVE  /\ Cardinality(S) \in Nat /\ Cardinality(T) \in Nat
         /\ S \subseteq T => Cardinality(S) <= Cardinality(T)
         /\ S \ {d} \subseteq T => Cardinality(S) <= Cardinality(T) + 1
         /\ d \notin S /\ S \cup {d} \subseteq T => Cardinality(S) + 1 <= Cardinality(T)
<1>1. IsFiniteSet(S) /\ IsFiniteSet(T) /\ Cardinality(S) \in Nat /\ Cardinality(T) \in Nat
  BY FS_Subset, FS_CardinalityType
<1>2. S \subseteq T => Cardinality(S) <= Cardinality(T)
  BY <1>1, FS_Subset
<1>3. S \ {d} \subseteq T => Cardinality(S) <= Cardinality(T) + 1
  <2>1. Cardinality(S \ {d}) = IF d \in S THEN Cardinality(S) - 1 ELSE Cardinality(S)
    BY <1>1, FS_RemoveElement
  <2>2. S \ {d} \subseteq T => Cardinality(S \ {d}) <= Cardinality(T)
    BY <1>1, FS_Subset
  <2>3. QED
    BY <1>1, <2>1, <2>2
<1>4. d \notin S /\ S \cup {d} \subseteq T => Cardinality(S) + 1 <= Cardinality(T)
  <2>1. d \notin S => Cardinality(S \cup {d}) = Cardinality(S) + 1
    BY <1>1, FS_AddElement
  <2>2. S \cup {d} \subseteq T => Cardinality(S \cup {d}) <= Cardinality(T)
    BY <1>1, FS_Subset
  <2>3. QED
    BY <2>1, <2>2
<1>5. QED
  BY <1>1, <1>2, <1>3, <1>4

\* What a step of one dispatcher does to the accounts of a message.
LEMMA SpentStep ==
  ASSUME TypeInv, HandsApart, NEW m \in Message, NEW d \in Dispatcher, Dispatch(d) \/ Abort(d)
  PROVE  \/ /\ Spent(m) \subseteq Spent(m)'
            /\ delivered'[m] = delivered[m]
            /\ UNCHANGED aborts
         \/ /\ d \notin Spent(m) /\ Spent(m) \cup {d} \subseteq Spent(m)'
            /\ \A e \in Event : delivered'[m][e] \in {delivered[m][e], delivered[m][e] + 1}
            /\ UNCHANGED <<aborts, retryCount>>
         \/ /\ Spent(m) \ {d} \subseteq Spent(m)'
            /\ delivered'[m] = delivered[m]
            /\ \/ retryCount'[m] = retryCount[m] + 1 /\ UNCHANGED aborts
               \/ UNCHANGED retryCount /\ aborts' = aborts + 1
<1> USE NoMessageAssumption DEF TypeInv, TypeOK, HandsApart, HoldsMessage, Holding, Spent
<1>1. CASE ListPending(d)
  <2>1. PICK B \in SUBSET Pending : todo' = [todo EXCEPT ![d] = B]
    BY <1>1 DEF ListPending
  <2>2. m \in published => m \notin B
    BY DEF Pending, Settled
  <2>3. UNCHANGED <<published, msg, delivered, aborts>>
    BY <1>1 DEF ListPending, columns
  <2>4. QED
    BY <2>1, <2>2, <2>3
<1>2. CASE Publish(d)
  <2>1. PICK n \in todo[d] : PublishTo(d, n)
    BY <1>2 DEF Publish
  <2>2. /\ UNCHANGED <<published, retryCount, aborts>> /\ msg[d] = NoMessage
        /\ todo' = [todo EXCEPT ![d] = @ \ {n}] /\ msg' = [msg EXCEPT ![d] = n]
    BY <1>2, <2>1 DEF Publish, PublishTo, columns
  <2>3. CASE n = m
    <3>1. PICK k : Deliver(m, k)
      BY <2>1, <2>3 DEF PublishTo
    <3>2. \A e \in Event : delivered'[m][e] \in {delivered[m][e], delivered[m][e] + 1}
      BY <3>1 DEF Deliver
    <3>3. d \notin Spent(m) /\ Spent(m) \cup {d} \subseteq Spent(m)'
      BY <2>2, <2>3
    <3>4. QED
      BY <2>2, <3>2, <3>3
  <2>4. CASE n # m
    <3>1. delivered'[m] = delivered[m]
      BY <2>1, <2>4 DEF PublishTo, Deliver
    <3>2. Spent(m) \subseteq Spent(m)'
      BY <2>2, <2>4
    <3>3. QED
      BY <2>2, <3>1, <3>2
  <2>5. QED
    BY <2>3, <2>4
<1>3. CASE RecordFailure(d) \/ RecordAckFailure(d)
  <2>1. /\ UNCHANGED <<published, delivered, aborts, todo>>
        /\ msg' = [msg EXCEPT ![d] = NoMessage]
        /\ retryCount' = [retryCount EXCEPT ![msg[d]] = @ + 1]
    BY <1>3 DEF RecordFailure, RecordAckFailure, MarkAsFailed, NextMessage
  <2>2. CASE m = msg[d]
    <3>1. retryCount'[m] = retryCount[m] + 1 /\ Spent(m) \ {d} \subseteq Spent(m)'
      BY <2>1, <2>2
    <3>2. QED
      BY <2>1, <3>1
  <2>3. CASE m # msg[d]
    <3>1. Spent(m) \subseteq Spent(m)'
      BY <2>1, <2>3
    <3>2. QED
      BY <2>1, <3>1
  <2>4. QED
    BY <2>2, <2>3
<1>4. CASE Acknowledge(d)
  <2>1. /\ UNCHANGED <<delivered, aborts, todo, msg>>
        /\ published' = published \/ published' = published \cup {msg[d]}
    BY <1>4 DEF Acknowledge, MarkAsPublished
  <2>2. Spent(m) \subseteq Spent(m)'
    BY <2>1
  <2>3. QED
    BY <2>1, <2>2
<1>5. CASE Notify(d)
  <2>1. /\ UNCHANGED <<published, delivered, aborts>> /\ msg[d] \in published
        /\ msg' = [msg EXCEPT ![d] = NoMessage]
        /\ \A c \in Dispatcher : todo'[c] \subseteq todo[c]
    BY <1>5 DEF Notify, NotifyAll, SubscriberThrows, NextMessage, Quit, columns
  <2>2. Spent(m) \subseteq Spent(m)'
    BY <2>1
  <2>3. QED
    BY <2>1, <2>2
<1>6. CASE Abort(d)
  <2>1. /\ UNCHANGED <<published, delivered, retryCount>> /\ aborts' = aborts + 1
        /\ msg' = [msg EXCEPT ![d] = NoMessage]
        /\ \A c \in Dispatcher : todo'[c] \subseteq todo[c]
    BY <1>6 DEF Abort, Quit, columns
  <2>2. Spent(m) \ {d} \subseteq Spent(m)'
    BY <2>1
  <2>3. QED
    BY <2>1, <2>2
<1>7. QED
  BY <1>1, <1>2, <1>3, <1>4, <1>5, <1>6 DEF Dispatch

LEMMA NextDeliveriesAccountedFor ==
  ASSUME IsFiniteSet(Dispatcher), TypeInv, HandsApart, DeliveriesAccountedFor, [Next]_vars
  PROVE  DeliveriesAccountedFor'
<1> SUFFICES ASSUME NEW m \in Message, NEW e \in Event
             PROVE  delivered'[m][e] <= retryCount'[m] + aborts' + Cardinality(Spent(m)')
  BY DEF DeliveriesAccountedFor, Event
<1>1. /\ delivered[m][e] \in Nat /\ delivered'[m][e] \in Nat
      /\ retryCount[m] \in Nat /\ retryCount'[m] \in Nat
      /\ aborts \in Nat /\ aborts' \in Nat
      /\ retryCount'[m] >= retryCount[m]
  BY NextTypeInv, RetryCountGrows, AbortsAssumption DEF TypeInv, TypeOK
<1>2. delivered[m][e] <= retryCount[m] + aborts + Cardinality(Spent(m))
  BY DEF DeliveriesAccountedFor
<1>3. Spent(m) \in SUBSET Dispatcher /\ Spent(m)' \in SUBSET Dispatcher
  BY DEF Spent
<1>4. ASSUME NEW d \in Dispatcher, Dispatch(d) \/ Abort(d)
      PROVE  delivered'[m][e] <= retryCount'[m] + aborts' + Cardinality(Spent(m)')
  <2> DEFINE c == Cardinality(Spent(m))
             k == Cardinality(Spent(m)')
  <2>1. c \in Nat /\ k \in Nat
    BY <1>3, <1>4, SpentSize
  <2>2. CASE Spent(m) \subseteq Spent(m)' /\ delivered'[m] = delivered[m] /\ UNCHANGED aborts
    <3>1. c <= k
      BY <1>3, <1>4, <2>2, SpentSize
    <3>2. QED
      BY <1>1, <1>2, <2>1, <2>2, <3>1
  <2>3. CASE /\ d \notin Spent(m) /\ Spent(m) \cup {d} \subseteq Spent(m)'
             /\ delivered'[m][e] \in {delivered[m][e], delivered[m][e] + 1}
             /\ UNCHANGED <<aborts, retryCount>>
    <3>1. c + 1 <= k
      BY <1>3, <1>4, <2>3, SpentSize
    <3>2. QED
      BY <1>1, <1>2, <2>1, <2>3, <3>1
  <2>4. CASE /\ Spent(m) \ {d} \subseteq Spent(m)' /\ delivered'[m] = delivered[m]
             /\ \/ retryCount'[m] = retryCount[m] + 1 /\ UNCHANGED aborts
                \/ UNCHANGED retryCount /\ aborts' = aborts + 1
    <3>1. c <= k + 1
      BY <1>3, <1>4, <2>4, SpentSize
    <3>2. QED
      BY <1>1, <1>2, <2>1, <2>4, <3>1
  <2>5. QED
    BY <1>4, <2>2, <2>3, <2>4, SpentStep
<1>5. CASE UNCHANGED vars \/ \E n \in Message : Save(n) \/ RetryDelayElapses(n)
  <2>1. UNCHANGED <<delivered, retryCount, aborts, published, todo, msg>>
    BY <1>5 DEF vars, columns, Save, RetryDelayElapses
  <2>2. Spent(m)' = Spent(m)
    BY <2>1 DEF Spent
  <2>3. QED
    BY <1>2, <2>1, <2>2
<1>6. QED
  BY <1>4, <1>5 DEF Next

\* For any finite set of dispatchers: the broker sees an event more often than once
\* per dispatcher only through recorded failures and dispatch runs that died.
THEOREM DuplicatesAccountedForHolds ==
  ASSUME IsFiniteSet(Dispatcher) PROVE Spec => []DuplicatesAccountedFor
<1>1. Init => HandsApart /\ DeliveriesAccountedFor
  <2> SUFFICES ASSUME Init PROVE HandsApart /\ DeliveriesAccountedFor
    OBVIOUS
  <2>1. HandsApart
    BY DEF Init, HandsApart, Holding
  <2>2. ASSUME NEW m \in Message, NEW e \in Event
        PROVE  delivered[m][e] <= retryCount[m] + aborts + Cardinality(Spent(m))
    <3>1. delivered[m][e] = 0 /\ retryCount[m] = 0 /\ aborts = 0
      BY DEF Init
    <3>2. Spent(m) \subseteq Dispatcher
      BY DEF Spent
    <3>3. Cardinality(Spent(m)) \in Nat
      BY <3>2, FS_Subset, FS_CardinalityType
    <3>4. QED
      BY <3>1, <3>3
  <2>3. QED
    BY <2>1, <2>2 DEF DeliveriesAccountedFor
<1>2. TypeInv /\ HandsApart /\ DeliveriesAccountedFor /\ [Next]_vars
        => HandsApart' /\ DeliveriesAccountedFor'
  BY NextHandsApart, NextDeliveriesAccountedFor
<1>3. TypeInv /\ DeliveriesAccountedFor => DuplicatesAccountedFor
  <2> SUFFICES ASSUME TypeInv, DeliveriesAccountedFor, NEW m \in Message, NEW e \in Event
               PROVE  delivered[m][e] <= retryCount[m] + aborts + Cardinality(Dispatcher)
    BY DEF DuplicatesAccountedFor
  <2>1. Spent(m) \subseteq Dispatcher
    BY DEF Spent
  <2>2. /\ Cardinality(Spent(m)) \in Nat /\ Cardinality(Dispatcher) \in Nat
        /\ Cardinality(Spent(m)) <= Cardinality(Dispatcher)
    BY <2>1, FS_Subset, FS_CardinalityType
  <2>3. delivered[m][e] \in Nat /\ retryCount[m] \in Nat /\ aborts \in Nat
    BY AbortsAssumption DEF TypeInv, TypeOK
  <2>4. delivered[m][e] <= retryCount[m] + aborts + Cardinality(Spent(m))
    BY DEF DeliveriesAccountedFor
  <2>5. QED
    BY <2>2, <2>3, <2>4
<1> QED
  BY <1>1, <1>2, <1>3, TypeInvariant, PTL DEF Spec

-----------------------------------------------------------------------------
(* One dispatcher implements ReliableDelivery                              *)

Stages == [m \in Message |-> StageOf(m)]

LEMMA InitImplements == Init => Delivery!DeliveryInit
BY DEF Init, Delivery!DeliveryInit, StageOf, Event

LEMMA StageStutters ==
  ASSUME UNCHANGED columns PROVE Stages' = Stages
BY DEF columns, Stages, StageOf

\* Only the stage of the message a step works on changes.
LEMMA StageMoves ==
  ASSUME NEW m \in Message, NEW s, StageOf(m)' = s,
         \A n \in Message \ {m} : StageOf(n)' = StageOf(n)
  PROVE  Stages' = [Stages EXCEPT ![m] = s]
BY DEF Stages

\* Every step of the dispatcher is a step of ReliableDelivery or a stutter.
LEMMA StepImplements ==
  ASSUME OneDispatcher, SoloInv, SoloInv', [Next]_vars
  PROVE  [Delivery!DeliveryNext]_(Delivery!deliveryVars)
<1> USE DEF SoloInv, TypeInv, TypeOK, Settled
<1> DEFINE Implements == [Delivery!DeliveryNext]_(Delivery!deliveryVars)
<1>1. ASSUME UNCHANGED <<columns, delivered>> PROVE Implements
  BY <1>1, StageStutters DEF columns, Stages, Delivery!deliveryVars
<1>2. ASSUME NEW m \in Message, Save(m) PROVE Implements
  <2>1. StageOf(m) = "unsaved" /\ StageOf(m)' = "pending"
    BY <1>2 DEF Save, StageOf
  <2>2. \A n \in Message \ {m} : StageOf(n)' = StageOf(n)
    BY <1>2 DEF Save, StageOf
  <2>3. Stages' = [Stages EXCEPT ![m] = "pending"]
    BY <2>1, <2>2, StageMoves
  <2>4. Delivery!Accept(m)
    BY <1>2, <2>1, <2>3 DEF Delivery!Accept, Stages, Save
  <2>5. QED
    BY <2>4 DEF Delivery!DeliveryNext
<1>3. ASSUME NEW m \in Message, RetryDelayElapses(m) PROVE Implements
  <2>1. Stages' = Stages /\ UNCHANGED <<delivered, retryCount>>
    BY <1>3 DEF RetryDelayElapses, Stages, StageOf
  <2>2. QED
    BY <2>1 DEF Stages, Delivery!deliveryVars
<1>4. ASSUME NEW d \in Dispatcher, Publish(d) PROVE Implements
  <2>1. PICK m \in todo[d] : PublishTo(d, m)
    BY <1>4 DEF Publish
  <2>2. m \in Message /\ StageOf(m) = "pending"
    BY DEF BatchCurrent, StageOf
  <2>3. PICK n \in 0..EventCount : Deliver(m, n)
    BY <2>1, EventCountAssumption DEF PublishTo
  <2>4. Stages' = Stages /\ retryCount' = retryCount
    BY <1>4, StageStutters DEF Publish, columns
  <2>5. CASE n = 0
    <3>1. \A e \in Event : ~(e <= n)
      BY <2>5 DEF Event
    <3>2. delivered' = delivered
      BY <2>2, <2>3, <3>1 DEF Deliver
    <3>3. QED
      BY <2>4, <3>2 DEF Stages, Delivery!deliveryVars
  <2>6. CASE n # 0
    <3>1. n \in 1..EventCount
      BY <2>6, EventCountAssumption
    <3>2. Delivery!Transmit(m)
      BY <2>2, <2>3, <2>4, <3>1 DEF Delivery!Transmit, Deliver, Stages, Event
    <3>3. QED
      BY <2>2, <3>2 DEF Delivery!DeliveryNext
  <2>7. QED
    BY <2>5, <2>6
<1>5. ASSUME NEW d \in Dispatcher, RecordFailure(d) PROVE Implements
  <2>1. PICK m \in Message : m = msg[d]
    BY <1>5 DEF RecordFailure, HoldsMessage, Holding
  <2>2. m \in saved \ Settled /\ seen[d][m] = retryCount[m]
    BY <1>5, <2>1 DEF RecordFailure, HandCurrent
  <2>3. GivesUp(d, m) <=> retryCount[m] + 1 >= MaxAttempts
    BY <2>2 DEF GivesUp, KnownRetryCount
  <2> DEFINE next == IF retryCount[m] + 1 >= MaxAttempts THEN "abandoned" ELSE "pending"
  <2>4. StageOf(m) = "pending" /\ StageOf(m)' = next
    BY <1>5, <2>1, <2>2, <2>3 DEF RecordFailure, MarkAsFailed, StageOf
  <2>5. \A n \in Message \ {m} : StageOf(n)' = StageOf(n)
    BY <1>5, <2>1 DEF RecordFailure, MarkAsFailed, StageOf
  <2>6. Stages' = [Stages EXCEPT ![m] = next]
    BY <2>4, <2>5, StageMoves
  <2>7. retryCount' = [retryCount EXCEPT ![m] = @ + 1] /\ delivered' = delivered
    BY <1>5, <2>1 DEF RecordFailure, MarkAsFailed
  <2>8. Delivery!Fail(m)
    BY <2>4, <2>6, <2>7 DEF Delivery!Fail, Stages
  <2>9. QED
    BY <2>8 DEF Delivery!DeliveryNext
<1>6. ASSUME NEW d \in Dispatcher, Acknowledge(d) PROVE Implements
  <2>1. PICK m \in Message : m = msg[d]
    BY <1>6 DEF Acknowledge, HoldsMessage, Holding
  <2>2. UNCHANGED <<liveReads, saved, deadLettered, due, retryCount, delivered>>
    BY <1>6 DEF Acknowledge
  <2>3. CASE published' = published
    BY <1>1, <2>2, <2>3 DEF columns
  <2>4. CASE published' = published \cup {m}
    <3>1. StageOf(m) = "pending" /\ FullyDelivered(m)
      BY <1>6, <2>1 DEF Acknowledge, HandCurrent, Transmitted, StageOf
    <3>2. StageOf(m)' = "published"
      BY <2>4 DEF StageOf
    <3>3. \A n \in Message \ {m} : StageOf(n)' = StageOf(n)
      BY <2>2, <2>4 DEF StageOf
    <3>4. Stages' = [Stages EXCEPT ![m] = "published"]
      BY <3>2, <3>3, StageMoves
    <3>5. Delivery!Confirm(m)
      BY <2>2, <3>1, <3>4
         DEF Delivery!Confirm, Delivery!Complete, FullyDelivered, Event, Stages
    <3>6. QED
      BY <3>5 DEF Delivery!DeliveryNext
  <2>5. QED
    BY <1>6, <2>1, <2>3, <2>4 DEF Acknowledge, MarkAsPublished
<1>7. ASSUME NEW d \in Dispatcher, RecordAckFailure(d) PROVE Implements
  <2>1. PICK m \in Message : m = msg[d]
    BY <1>7 DEF RecordAckFailure, HoldsMessage, Holding
  <2>2. m \in saved \ deadLettered /\ FullyDelivered(m)
    BY <1>7, <2>1 DEF RecordAckFailure, HandCurrent, Transmitted
  <2> DEFINE next == IF StageOf(m) = "published" THEN StageOf(m) ELSE "abandoned"
  <2>3. StageOf(m) \in {"pending", "published"} /\ StageOf(m)' = next
    BY <1>7, <2>1, <2>2 DEF RecordAckFailure, MarkAsFailed, StageOf
  <2>4. \A n \in Message \ {m} : StageOf(n)' = StageOf(n)
    BY <1>7, <2>1 DEF RecordAckFailure, MarkAsFailed, StageOf
  <2>5. Stages' = [Stages EXCEPT ![m] = next]
    BY <2>3, <2>4, StageMoves
  <2>6. retryCount' = [retryCount EXCEPT ![m] = @ + 1] /\ delivered' = delivered
    BY <1>7, <2>1 DEF RecordAckFailure, MarkAsFailed
  <2>7. Delivery!GiveUpConfirming(m)
    BY <2>2, <2>3, <2>5, <2>6
       DEF Delivery!GiveUpConfirming, Delivery!Complete, FullyDelivered, Event, Stages
  <2>8. QED
    BY <2>7 DEF Delivery!DeliveryNext
<1> QED
  BY <1>1, <1>2, <1>3, <1>4, <1>5, <1>6, <1>7
     DEF Next, vars, Dispatch, ListPending, Notify, NotifyAll, SubscriberThrows, Abort

\* One dispatcher over the table, with every failure of the model, implements
\* the safety half of what ReliableDelivery promises.
THEOREM ImplementsReliableDelivery ==
  ASSUME OneDispatcher PROVE Spec => Delivery!DeliverySpec
<1>1. SoloInv /\ SoloInv' /\ [Next]_vars => [Delivery!DeliveryNext]_(Delivery!deliveryVars)
  BY StepImplements
<1> QED
  BY <1>1, InitImplements, SoloInvariant, PTL DEF Spec, Delivery!DeliverySpec
=============================================================================
