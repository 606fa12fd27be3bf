--------------------------- MODULE OutboxDispatch ---------------------------
(***************************************************************************)
(* The delivery half of the transactional outbox: any number of runs of    *)
(* dispatchOutbox (dispatch-outbox.ts) over one outbox table, a broker     *)
(* that may accept part of a publish, an acknowledgement that may be       *)
(* rejected, an in-process subscriber that may throw, and dispatch runs    *)
(* that die between two awaits.                                            *)
(*                                                                         *)
(* Every await of the code is a step boundary, so that the steps of two    *)
(* dispatchers interleave as they do in one Node process or in two.        *)
(*                                                                         *)
(* Time is abstracted to the only thing listPending asks of it: whether    *)
(* next_attempt_at <= now (field "due").  The retry delay elapses in a     *)
(* step of its own.                                                        *)
(***************************************************************************)
EXTENDS Integers, FiniteSets

CONSTANTS
    Message,      \* the outbox messages that orders may save
    Dispatcher,   \* concurrent runs of dispatchOutbox
    NoMessage,    \* the dispatcher holds no message
    EventCount,   \* integration events each message maps to (v1, or v1 and v2)
    MaxAttempts,  \* DispatchOutboxCommand.maxAttempts
    BatchSize,    \* DispatchOutboxCommand.batchSize
    MaxAborts     \* bound on dispatch runs that die midway

ASSUME NoMessageAssumption  == NoMessage \notin Message
ASSUME EventCountAssumption == EventCount \in Nat \ {0}
ASSUME AttemptsAssumption   == MaxAttempts \in Nat
ASSUME BatchAssumption      == BatchSize \in Nat \ {0}
ASSUME AbortsAssumption     == MaxAborts \in Nat

VARIABLES
    liveReads,     \* the outbox wired in: listPending returns references to the stored
                   \* records (InMemoryOutbox) or copies of the rows (PostgresOutbox)
    saved,         \* outbox_messages, one variable per column: the rows there are,
    published,     \* published_at is not null,
    deadLettered,  \* dead_lettered_at is not null,
    due,           \* next_attempt_at <= now, and
    retryCount,    \* retry_count
    pc,         \* where each dispatcher is in the body of dispatchOutbox
    todo,       \* the messages of its batch it has not started yet
    msg,        \* the message it works on
    seen,       \* the retryCount listPending returned for each message
    delivered,  \* how often the broker accepted each event of a message
    notified,   \* how many events of a message the subscriber has handled
    cut,        \* messages whose delivery was cut short: rejected
                \* acknowledgement, throwing subscriber or dead dispatcher (history)
    aborts      \* how many dispatch runs died midway                     (history)

columns == <<liveReads, saved, published, deadLettered, due, retryCount>>

vars == <<columns, pc, todo, msg, seen, delivered, notified, cut, aborts>>

Event == 1..EventCount

TypeOK ==
    /\ liveReads \in BOOLEAN
    /\ saved \subseteq Message
    /\ published \subseteq Message
    /\ deadLettered \subseteq Message
    /\ due \subseteq Message
    /\ retryCount \in [Message -> Nat]
    /\ pc \in [Dispatcher -> {"idle", "publish", "recordFailure",
                              "acknowledge", "recordAckFailure", "notify"}]
    /\ todo \in [Dispatcher -> SUBSET Message]
    /\ msg \in [Dispatcher -> Message \cup {NoMessage}]
    /\ seen \in [Dispatcher -> [Message -> Nat]]
    /\ delivered \in [Message -> [Event -> Nat]]
    /\ notified \in [Message -> 0..EventCount]
    /\ cut \subseteq Message
    /\ aborts \in 0..MaxAborts

-----------------------------------------------------------------------------
(* The outbox table                                                        *)

Init ==
    /\ liveReads \in BOOLEAN
    /\ saved = {} /\ published = {} /\ deadLettered = {}
    /\ due \in SUBSET Message
    /\ retryCount = [m \in Message |-> 0]
    /\ pc = [d \in Dispatcher |-> "idle"]
    /\ todo = [d \in Dispatcher |-> {}]
    /\ msg = [d \in Dispatcher |-> NoMessage]
    /\ seen = [d \in Dispatcher |-> [m \in Message |-> 0]]
    /\ delivered = [m \in Message |-> [e \in Event |-> 0]]
    /\ notified = [m \in Message |-> 0]
    /\ cut = {}
    /\ aborts = 0

Settled == published \cup deadLettered

PendingWithDeadLetters == (saved \cap due) \ published

PendingOnlyFresh == {m \in (saved \cap due) \ Settled : retryCount[m] = 0}

\* listPending without its LIMIT
Pending == (saved \cap due) \ Settled

\* Up to BatchSize pending messages, fewer only when there are no more.  Which
\* ones a short batch takes (oldest next_attempt_at first in Postgres, oldest
\* first in memory) is left open.
IsBatch(B) ==
    /\ B \subseteq Pending
    /\ Cardinality(B) <= BatchSize
    /\ B # Pending => Cardinality(B) = BatchSize

MarkAsPublished(m) == published' = published \cup {m}

MarkAsFailedCountingDown(m, givenUp) ==
    /\ retryCount' = [retryCount EXCEPT ![m] = @ - 1]
    /\ deadLettered' = IF givenUp THEN deadLettered \cup {m} ELSE deadLettered \ {m}
    /\ due' = IF givenUp THEN due ELSE due \ {m}
    /\ UNCHANGED <<liveReads, saved, published>>

MarkAsFailedUncounted(m, givenUp) ==
    /\ deadLettered' = IF givenUp THEN deadLettered \cup {m} ELSE deadLettered \ {m}
    /\ due' = IF givenUp THEN due ELSE due \ {m}
    /\ UNCHANGED <<liveReads, saved, published, retryCount>>

\* A null nextAttemptAt keeps the old one; deadLetteredAt is overwritten,
\* whatever it was.  With a delay of zero the message stays due.
MarkAsFailed(m, givenUp) ==
    /\ retryCount' = [retryCount EXCEPT ![m] = @ + 1]
    /\ deadLettered' = IF givenUp THEN deadLettered \cup {m} ELSE deadLettered \ {m}
    /\ due' = due \/ (~givenUp /\ due' = due \ {m})
    /\ UNCHANGED <<liveReads, saved, published>>

-----------------------------------------------------------------------------
(* The environment: orders save messages, and time passes                  *)

Save(m) ==
    /\ m \notin saved
    /\ saved' = saved \cup {m}
    /\ UNCHANGED <<liveReads, published, deadLettered, due, retryCount,
                   pc, todo, msg, seen, delivered, notified, cut, aborts>>

RetryDelayElapses(m) ==
    /\ m \notin due
    /\ due' = due \cup {m}
    /\ UNCHANGED <<liveReads, saved, published, deadLettered, retryCount,
                   pc, todo, msg, seen, delivered, notified, cut, aborts>>

-----------------------------------------------------------------------------
(* One dispatcher                                                          *)

\* The for loop moves on to its next message, or the dispatch is over.
NextMessage(d) ==
    /\ pc' = [pc EXCEPT ![d] = IF todo[d] = {} THEN "idle" ELSE "publish"]
    /\ msg' = [msg EXCEPT ![d] = NoMessage]

\* The rest of the batch is dropped: an exception left dispatchOutbox, or the
\* process died.
Quit(d) ==
    /\ pc' = [pc EXCEPT ![d] = "idle"]
    /\ msg' = [msg EXCEPT ![d] = NoMessage]
    /\ todo' = [todo EXCEPT ![d] = {}]

\* An empty batch returns at once and changes nothing.
ListPending(d) ==
    /\ pc[d] = "idle"
    /\ Pending # {}
    /\ \E B \in SUBSET Pending :
          /\ IsBatch(B)
          /\ todo' = [todo EXCEPT ![d] = B]
          /\ seen' = [seen EXCEPT ![d] =
                        [m \in Message |-> IF m \in B THEN retryCount[m] ELSE 0]]
    /\ pc' = [pc EXCEPT ![d] = "publish"]
    /\ UNCHANGED <<columns, msg, delivered, notified, cut, aborts>>

\* The broker accepts the events one by one; a failing publish leaves the ones
\* before the failure delivered (all of them when only draining or closing the
\* connection fails).
Deliver(m, n) ==
    delivered' = [delivered EXCEPT ![m] =
                    [e \in Event |-> IF e <= n THEN delivered[m][e] + 1
                                               ELSE delivered[m][e]]]

PublishAndAcknowledgeAnyway(d, m) ==
    /\ todo' = [todo EXCEPT ![d] = @ \ {m}]
    /\ msg' = [msg EXCEPT ![d] = m]
    /\ \E n \in 0..EventCount : Deliver(m, n)
    /\ pc' = [pc EXCEPT ![d] = "acknowledge"]

PublishTo(d, m) ==
    /\ todo' = [todo EXCEPT ![d] = @ \ {m}]
    /\ msg' = [msg EXCEPT ![d] = m]
    /\ \/ /\ Deliver(m, EventCount)
          /\ pc' = [pc EXCEPT ![d] = "acknowledge"]
       \/ \E n \in 0..EventCount :
             /\ Deliver(m, n)
             /\ pc' = [pc EXCEPT ![d] = "recordFailure"]

Publish(d) ==
    /\ pc[d] = "publish"
    /\ \E m \in todo[d] : PublishTo(d, m)
    /\ UNCHANGED <<columns, seen, notified, cut, aborts>>

RetryCountAsListed(d, m) == seen[d][m]

\* message.retryCount, read again or as it was listed
KnownRetryCount(d, m) == IF liveReads THEN retryCount[m] ELSE seen[d][m]

GivesUpEarly(d, m) == KnownRetryCount(d, m) + 2 >= MaxAttempts

GivesUpLate(d, m) == KnownRetryCount(d, m) >= MaxAttempts

GivesUp(d, m) == KnownRetryCount(d, m) + 1 >= MaxAttempts

\* handleDeliveryFailure; its audit and telemetry cannot fail the dispatch.
RecordFailure(d) ==
    /\ pc[d] = "recordFailure"
    /\ MarkAsFailed(msg[d], GivesUp(d, msg[d]))
    /\ NextMessage(d)
    /\ UNCHANGED <<todo, seen, delivered, notified, cut, aborts>>

AcknowledgeOnly(d) ==
    /\ pc[d] = "acknowledge"
    /\ MarkAsPublished(msg[d])
    /\ NextMessage(d)
    /\ UNCHANGED <<liveReads, saved, deadLettered, due, retryCount,
                   todo, seen, delivered, notified, cut, aborts>>

\* markAsPublished resolves, or rejects with its update applied or not.
Acknowledge(d) ==
    /\ pc[d] = "acknowledge"
    /\ \/ /\ MarkAsPublished(msg[d])
          /\ pc' = [pc EXCEPT ![d] = "notify"]
          /\ UNCHANGED cut
       \/ /\ MarkAsPublished(msg[d]) \/ UNCHANGED published
          /\ pc' = [pc EXCEPT ![d] = "recordAckFailure"]
          /\ cut' = cut \cup {msg[d]}
    /\ UNCHANGED <<liveReads, saved, deadLettered, due, retryCount,
                   todo, msg, seen, delivered, notified, aborts>>

\* The catch of markAsPublished: dead-letter, and skip audit and subscriber.
RecordAckFailure(d) ==
    /\ pc[d] = "recordAckFailure"
    /\ MarkAsFailed(msg[d], TRUE)
    /\ NextMessage(d)
    /\ UNCHANGED <<todo, seen, delivered, notified, cut, aborts>>

NotifyAll(d) ==
    /\ pc[d] = "notify"
    /\ notified' = [notified EXCEPT ![msg[d]] = EventCount]
    /\ NextMessage(d)
    /\ UNCHANGED <<columns, todo, seen, delivered, cut, aborts>>

\* The events the subscriber had handled stay handled, and the whole dispatch
\* rejects.
SubscriberThrows(d) ==
    /\ pc[d] = "notify"
    /\ \E n \in 0..EventCount - 1 :
          notified' = [notified EXCEPT ![msg[d]] = IF n > @ THEN n ELSE @]
    /\ cut' = cut \cup {msg[d]}
    /\ Quit(d)
    /\ UNCHANGED <<columns, seen, delivered, aborts>>

\* The subscriber handles the events in order.
Notify(d) == NotifyAll(d) \/ SubscriberThrows(d)

\* The process dies, or markAsFailed (called outside any try) rejects.
Abort(d) ==
    /\ pc[d] # "idle"
    /\ aborts < MaxAborts
    /\ aborts' = aborts + 1
    /\ cut' = cut \cup (Message \cap {msg[d]})
    /\ Quit(d)
    /\ UNCHANGED <<columns, seen, delivered, notified>>

-----------------------------------------------------------------------------

Dispatch(d) ==
    \/ ListPending(d)  \/ Publish(d)  \/ RecordFailure(d)
    \/ Acknowledge(d)  \/ RecordAckFailure(d)  \/ Notify(d)

Next ==
    \/ \E m \in Message : Save(m) \/ RetryDelayElapses(m)
    \/ \E d \in Dispatcher : Dispatch(d) \/ Abort(d)

Spec == Init /\ [][Next]_vars

\* A dispatch that started runs on, one is started again and again (cron, the
\* poller or the worker), and time passes.  Orders need not come, and nothing
\* forces a dispatch to die.
Fairness ==
    /\ \A m \in Message : WF_vars(RetryDelayElapses(m))
    /\ \A d \in Dispatcher : WF_vars(Dispatch(d))

FairSpec == Spec /\ Fairness

-----------------------------------------------------------------------------
(* Properties                                                              *)

\* The broker has accepted every event of m at least once.
FullyDelivered(m) == \A e \in Event : delivered[m][e] >= 1

\* A message counts as published, and the subscriber sees any of its events,
\* only once the broker has accepted all of them: no partial publish, failed
\* attempt or dispatcher that died is ever taken for a delivery
\* (publish before markAsPublished before handle).
BrokerFirst ==
    \A m \in Message : m \in published \/ notified[m] > 0 => FullyDelivered(m)

\* A message is dead-lettered only after maxAttempts recorded failures, or when
\* the broker already has all its events and only the acknowledgement failed:
\* a copy of retryCount that went stale never makes the dispatcher give up early.
GivenUpOnlyWhenExhausted ==
    \A m \in Message :
        m \in deadLettered => retryCount[m] >= MaxAttempts \/ FullyDelivered(m)

Exhausted(m) == retryCount[m] > 0 /\ retryCount[m] >= MaxAttempts

\* Over live records, a message that failed maxAttempts times is a dead letter,
\* however many dispatchers share the outbox.
ExhaustedIsDeadLettered ==
    liveReads => \A m \in Message : Exhausted(m) => m \in deadLettered

\* Flow of the delivery plan, whichever outbox is wired in: a message that
\* reached maxAttempts goes to the dead letters.
MaxAttemptsDeadLetters == \A m \in Message : Exhausted(m) => m \in deadLettered

\* The broker sees an event more often than once per dispatcher only through
\* failures the outbox recorded and through dispatch runs that died.
DuplicatesAccountedFor ==
    \A m \in Message, e \in Event :
        delivered[m][e] <= retryCount[m] + aborts + Cardinality(Dispatcher)

\* A published message whose events the subscriber has not all handled is being
\* handed to it right now, or its delivery was cut short by one of the three
\* causes recorded in "cut"; no other path skips the subscriber.
GapsExplained ==
    \A m \in Message :
        m \in published /\ notified[m] < EventCount /\ m \notin cut =>
            \E d \in Dispatcher : pc[d] = "notify" /\ msg[d] = m

\* Published and dead-lettered are final, and the broker never sees the events
\* of such a message again ("dead-letters the message instead of republishing
\* when acknowledgement fails after publish").  One dispatcher only.
SettledIsFinal ==
    [][\A m \in Message :
          m \in Settled => m \in Settled' /\ delivered'[m] = delivered[m]]_vars

\* Every saved message is in the end published or dead-lettered for good: a
\* short batch, a retry delay or a stale retryCount starves none and no message
\* is retried for ever.
EventuallySettled == \A m \in Message : m \in saved ~> [](m \in Settled)

-----------------------------------------------------------------------------
(* What the dispatcher implements                                          *)

\* A message both published and dead-lettered (its acknowledgement was applied
\* but reported as failed) has been published.
StageOf(m) ==
    IF m \in published THEN "published"
    ELSE IF m \in deadLettered THEN "abandoned"
    ELSE IF m \in saved THEN "pending" ELSE "unsaved"

Delivery == INSTANCE ReliableDelivery WITH
    stage <- [m \in Message |-> StageOf(m)],
    transmitted <- delivered,
    failures <- retryCount

\* One dispatcher over the table, with all its failures, keeps the promise of
\* ReliableDelivery and settles every message.
ImplementsDelivery == Delivery!PromptDeliverySpec
=============================================================================
