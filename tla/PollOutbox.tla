------------------------------ MODULE PollOutbox ------------------------------
(***************************************************************************)
(* pollOutbox (poll-outbox.ts): dispatchOutbox run in cycles on a clock of *)
(* the poller's own, which starts at startAt and moves on stepSeconds with *)
(* each cycle, until the cycles are used up or nothing is left to do up to *)
(* the last of them.                                                       *)
(*                                                                         *)
(* OutboxDispatch says whether a message is due.  Here the message has the *)
(* time of its next attempt, the poller has the time it dispatches at, and *)
(* due is what follows from the two: a dispatch step is a step of          *)
(* OutboxDispatch that also says what becomes of the times.                *)
(*                                                                         *)
(* One poll at a time.  Two of them would not agree on what is due.        *)
(***************************************************************************)
EXTENDS Integers, FiniteSets

CONSTANTS
    Message, NoMessage, EventCount, MaxAttempts, BatchSize, MaxAborts,
    poller,      \* the one dispatcher
    Command,     \* the commands a poll may be given (a set of records)
    BadTime,     \* a startAt that is not a date
    OccurredAt   \* when messages may be saved (a set of times)

ASSUME MessageAssumption == IsFiniteSet(Message) /\ NoMessage \notin Message
ASSUME BoundAssumption ==
    /\ EventCount \in Nat \ {0} /\ BatchSize \in Nat \ {0}
    /\ MaxAttempts \in Nat /\ MaxAborts \in Nat
ASSUME TimeAssumption == OccurredAt \subseteq Nat /\ BadTime \notin Nat
ASSUME CommandAssumption ==
    Command \subseteq [startAt : Nat \cup {BadTime}, stepSeconds : Nat, cycles : Nat,
                       retryDelaySeconds : Nat]

VARIABLES
    liveReads, saved, published, deadLettered, retryCount,    \* see OutboxDispatch
    pc, todo, msg, seen, delivered, notified, cut, aborts,
    nextAttemptAt,  \* next_attempt_at of each message
    now,            \* DispatchOutboxCommand.now
    command,        \* of the poll under way, or of the last one
    cycle,          \* how many of its cycles have begun
    stage,          \* its progress
    owed,           \* what was due within its horizon when it began  (history)
    lastFailure     \* when each message failed last, with what delay  (history)

dispatchVars == <<liveReads, saved, published, deadLettered, retryCount,
                  pc, todo, msg, seen, delivered, notified, cut, aborts>>
pollVars     == <<command, cycle, stage, owed>>
times        == <<now, nextAttemptAt, lastFailure>>
vars         == <<dispatchVars, times, pollVars>>

\* A bug: the horizon is one cycle short.
HorizonShort(c) ==
    c.startAt + (IF c.cycles > 1 THEN c.cycles - 2 ELSE 0) * c.stepSeconds

Horizon(c) ==
    c.startAt + (IF c.cycles > 0 THEN c.cycles - 1 ELSE 0) * c.stepSeconds

\* A bug: a dispatch takes whatever comes up to the end of the poll.
DueAtHorizon ==
    {m \in Message : nextAttemptAt[m] <= Horizon(command)}

Due == {m \in Message : nextAttemptAt[m] <= now}

Outbox == INSTANCE OutboxDispatch WITH Dispatcher <- {poller}, due <- Due

TypeOK ==
    /\ Outbox!TypeOK
    /\ nextAttemptAt \in [Message -> Nat]
    /\ now \in Nat
    /\ command \in Command
    /\ cycle \in Nat
    /\ stage \in {"off", "next", "list", "deliver", "lookAhead", "resolved", "rejected"}
    /\ stage = "deliver" <=> pc[poller] # "idle"
    /\ owed \subseteq saved
    /\ lastFailure \in [Message -> [at : Nat, delay : Nat]]

Init ==
    /\ nextAttemptAt \in [Message -> OccurredAt]
    /\ now = 0
    /\ command \in Command
    /\ Outbox!Init
    /\ cycle = 0
    /\ stage = "off"
    /\ owed = {}
    /\ lastFailure = [m \in Message |-> [at |-> 0, delay |-> 0]]

-----------------------------------------------------------------------------
(* The clock of a poll                                                     *)

\* A bug: the clock runs backwards.
TimeOfCycleBackwards(n) == command.startAt - n * command.stepSeconds

TimeOfCycle(n) == command.startAt + n * command.stepSeconds

\* listPending(batchSize, horizon)
RemainingWork ==
    {m \in saved \ Outbox!Settled : nextAttemptAt[m] <= Horizon(command)}

\* When the last cycle dispatches, for the history.
LastCycleAt(c) == c.startAt + (c.cycles - 1) * c.stepSeconds

-----------------------------------------------------------------------------
(* pollOutbox                                                              *)

\* A startAt that is no date makes toISOString throw before anything is done.
StartPoll(c) ==
    /\ stage = "off"
    /\ command' = c
    /\ cycle' = 0
    /\ IF c.startAt = BadTime
       THEN stage' = "rejected" /\ owed' = {}
       ELSE /\ stage' = IF c.cycles = 0 THEN "resolved" ELSE "next"
            /\ owed' = {m \in saved \ Outbox!Settled : nextAttemptAt[m] <= LastCycleAt(c)}
    /\ UNCHANGED <<dispatchVars, times>>

BeginCycle ==
    /\ stage = "next"
    /\ now' = TimeOfCycle(cycle)
    /\ cycle' = cycle + 1
    /\ stage' = "list"
    /\ UNCHANGED <<dispatchVars, nextAttemptAt, lastFailure, command, owed>>

\* The dispatch of the cycle: an empty batch ends it at once.
List ==
    /\ stage = "list"
    /\ UNCHANGED <<times, command, cycle, owed>>
    /\ \/ Outbox!ListPending(poller) /\ stage' = "deliver"
       \/ Outbox!Pending = {} /\ stage' = "lookAhead" /\ UNCHANGED dispatchVars

Carried == IF pc'[poller] = "idle" THEN "lookAhead" ELSE "deliver"

\* A step of the dispatch that leaves the times alone.
Deliver ==
    /\ stage = "deliver"
    /\ UNCHANGED <<times, command, cycle, owed>>
    /\ \/ Outbox!Publish(poller)
       \/ Outbox!Acknowledge(poller)
       \/ Outbox!RecordAckFailure(poller)
       \/ Outbox!NotifyAll(poller)
    /\ stage' = Carried

Postpone(m) ==
    nextAttemptAt' = [nextAttemptAt EXCEPT ![m] = now + command.retryDelaySeconds]

\* handleDeliveryFailure sets the time of the next attempt, unless it gives up.
RecordFailure ==
    LET m == msg[poller] IN
    /\ stage = "deliver" /\ pc[poller] = "recordFailure"
    /\ IF Outbox!GivesUp(poller, m) THEN UNCHANGED nextAttemptAt ELSE Postpone(m)
    /\ lastFailure' = [lastFailure EXCEPT ![m] =
                         [at |-> now, delay |-> command.retryDelaySeconds]]
    /\ UNCHANGED <<now, command, cycle, owed>>
    /\ Outbox!RecordFailure(poller)
    /\ stage' = Carried

\* The dispatch rejects, and with it the poll.
DispatchRejects ==
    /\ stage = "deliver"
    /\ UNCHANGED <<times, command, cycle, owed>>
    /\ Outbox!SubscriberThrows(poller) \/ Outbox!Abort(poller)
    /\ stage' = "rejected"

\* One of the poll's own queries rejects.
QueryRejects ==
    /\ stage \in {"list", "lookAhead"}
    /\ aborts < MaxAborts
    /\ aborts' = aborts + 1
    /\ stage' = "rejected"
    /\ UNCHANGED <<liveReads, saved, published, deadLettered, retryCount,
                   pc, todo, msg, seen, delivered, notified, cut,
                   times, command, cycle, owed>>

\* A bug: the poll looks at what is due now, not at what comes up.
LookAheadAtNow ==
    /\ stage = "lookAhead"
    /\ stage' = IF Outbox!Pending = {} \/ cycle = command.cycles
                THEN "resolved" ELSE "next"
    /\ UNCHANGED <<dispatchVars, times, command, cycle, owed>>

LookAhead ==
    /\ stage = "lookAhead"
    /\ stage' = IF RemainingWork = {} \/ cycle = command.cycles
                THEN "resolved" ELSE "next"
    /\ UNCHANGED <<dispatchVars, times, command, cycle, owed>>

EndPoll ==
    /\ stage \in {"resolved", "rejected"}
    /\ stage' = "off"
    /\ UNCHANGED <<dispatchVars, times, command, cycle, owed>>

-----------------------------------------------------------------------------

Save(m) == UNCHANGED <<times, pollVars>> /\ Outbox!Save(m)

PollStep ==
    \/ BeginCycle \/ List \/ Deliver \/ RecordFailure
    \/ DispatchRejects \/ QueryRejects \/ LookAhead

Next ==
    \/ \E c \in Command : StartPoll(c)
    \/ PollStep
    \/ EndPoll
    \/ \E m \in Message : Save(m)

Spec == Init /\ [][Next]_vars

-----------------------------------------------------------------------------
(* Properties                                                              *)

\* On the clocks of the polls, which may go back from one poll to the next, a
\* message that failed is not offered to the broker again before its retry delay.
RetriesAreSpaced ==
    \A m \in Message :
        msg[poller] = m => now >= lastFailure[m].at + lastFailure[m].delay

\* A poll that resolves leaves nothing behind that it could have reached: what was
\* due within its horizon when it began is settled, or was postponed beyond its
\* last cycle.  Stopping early skips no retry.  (For batches that take all there
\* is and a retry delay that is not zero.)
NothingLeftWithinHorizon ==
    /\ stage = "resolved"
    /\ command.cycles > 0 /\ command.retryDelaySeconds > 0
    /\ BatchSize >= Cardinality(Message)
    => \A m \in owed : m \in Outbox!Settled \/ nextAttemptAt[m] > LastCycleAt(command)
=============================================================================
