---------------------------- MODULE WorkerPolling ----------------------------
(***************************************************************************)
(* The worker with its polls: what DeliveryWorker calls "the poll resolves *)
(* or rejects" is pollOutbox over the outbox, as composition-root.ts wires *)
(* it.  One worker; orders may be saved while it runs.                     *)
(***************************************************************************)
EXTENDS PollOutbox, Sequences, TLC

CONSTANTS
    Trigger, NoTrigger, GivenId,   \* see DeliveryWorker
    worker,
    DefaultCommand,   \* what runOnce is given for every trigger
    GivenCommand      \* the fields of the command that a trigger brings itself

VARIABLES
    pendingTriggers, idOf, inFlight, job, workerPc, processed, failures,
    begun,            \* triggers that were polled for                  (history)
    dueThen           \* what was due when their first poll began       (history)

queueVars == <<pendingTriggers, idOf, inFlight, job, workerPc, processed, failures>>
history   == <<begun, dueThen>>
allVars   == <<vars, queueVars, history>>

MergePollCommand(t) == GivenCommand[t] @@ DefaultCommand

ASSUME TriggerAssumption == NoTrigger \notin Trigger /\ GivenId \in [Trigger -> Nat]
ASSUME MergeAssumption == \A t \in Trigger : MergePollCommand(t) \in Command

Malformed == {t \in Trigger : MergePollCommand(t).startAt = BadTime}

\* A poll that was well commanded rejects once for each message whose subscriber
\* throws (the message is published by then), and when a call of the outbox does.
Queue == INSTANCE DeliveryWorker WITH
    Worker <- {worker}, pc <- workerPc,
    Poison <- Malformed, MaxFailures <- Cardinality(Message) + MaxAborts

WorkerTypeOK ==
    /\ TypeOK
    /\ Queue!TypeOK
    /\ stage # "off" => workerPc[worker] = "poll"
    /\ begun \subseteq Trigger
    /\ dueThen \in [Trigger -> SUBSET saved]

WorkerInit ==
    /\ Init
    /\ liveReads     \* InMemoryOutbox
    /\ command = DefaultCommand
    /\ Queue!Init
    /\ begun = {}
    /\ dueThen = [t \in Trigger |-> {}]

-----------------------------------------------------------------------------
(* OutboxDeliveryWorker.runOnce                                            *)

Enqueue(t)  == Queue!Enqueue(t) /\ UNCHANGED <<vars, history>>

Reserve     == Queue!Reserve(worker) /\ UNCHANGED <<vars, history>>

Acknowledge == Queue!Acknowledge(worker) /\ UNCHANGED <<vars, history>>

Release     == Queue!Release(worker) /\ UNCHANGED <<vars, history>>

RunPoll ==
    LET t == job[worker] IN
    /\ workerPc[worker] = "poll"
    /\ StartPoll(MergePollCommand(t))
    /\ begun' = begun \cup {t}
    /\ dueThen' =
         IF t \in begun \cup Malformed THEN dueThen
         ELSE [dueThen EXCEPT ![t] =
                 {m \in saved \ Outbox!Settled :
                    nextAttemptAt[m] <= MergePollCommand(t).startAt}]
    /\ UNCHANGED queueVars

Polling == PollStep /\ UNCHANGED <<queueVars, history>>

\* A bug: the trigger is acknowledged whatever came of its poll.
PollEndsWell ==
    /\ EndPoll
    /\ workerPc' = [workerPc EXCEPT ![worker] = "acknowledge"]
    /\ UNCHANGED <<pendingTriggers, idOf, inFlight, job, processed, failures, history>>

PollEnds ==
    /\ EndPoll
    /\ workerPc' = [workerPc EXCEPT ![worker] =
                      IF stage = "resolved" THEN "acknowledge" ELSE "release"]
    /\ failures' = IF stage = "rejected" /\ job[worker] \notin Malformed
                   THEN failures + 1 ELSE failures
    /\ UNCHANGED <<pendingTriggers, idOf, inFlight, job, processed, history>>

OrderSaves(m) == Save(m) /\ UNCHANGED <<queueVars, history>>

-----------------------------------------------------------------------------

RunOnce == Reserve \/ RunPoll \/ Polling \/ PollEnds \/ Acknowledge \/ Release

WorkerNext ==
    \/ RunOnce
    \/ \E t \in Trigger : Enqueue(t)
    \/ \E m \in Message : OrderSaves(m)

WorkerSpec == WorkerInit /\ [][WorkerNext]_allVars

\* Promises settle, and the worker is run again and again.  Triggers and orders
\* need not come.
FairWorkerSpec == WorkerSpec /\ WF_allVars(RunOnce)

-----------------------------------------------------------------------------
(* Properties                                                              *)

\* Enough cycles for every retry: each delay takes k of them.
Adequate(c) ==
    /\ BatchSize >= Cardinality(Message)
    /\ \E k \in 1..c.cycles :
          k * c.stepSeconds >= c.retryDelaySeconds /\ (MaxAttempts - 1) * k < c.cycles

\* A trigger is processed only when what was due when it was first polled for is
\* settled, although its polls may have been cut short and started over at the
\* same startAt; given cycles enough for all the retries, and triggers that all
\* bring the same times (a poll with a later startAt postpones what it fails to
\* deliver beyond the horizon of the earlier one).
SettledWhenProcessed ==
    /\ Adequate(DefaultCommand)
    /\ \A t \in Trigger \ Malformed : MergePollCommand(t) = DefaultCommand
    => \A t \in processed : dueThen[t] \subseteq Outbox!Settled

\* The queue and the worker do what DeliveryWorker says, its bound on failing polls
\* and its liveness included: no trigger is lost or doubled, and a malformed one
\* does not keep the others from being processed.
ImplementsQueue == Queue!FairSpec
=============================================================================
