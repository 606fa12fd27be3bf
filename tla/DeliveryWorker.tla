--------------------------- MODULE DeliveryWorker ---------------------------
(***************************************************************************)
(* OutboxDeliveryWorker (outbox-delivery-worker.ts) taking triggers from   *)
(* InMemoryDeliveryTriggerConsumer: a trigger is reserved, the outbox is   *)
(* polled for it, and the trigger is acknowledged, or released to the end  *)
(* of the queue when the poll rejects.  Workers run concurrently in one    *)
(* process and share the consumer.                                         *)
(*                                                                         *)
(* The consumer knows a trigger in flight by its id only.  An id that the  *)
(* caller does not give is made of the number of triggers that are waiting *)
(* or in flight, and so may be one that is in use.                         *)
(***************************************************************************)
EXTENDS Naturals, Sequences, FiniteSets

CONSTANTS
    Trigger,       \* calls of enqueue
    NoTrigger,     \* no trigger
    GivenId,       \* the ids the callers give, 0 for none
    Worker,        \* callers of runOnce, over and over
    Poison,        \* triggers whose poll rejects whenever it is tried
    MaxFailures    \* bound on the polls of other triggers that reject

ASSUME TriggerAssumption == NoTrigger \notin Trigger /\ Poison \subseteq Trigger
ASSUME IdAssumption      == GivenId \in [Trigger -> Nat]
ASSUME FailureAssumption == MaxFailures \in Nat

VARIABLES
    pendingTriggers,  \* the queue
    idOf,             \* id of each trigger, 0 before it is enqueued
    inFlight,         \* a set of <<id, trigger>>: a Map from ids
    job, pc,          \* the trigger of each worker and its progress with it
    processed,        \* triggers whose poll resolved and was acknowledged
    failures

queue == <<pendingTriggers, inFlight>>
vars  == <<queue, idOf, job, pc, processed, failures>>

TypeOK ==
    /\ pendingTriggers \in Seq(Trigger)
    /\ idOf \in [Trigger -> Nat]
    /\ inFlight \subseteq Nat \X Trigger
    /\ job \in [Worker -> Trigger \cup {NoTrigger}]
    /\ pc \in [Worker -> {"idle", "poll", "acknowledge", "release"}]
    /\ \A w \in Worker : pc[w] = "idle" <=> job[w] = NoTrigger
    /\ processed \subseteq Trigger
    /\ failures \in 0..MaxFailures

Init ==
    /\ pendingTriggers = <<>>
    /\ idOf = [t \in Trigger |-> 0]
    /\ inFlight = {}
    /\ job = [w \in Worker |-> NoTrigger]
    /\ pc = [w \in Worker |-> "idle"]
    /\ processed = {}
    /\ failures = 0

Arrived == {t \in Trigger : idOf[t] # 0}

Waiting == {pendingTriggers[i] : i \in DOMAIN pendingTriggers}

-----------------------------------------------------------------------------
(* InMemoryDeliveryTriggerConsumer                                         *)

NewId(t) ==
    IF GivenId[t] # 0 THEN GivenId[t]
    ELSE Len(pendingTriggers) + Cardinality(inFlight) + 1

Enqueue(t) ==
    /\ t \notin Arrived
    /\ idOf' = [idOf EXCEPT ![t] = NewId(t)]
    /\ pendingTriggers' = Append(pendingTriggers, t)
    /\ UNCHANGED <<inFlight, job, pc, processed, failures>>

\* Map.delete
Without(id) == {entry \in inFlight : entry[1] # id}

\* A bug: the trigger stays in the queue until it is acknowledged.
ReservePeeking(w) ==
    /\ pc[w] = "idle"
    /\ pendingTriggers # <<>>
    /\ LET t == Head(pendingTriggers) IN
       /\ inFlight' = Without(idOf[t]) \cup {<<idOf[t], t>>}
       /\ job' = [job EXCEPT ![w] = t]
    /\ pc' = [pc EXCEPT ![w] = "poll"]
    /\ UNCHANGED <<pendingTriggers, idOf, processed, failures>>

\* reserveNext; with an empty queue the run is idle.  Map.set replaces an entry
\* of the same id.
Reserve(w) ==
    /\ pc[w] = "idle"
    /\ pendingTriggers # <<>>
    /\ LET t == Head(pendingTriggers) IN
       /\ inFlight' = Without(idOf[t]) \cup {<<idOf[t], t>>}
       /\ job' = [job EXCEPT ![w] = t]
    /\ pendingTriggers' = Tail(pendingTriggers)
    /\ pc' = [pc EXCEPT ![w] = "poll"]
    /\ UNCHANGED <<idOf, processed, failures>>

\* A bug: the worker keeps its trigger.
FinishKeepingJob(w) == pc' = [pc EXCEPT ![w] = "idle"] /\ UNCHANGED job

Finish(w) ==
    /\ job' = [job EXCEPT ![w] = NoTrigger]
    /\ pc' = [pc EXCEPT ![w] = "idle"]

Acknowledge(w) ==
    /\ pc[w] = "acknowledge"
    /\ inFlight' = Without(idOf[job[w]])
    /\ processed' = processed \cup {job[w]}
    /\ Finish(w)
    /\ UNCHANGED <<pendingTriggers, idOf, failures>>

\* A bug: what was reserved first is tried again first.
ReleaseToFront(w) ==
    LET id == idOf[job[w]] IN
    /\ pc[w] = "release"
    /\ \E t \in Trigger : <<id, t>> \in inFlight /\ pendingTriggers' = <<t>> \o pendingTriggers
    /\ inFlight' = Without(id)
    /\ Finish(w)
    /\ UNCHANGED <<idOf, processed, failures>>

\* A bug: the trigger is not put back.
ReleaseNowhere(w) ==
    /\ pc[w] = "release"
    /\ inFlight' = Without(idOf[job[w]])
    /\ Finish(w)
    /\ UNCHANGED <<pendingTriggers, idOf, processed, failures>>

\* Whatever is in flight under the id goes to the end of the queue; an id that is
\* not in flight is ignored.
Release(w) ==
    LET id == idOf[job[w]] IN
    /\ pc[w] = "release"
    /\ \/ /\ \E t \in Trigger :
                <<id, t>> \in inFlight /\ pendingTriggers' = Append(pendingTriggers, t)
          /\ inFlight' = Without(id)
       \/ /\ \A t \in Trigger : <<id, t>> \notin inFlight
          /\ UNCHANGED queue
    /\ Finish(w)
    /\ UNCHANGED <<idOf, processed, failures>>

-----------------------------------------------------------------------------
(* OutboxDeliveryWorker.runOnce, between reserving and the outcome         *)

\* runPollOutbox resolves, or it rejects.
Poll(w) ==
    /\ pc[w] = "poll"
    /\ \/ /\ job[w] \notin Poison
          /\ pc' = [pc EXCEPT ![w] = "acknowledge"]
          /\ UNCHANGED failures
       \/ /\ pc' = [pc EXCEPT ![w] = "release"]
          /\ IF job[w] \in Poison THEN UNCHANGED failures
             ELSE failures < MaxFailures /\ failures' = failures + 1
    /\ UNCHANGED <<queue, idOf, job, processed>>

WorkerStep(w) == Reserve(w) \/ Poll(w) \/ Acknowledge(w) \/ Release(w)

Next ==
    \/ \E t \in Trigger : Enqueue(t)
    \/ \E w \in Worker : WorkerStep(w)

Spec == Init /\ [][Next]_vars

\* Promises settle, and the workers are run again and again.
FairSpec == Spec /\ \A w \in Worker : WF_vars(WorkerStep(w))

-----------------------------------------------------------------------------
(* Properties                                                              *)

\* A success is acknowledged and a failure puts the trigger back: no trigger is
\* lost.  Each one that arrived is waiting, or with a worker, or processed.
NothingLost ==
    \A t \in Arrived : t \in Waiting \cup processed \/ \E w \in Worker : job[w] = t

\* A trigger is in one place only.  So it is never polled for by two workers at
\* once, nor again after it was processed.
OnePlace ==
    /\ \A i, j \in DOMAIN pendingTriggers : pendingTriggers[i] = pendingTriggers[j] => i = j
    /\ \A v, w \in Worker : job[v] = job[w] /\ job[v] # NoTrigger => v = w
    /\ Waiting \cap processed = {}
    /\ \A w \in Worker : job[w] \notin Waiting \cup processed

\* A trigger whose poll always rejects is put back for ever, but it does not keep
\* the others from being processed.
PoisonDoesNotStarve ==
    \A t \in Trigger \ Poison : t \in Arrived ~> t \in processed
=============================================================================
