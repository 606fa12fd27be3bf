-------------------------- MODULE SubscriberDelivery --------------------------
(***************************************************************************)
(* What happens to a published event: FanOutIntegrationEventSubscriber     *)
(* hands it to each subscriber in turn and keeps the failures in a failure *)
(* store, from which replaySubscriberFailures hands it to the subscriber   *)
(* again until it succeeds or is given up.  Replays may overlap: nothing   *)
(* reserves the failures a replay has listed.                              *)
(*                                                                         *)
(* A failure's id is its position in the store.  listReplayable returns    *)
(* the store's own objects: what a replay reads of a failure is current,   *)
(* whether it was replayable may be out of date.  Calls of the store may   *)
(* reject, without effect, MaxFaults times in all.                         *)
(***************************************************************************)
EXTENDS Naturals, Sequences, FiniteSets

CONSTANTS
    Delivery,       \* calls of the fan-out's handle, an event each
    Subscriber,
    FanOut,         \* the fan-out's subscribers, in order
    Known,          \* the subscribers a replay is given
    Replayer,       \* processes that call replaySubscriberFailures, over and over
    MaxAttempts,    \* the policy of each subscriber
    BatchSize,      \* how many failures one replay lists
    MaxFaults

ASSUME SubscriberAssumption == FanOut \in Seq(Subscriber) /\ Known \subseteq Subscriber
ASSUME PolicyAssumption     == MaxAttempts \in [Subscriber -> Nat]
ASSUME BoundAssumption      == BatchSize \in Nat /\ MaxFaults \in Nat

VARIABLES
    at,         \* of each delivery, the position of the subscriber it has come to
    stage,      \* what it does there; "stopped" when handle threw
    handled,    \* <<event, subscriber>> whose handler returned
    store,      \* the failures
    audited,    \* failures whose dead-lettering has an audit entry
    pc, todo,   \* progress of each replay, the failures it has yet to see to
    faults

fanOut == <<at, stage>>
replay == <<pc, todo>>
vars   == <<fanOut, handled, store, audited, replay, faults>>

Failure == [subscriber : Subscriber, event : Delivery, retryCount : Nat,
            next : {"never", "later", "now"}, deadLettered : BOOLEAN, resolved : BOOLEAN]

TypeOK ==
    /\ at \in [Delivery -> 1..(Len(FanOut) + 1)]
    /\ stage \in [Delivery -> {"handle", "record", "audit", "stopped"}]
    /\ handled \subseteq Delivery \X Subscriber
    /\ store \in Seq(Failure)
    /\ audited \subseteq DOMAIN store
    /\ pc \in [Replayer -> {"idle", "handle", "resolve", "retry", "audit"}]
    /\ todo \in [Replayer -> SUBSET DOMAIN store]
    /\ faults \in 0..MaxFaults

Init ==
    /\ at = [e \in Delivery |-> 1]
    /\ stage = [e \in Delivery |-> "handle"]
    /\ handled = {}
    /\ store = <<>>
    /\ audited = {}
    /\ pc = [p \in Replayer |-> "idle"]
    /\ todo = [p \in Replayer |-> {}]
    /\ faults = 0

Fault == faults < MaxFaults /\ faults' = faults + 1

-----------------------------------------------------------------------------
(* FanOutIntegrationEventSubscriber.handle                                 *)

AtSubscriber(e) == at[e] <= Len(FanOut)

GoOn(e) ==
    /\ at' = [at EXCEPT ![e] = @ + 1]
    /\ stage' = [stage EXCEPT ![e] = "handle"]

\* The subscriber returns, or it throws and the failure is recorded.
Handle(e) ==
    /\ stage[e] = "handle" /\ AtSubscriber(e)
    /\ \/ handled' = handled \cup {<<e, FanOut[at[e]]>>} /\ GoOn(e)
       \/ stage' = [stage EXCEPT ![e] = "record"] /\ UNCHANGED <<at, handled>>
    /\ UNCHANGED <<store, audited, replay, faults>>

NewFailure(e, s) ==
    [ subscriber |-> s, event |-> e, retryCount |-> 1,
      next |-> IF MaxAttempts[s] <= 1 THEN "never" ELSE "later",
      deadLettered |-> MaxAttempts[s] <= 1, resolved |-> FALSE ]

\* A bug: the failure is logged, not stored.
RecordFailureNowhere(e) ==
    /\ stage[e] = "record"
    /\ GoOn(e)
    /\ UNCHANGED <<handled, store, audited, replay, faults>>

\* A failure that cannot be recorded ends the fan-out: the subscribers that
\* follow do not get the event.
RecordFailure(e) ==
    LET s == FanOut[at[e]] IN
    /\ stage[e] = "record"
    /\ \/ /\ store' = Append(store, NewFailure(e, s))
          /\ IF MaxAttempts[s] <= 1
             THEN stage' = [stage EXCEPT ![e] = "audit"] /\ UNCHANGED at
             ELSE GoOn(e)
          /\ UNCHANGED faults
       \/ Fault /\ stage' = [stage EXCEPT ![e] = "stopped"] /\ UNCHANGED <<at, store>>
    /\ UNCHANGED <<handled, audited, replay>>

\* A bug: the entry names the failure after the one it is about.
AuditFanOutOffByOne(e) ==
    /\ stage[e] = "audit"
    /\ audited' = audited \cup {Len(store) + 1}
    /\ GoOn(e)
    /\ UNCHANGED <<handled, store, replay, faults>>

\* Failures of the audit log itself are caught, and reported as telemetry: an
\* entry here stands for either.
AuditFanOut(e) ==
    /\ stage[e] = "audit"
    /\ audited' = audited \cup {i \in DOMAIN store :
            store[i].event = e /\ store[i].subscriber = FanOut[at[e]]}
    /\ GoOn(e)
    /\ UNCHANGED <<handled, store, replay, faults>>

-----------------------------------------------------------------------------
(* The failure store                                                       *)

\* A bug: whether a failure is resolved is not looked at.
ReplayableThoughResolved(i) == store[i].next = "now" /\ ~store[i].deadLettered

\* A bug: only failures that were not replayed before are found.
ReplayableOnce(i) ==
    store[i].next = "now" /\ ~store[i].deadLettered /\ store[i].retryCount = 1

\* The filter of listReplayable.
Replayable(i) ==
    /\ store[i].next = "now"
    /\ ~store[i].deadLettered
    /\ ~store[i].resolved

\* listReplayable: the oldest BatchSize of them.
Listed ==
    LET found == {i \in DOMAIN store : Replayable(i)}
    IN  {i \in found : Cardinality({j \in found : j <= i}) <= BatchSize}

\* nextAttemptAt is reached.
RetryDelayElapses(i) ==
    /\ store[i].next = "later"
    /\ store' = [store EXCEPT ![i].next = "now"]
    /\ UNCHANGED <<fanOut, handled, audited, replay, faults>>

Exhausted(s, retryCount) == retryCount >= MaxAttempts[s]

MarkResolved(i) ==
    store' = [store EXCEPT ![i].resolved = TRUE, ![i].next = "never"]

\* A bug: the attempt that gives up is not counted.
MarkRetriedUncounted(i, deadLettered) ==
    store' = [store EXCEPT ![i].retryCount = IF deadLettered THEN @ ELSE @ + 1,
                           ![i].next = IF deadLettered THEN "never" ELSE "later",
                           ![i].deadLettered = deadLettered]

MarkRetried(i, deadLettered) ==
    store' = [store EXCEPT ![i].retryCount = @ + 1,
                           ![i].next = IF deadLettered THEN "never" ELSE "later",
                           ![i].deadLettered = deadLettered]

-----------------------------------------------------------------------------
(* replaySubscriberFailures                                                *)

Goto(p, place) == pc' = [pc EXCEPT ![p] = place]

\* Failures are seen to in the order they were listed in.
Item(p) == CHOOSE i \in todo[p] : \A j \in todo[p] : i <= j

\* To the next failure listed, or to the end of the replay.
Advance(p) ==
    LET rest == todo[p] \ {Item(p)} IN
    /\ todo' = [todo EXCEPT ![p] = rest]
    /\ Goto(p, IF rest = {} THEN "idle" ELSE "handle")

List(p) ==
    /\ pc[p] = "idle"
    /\ Listed # {}
    /\ todo' = [todo EXCEPT ![p] = Listed]
    /\ Goto(p, "handle")
    /\ UNCHANGED <<fanOut, handled, store, audited, faults>>

\* A bug: the handler's promise is not awaited, its failure not seen.
HandleAgainUnawaited(p) ==
    LET f == store[Item(p)] IN
    /\ pc[p] = "handle"
    /\ handled' = handled \cup {<<f.event, f.subscriber>>} \/ UNCHANGED handled
    /\ Goto(p, "resolve")
    /\ UNCHANGED <<fanOut, store, audited, todo, faults>>

\* A subscriber the replay is not given counts as one that throws.
HandleAgain(p) ==
    LET f == store[Item(p)] IN
    /\ pc[p] = "handle"
    /\ \/ /\ f.subscriber \in Known
          /\ handled' = handled \cup {<<f.event, f.subscriber>>}
          /\ Goto(p, "resolve")
       \/ Goto(p, "retry") /\ UNCHANGED handled
    /\ UNCHANGED <<fanOut, store, audited, todo, faults>>

\* A failure that was handled and cannot be marked is treated as one that was not.
Resolve(p) ==
    /\ pc[p] = "resolve"
    /\ \/ MarkResolved(Item(p)) /\ Advance(p) /\ UNCHANGED faults
       \/ Fault /\ Goto(p, "retry") /\ UNCHANGED <<store, todo>>
    /\ UNCHANGED <<fanOut, handled, audited>>

\* A bug: whether markFailureForRetry has given the failure up is ignored, as it is
\* for a subscriber the replay is not given.
RetryUnaudited(p) ==
    LET f           == store[Item(p)]
        deadLettered == Exhausted(f.subscriber, f.retryCount + 1)
    IN
    /\ pc[p] = "retry"
    /\ \/ MarkRetried(Item(p), deadLettered) /\ Advance(p) /\ UNCHANGED faults
       \/ Fault /\ Goto(p, "idle") /\ todo' = [todo EXCEPT ![p] = {}] /\ UNCHANGED store
    /\ UNCHANGED <<fanOut, handled, audited>>

\* markFailureForRetry.  When the store rejects, the whole replay does.
Retry(p) ==
    LET f           == store[Item(p)]
        deadLettered == Exhausted(f.subscriber, f.retryCount + 1)
    IN
    /\ pc[p] = "retry"
    /\ \/ /\ MarkRetried(Item(p), deadLettered)
          /\ IF deadLettered /\ f.subscriber \in Known
             THEN Goto(p, "audit") /\ UNCHANGED todo
             ELSE Advance(p)
          /\ UNCHANGED faults
       \/ Fault /\ Goto(p, "idle") /\ todo' = [todo EXCEPT ![p] = {}] /\ UNCHANGED store
    /\ UNCHANGED <<fanOut, handled, audited>>

AuditReplay(p) ==
    /\ pc[p] = "audit"
    /\ audited' = audited \cup {Item(p)}
    /\ Advance(p)
    /\ UNCHANGED <<fanOut, handled, store, faults>>

-----------------------------------------------------------------------------

FanOutStep(e) == Handle(e) \/ RecordFailure(e) \/ AuditFanOut(e)

ReplayStep(p) ==
    List(p) \/ HandleAgain(p) \/ Resolve(p) \/ Retry(p) \/ AuditReplay(p)

Next ==
    \/ \E e \in Delivery : FanOutStep(e)
    \/ \E i \in DOMAIN store : RetryDelayElapses(i)
    \/ \E p \in Replayer : ReplayStep(p)

Spec == Init /\ [][Next]_vars

\* Promises settle, retry delays pass, and replays are run again and again.
Fairness ==
    /\ \A e \in Delivery : WF_vars(FanOutStep(e))
    /\ WF_vars(\E i \in DOMAIN store : RetryDelayElapses(i))
    /\ \A p \in Replayer : WF_vars(ReplayStep(p))

FairSpec == Spec /\ Fairness

-----------------------------------------------------------------------------
(* Properties                                                              *)

GivenUp(e, s) ==
    \E i \in DOMAIN store :
        store[i].event = e /\ store[i].subscriber = s /\ store[i].deadLettered

\* No subscriber is forgotten: once the fan-out has gone past it, it has handled
\* the event, or a failure is there that some replay will pick up, or one that was
\* given up.  Overlapping replays and a store that rejects do not lose it.
NothingForgotten ==
    \A e \in Delivery : \A n \in 1..(at[e] - 1) :
        \/ <<e, FanOut[n]>> \in handled
        \/ \E i \in DOMAIN store :
              /\ store[i].event = e /\ store[i].subscriber = FanOut[n]
              /\ store[i].deadLettered \/ (store[i].next # "never" /\ ~store[i].resolved)

\* The subscriber's own policy decides, whoever counts: a failure is dead-lettered
\* exactly when its attempts, the first one included, reach maxAttempts, and it is
\* not scheduled any more; also when replays that overlap count together.
DeadLetteredWhenExhausted ==
    \A i \in DOMAIN store :
        LET f == store[i] IN
        /\ f.deadLettered <=> Exhausted(f.subscriber, f.retryCount)
        /\ f.deadLettered => f.next = "never"

\* A failure that is resolved or dead-lettered, and that no replay still has in
\* hand, is left alone for ever: no replay takes it up again, its attempts are not
\* counted on and its fate does not change.  (A replay that overlapped may have
\* scheduled a resolved failure once more; nothing comes of that.)
SettledIsLeftAlone ==
    [][\A i \in DOMAIN store :
          /\ store[i].resolved \/ store[i].deadLettered
          /\ \A p \in Replayer : i \notin todo[p]
          => /\ store'[i] = [store[i] EXCEPT !.next = store'[i].next]
             /\ \A p \in Replayer : i \notin todo'[p]]_vars

\* In the end every subscriber that the fan-out reached has handled the event, or
\* its failure is dead-lettered.
EventuallyHandledOrGivenUp ==
    \A e \in Delivery : <>[](
        \A n \in 1..Len(FanOut) :
            \/ stage[e] = "stopped" /\ n >= at[e]
            \/ <<e, FanOut[n]>> \in handled
            \/ GivenUp(e, FanOut[n]))

\* Which dead letters the audit log knows of, whatever the store rejects and however
\* replays overlap.  When no fan-out and no replay is at work, it has an entry for
\* those of the subscribers that replays are given and for those given up at the first
\* attempt, and for nothing else: what a replay gives up because it is not given the
\* subscriber, it gives up without an entry.
DeadLettersAreAudited ==
    /\ \A e \in Delivery : ~AtSubscriber(e) \/ stage[e] = "stopped"
    /\ \A p \in Replayer : pc[p] = "idle"
    => \A i \in DOMAIN store :
            i \in audited <=>
                /\ store[i].deadLettered
                /\ store[i].subscriber \in Known \/ store[i].retryCount = 1
=============================================================================
