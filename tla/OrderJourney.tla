----------------------------- MODULE OrderJourney -----------------------------
(***************************************************************************)
(* An order from POST /orders to GET /orders/:id, wired as in              *)
(* composition-root.ts: placeOrder writes the outbox, concurrent calls of  *)
(* POST /dispatch-outbox publish it and hand each event to the fan-out,    *)
(* the fan-out's projector writes the read model, replays hand it what it  *)
(* failed on, and getOrderSummary answers from the read model.             *)
(*                                                                         *)
(* The components are IdempotentPlacement (which PlaceOrder implements),   *)
(* OutboxDispatch and SubscriberDelivery.  What they share here:           *)
(*   - an order that is announced is a message that is saved;              *)
(*   - a dispatcher that notifies its subscriber runs a fan-out of its     *)
(*     own, <<dispatcher, order>>, and goes on when the fan-out returns or *)
(*     quits when it throws.  Messages map to one event (v1).              *)
(*                                                                         *)
(* placeOrder looks its key up once and saves later, so calls of one key   *)
(* at the same time may each place an order; calls that wait for an answer *)
(* do not.  Both kinds of clients are considered ("waiting").              *)
(***************************************************************************)
EXTENDS Naturals, Sequences, FiniteSets

CONSTANTS
    Request, NoOrder,    \* calls of placeOrder, each naming the order it may place
    Key, KeyOf,          \* idempotency keys, and the one each request sends
    Customer, Owner,     \* customers, and whose order each is
    Admin, NoActor, OddRole, \* other callers: admin, no actor, an unknown role
    Dispatcher, MaxAttempts, BatchSize,  \* of OutboxDispatch
    Subscriber, FanOut, Projector, Policy,           \* of SubscriberDelivery
    Replayer, MaxFaults,
    Busy                 \* bound on the dispatchers that run: which of them, for clients
                         \* that wait (TRUE) and for others (FALSE)

ASSUME OwnerAssumption     == Owner \in [Request -> Customer]
ASSUME CallerAssumption    ==
    /\ NoOrder \notin Request
    /\ Customer \cap {Admin, NoActor, OddRole} = {}
    /\ Admin # NoActor /\ Admin # OddRole /\ NoActor # OddRole
ASSUME FanOutAssumption    ==
    FanOut \in Seq(Subscriber) /\ Policy \in [Subscriber -> Nat] /\ MaxFaults \in Nat
ASSUME BusyAssumption      == Busy \in [BOOLEAN -> SUBSET Dispatcher]
ASSUME ProjectorAssumption == \E n \in DOMAIN FanOut : FanOut[n] = Projector

VARIABLES
    waiting,                       \* clients repeat a key only after an answer
    paid, stored, announced, holder, told,                    \* placement
    liveReads, published, deadLettered, due, retryCount,      \* outbox
    pc, todo, msg, seen, delivered, notified, cut, aborts,    \* dispatchers
    at, stage, handled, store, audited,                       \* fan-outs
    replayPc, replayTodo, faults                              \* replays

placement   == <<waiting, paid, stored, holder, told>>
outbox      == <<liveReads, published, deadLettered, due, retryCount>>
dispatchers == <<pc, todo, msg, seen, delivered, notified, cut, aborts>>
subscribers == <<at, stage, handled, store, audited, replayPc, replayTodo, faults>>
vars        == <<placement, announced, outbox, dispatchers, subscribers>>

Placement == INSTANCE IdempotentPlacement WITH atomic <- TRUE, keyOf <- KeyOf

Outbox == INSTANCE OutboxDispatch WITH
    Message <- Request, NoMessage <- NoOrder, EventCount <- 1, MaxAborts <- 0,
    saved <- announced

Delivery == Dispatcher \X Request

Subscribers == INSTANCE SubscriberDelivery WITH
    Known <- Subscriber, MaxAttempts <- Policy, pc <- replayPc, todo <- replayTodo

\* POST /dispatch-outbox uses the time of the call: a new message is due.
Init ==
    /\ waiting \in BOOLEAN /\ Placement!PlacementInit
    /\ Outbox!Init /\ due = Request
    /\ Subscribers!Init

-----------------------------------------------------------------------------

\* POST /orders.  What its caller is told changes nothing on the way.
PlaceOrderStep(r) ==
    /\ Placement!Pay(r) \/ Placement!PayInVain(r) \/ Placement!Place(r)
    /\ UNCHANGED <<waiting, outbox, dispatchers, subscribers>>

\* POST /dispatch-outbox up to the subscriber.  A dispatcher does not die alone: it
\* shares its process with the failure store and the read model.
DispatchStep(d) ==
    /\ d \in Busy[waiting]
    /\ \/ Outbox!ListPending(d)    \/ Outbox!Publish(d)
       \/ Outbox!RecordFailure(d)  \/ Outbox!Acknowledge(d)
       \/ Outbox!RecordAckFailure(d)
    /\ UNCHANGED <<placement, subscribers>>

FanOutOf(d) == <<d, msg[d]>>

\* A bug: the subscriber is called before the broker's acknowledgement is stored.
FanOutStepEarly(d) ==
    /\ pc[d] \in {"acknowledge", "notify"}
    /\ Subscribers!FanOutStep(FanOutOf(d))
    /\ UNCHANGED <<placement, announced, outbox, dispatchers>>

FanOutStep(d) ==
    /\ pc[d] = "notify"
    /\ Subscribers!FanOutStep(FanOutOf(d))
    /\ UNCHANGED <<placement, announced, outbox, dispatchers>>

\* A bug: the dispatcher does not await its subscriber.
FanOutReturnsAtOnce(d) ==
    /\ pc[d] = "notify"
    /\ Outbox!NotifyAll(d)
    /\ UNCHANGED <<placement, subscribers>>

FanOutReturns(d) ==
    /\ pc[d] = "notify"
    /\ stage[FanOutOf(d)] = "handle" /\ ~Subscribers!AtSubscriber(FanOutOf(d))
    /\ Outbox!NotifyAll(d)
    /\ UNCHANGED <<placement, subscribers>>

FanOutRejects(d) ==
    /\ pc[d] = "notify"
    /\ stage[FanOutOf(d)] = "stopped"
    /\ Outbox!SubscriberThrows(d)
    /\ UNCHANGED <<placement, subscribers>>

\* replaySubscriberFailures
ReplayStep(p) ==
    /\ Subscribers!ReplayStep(p)
    /\ UNCHANGED <<placement, announced, outbox, dispatchers>>

TimePasses ==
    \/ /\ \E r \in Request : Outbox!RetryDelayElapses(r)
       /\ UNCHANGED <<placement, subscribers>>
    \/ /\ \E i \in DOMAIN store : Subscribers!RetryDelayElapses(i)
       /\ UNCHANGED <<placement, announced, outbox, dispatchers>>

DispatcherRuns(d) ==
    DispatchStep(d) \/ FanOutStep(d) \/ FanOutReturns(d) \/ FanOutRejects(d)

Next ==
    \/ \E r \in Request : PlaceOrderStep(r)
    \/ \E d \in Dispatcher : DispatcherRuns(d)
    \/ \E p \in Replayer : ReplayStep(p)
    \/ TimePasses

Spec == Init /\ [][Next]_vars

\* Dispatches and replays are started again and again, their promises settle, and
\* time passes; orders need not come.
FairSpec ==
    /\ Spec
    /\ \A d \in Dispatcher : WF_vars(DispatcherRuns(d))
    /\ \A p \in Replayer : WF_vars(ReplayStep(p))
    /\ WF_vars(TimePasses)

-----------------------------------------------------------------------------
(* GET /orders/:id                                                         *)

Caller == Customer \cup {Admin, NoActor, OddRole}

\* What OrderSummaryProjectorSubscriber has upserted.
View == {r \in Request : \E d \in Dispatcher : <<<<d, r>>, Projector>> \in handled}

\* findById of the read model
Found(r) == r \in View

\* assertCanViewCustomerOrder
MayView(caller, r) == caller = Admin \/ caller = Owner[r]

\* A bug: that the caller may not see the order is said as such.
SummaryStatusForbidden(caller, r) ==
    IF ~Found(r) THEN 404 ELSE IF MayView(caller, r) THEN 200 ELSE 403

\* getOrderSummary: an order that the caller may not see is answered like one that
\* is not there.
SummaryStatus(caller, r) == IF Found(r) /\ MayView(caller, r) THEN 200 ELSE 404

\* handleGetOrderHttp: the caller's role is looked at before the order.
GetStatus(caller, r) ==
    CASE caller = NoActor -> 401
      [] caller = OddRole -> 400
      [] OTHER            -> SummaryStatus(caller, r)

-----------------------------------------------------------------------------
(* Properties                                                              *)

\* What a client can read has been paid for and stored, the broker has its event
\* and the outbox knows it; and to clients that wait for an answer before they send a
\* key again, a key shows at most one order, however often its order is dispatched,
\* fanned out and replayed.  To clients that do not wait it may show several.
ShownIsOrdered ==
    \A r \in View :
        /\ r \in paid \cap stored \cap published
        /\ delivered[r][1] > 0
        /\ waiting => \A s \in View : KeyOf[r] = KeyOf[s] /\ KeyOf[r] \in Key => r = s

\* Only its owner and admins learn from GET /orders/:id whether there is an order,
\* in every state of its journey; and they do once it is projected.
OthersLearnNothing ==
    \A caller \in Caller, r \in Request :
        IF MayView(caller, r)
        THEN GetStatus(caller, r) = IF Found(r) THEN 200 ELSE 404
        ELSE GetStatus(caller, r) = GetStatus(caller, NoOrder)

BeingNotified(r) == \E d \in Dispatcher : pc[d] = "notify" /\ msg[d] = r

FailureOf(i, r) == store[i].subscriber = Projector /\ store[i].event[2] = r

\* A replay will hand r to the projector.
Owed(r) ==
    \E i \in DOMAIN store :
        /\ FailureOf(i, r)
        /\ store[i].next # "never" /\ ~store[i].resolved

GivenUp(r) == \E i \in DOMAIN store : FailureOf(i, r) /\ store[i].deadLettered

\* Cut short, with a trace of it: an acknowledgement about to be recorded as failed
\* or counted as such in the row, or a fan-out that threw.
CutShort(r) ==
    /\ r \in cut
    /\ \/ retryCount[r] > 0
       \/ \E d \in Dispatcher : \/ pc[d] = "recordAckFailure" /\ msg[d] = r
                               \/ stage[<<d, r>>] = "stopped"

\* At each moment of the journey somebody answers for an order that cannot be read
\* yet: the outbox that will publish it or has dead-lettered it, a dispatcher in
\* the middle of its fan-out, or the failure store that will replay or has
\* dead-lettered it.  The exception are deliveries cut short, by a rejected
\* acknowledgement (another dispatcher may take its dead letter back) or by a
\* failure store that rejects; they leave their trace.
OrdersAccountedFor ==
    \A r \in announced \ View :
        \/ r \notin published \/ r \in deadLettered
        \/ BeingNotified(r) \/ Owed(r) \/ GivenUp(r)
        \/ CutShort(r)

\* An order that is placed can in the end be read, or one of the two dead-letter
\* lists has it, or its delivery was cut short.
PlacedIsShown ==
    \A r \in Request : r \in announced ~>
        [](r \in View \/ r \in deadLettered \/ GivenUp(r) \/ r \in cut)
=============================================================================
