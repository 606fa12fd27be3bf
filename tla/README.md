# Verification of the clean/hexagonal order lab

TLA+ models of the program under `src/`, TLC runs that check them on small instances, and
TLAPS proofs, for every instance, of the safety properties that those runs check: of each
component and of the compositions. Liveness is model-checked only. All source paths below
are relative to `src/` (the TypeScript code is in `src/src/`).

## 1. Inventory

An order is placed by a use case, stored together with an outbox message, published from the
outbox by dispatch runs, projected into a read model by subscribers, and replayed for a
subscriber that failed. A second use case places orders as a saga with compensation. A worker
starts dispatch runs on triggers.

| Component | State it keeps | Operations | What makes it correct |
|---|---|---|---|
| Order placement, `application/use-cases/place-order.ts` with the order repositories, outboxes and units of work (Postgres, SQLite, in memory) | orders, idempotency records, outbox messages; the transaction open on a session; charges at the gateway | look the key up, price, authorize, charge, one transaction, audit | one order per key; order, record and message together; no silent charge; truthful answers |
| Outbox dispatch, `dispatch-outbox.ts` over `in-memory-outbox.ts` or `postgres-outbox.ts` | per message: published, dead-lettered, retry count, next attempt; per run: batch and message in hand | list, publish, acknowledge, record failures, notify the subscriber | publish before acknowledge before notify; at-least-once; bounded retries; every message settles |
| Poller, `poll-outbox.ts` | cycle count and a clock of its own | dispatch, look ahead, stop early | no retry due within the horizon is skipped; retries keep their distance |
| Checkout saga, `run-order-checkout-saga.ts` | progress of a call; payments, refunds, shipments, orders, audit entries outside it | charge, fulfill, refund, save, audit | the reported status is true of every system involved; the books balance |
| Subscriber delivery, `fan-out-integration-event-subscriber.ts`, `in-memory-subscriber-delivery-failure-store.ts`, `replay-subscriber-failures.ts` | the failures with retry count, schedule, dead-lettered and resolved marks | fan out, record, list, replay, resolve, retry, dead-letter | no subscriber forgotten; each policy kept; settled failures left alone |
| Delivery worker, `outbox-delivery-worker.ts`, `in-memory-delivery-trigger-consumer.ts` | queue, triggers in flight by id | enqueue, reserve, poll, acknowledge, release | no trigger lost, doubled or starved |
| Brokers, gateways, warehouses | none of their own (fakes) or outside the program | publish, charge, refund, ship | modelled by what their callers see |
| Read model, `order-summary-projector-subscriber.ts`, the two `*-order-read-model.ts`, `get-order-summary.ts` | summaries by order | upsert, find | only what was placed is shown, only to those who may see it |
| Authorization, `order-authorization-policy.ts` | none | may place, may view | nobody orders, or learns, for somebody else |
| Domain (`money.ts`, `order.ts`, pricing) | none that is shared | pure functions | rounding and boundaries |
| Presenters, HTTP/CLI/batch, telemetry, wiring | none that is shared | translation | a status says what happened |

How they interact: `placeOrder` and the saga write the outbox in the transaction that writes
the order; `dispatchOutbox` reads and marks the same table, calls the broker and then the
(fan-out) subscriber in the same process; the fan-out writes the failure store, which replays
read; the worker calls the poller, the poller calls `dispatchOutbox`.

What is hard in it: nothing reserves what it lists (messages, failures), so overlapping runs
work on the same item with copies or references that went stale; every call that leaves the
process may take effect without its reply; a process may die between any two awaits; the
idempotency key is looked up long before it is written; the unit of work and the statements
of other calls may share a database session. The hazards, each at its line, are in
`PROJECT.json`.

## 2. Modules

| Module | Models |
|---|---|
| `OutboxDispatch` | any number of dispatch runs over one outbox table |
| `ReliableDelivery` | the abstract promise of the outbox: transmit until complete or abandoned, never after |
| `OutboxDispatchProofs` | the TLAPS proofs about `OutboxDispatch`, its refinement of `ReliableDelivery` included |
| `PollOutbox` | a poll: dispatches in cycles on a clock, over `OutboxDispatch` |
| `OrderPricing`, `OrderPricingProofs` | prices, totals, the threshold, discounts; the proofs about totals and rounding |
| `PlaceOrder`, `PlaceOrderProofs` | calls of `placeOrder` over the Postgres, SQLite and in-memory adapters; extends `OrderPricing`; the proofs, its refinement of `IdempotentPlacement` included |
| `IdempotentPlacement` | the abstract promise of `placeOrder`, which `PlaceOrder` implements |
| `CheckoutSaga`, `CheckoutSagaProofs` | calls of `runOrderCheckoutSaga`; the proofs that its books balance and its statuses are true |
| `SubscriberDelivery`, `SubscriberDeliveryProofs` | fan-out, failure store and overlapping replays; the proofs of their safety properties |
| `DeliveryWorker`, `DeliveryWorkerProofs` | trigger queue and workers, a poll being one step; the proofs that no trigger is lost |
| `WorkerPolling`, `WorkerPollingProofs` | `DeliveryWorker` composed with `PollOutbox`, the poll step opened up; the proofs about polls and about the worker that runs them |
| `OrderJourney`, `OrderJourneyProofs` | `IdempotentPlacement`, `OutboxDispatch` and `SubscriberDelivery` composed, with the read model and its query side; the proofs about the whole |
| `MC*` | the instances TLC checks |

Correspondence, in all modules: one action per stretch of code between two awaits; a program
counter names the await a process is at; an awaited call that leaves the process has one
disjunct for success and others for rejection with and without effect. The definitions whose
comment starts "A bug" (and in `OutboxDispatch` the alternatives written directly above a
definition) are not part of a model: they are the mutations of the code that a property has
to notice.

**OutboxDispatch.** The columns of `outbox_messages` are sets of messages and the function
`retryCount`. Time is one bit per message, `due`: whether `next_attempt_at <= now`.
`liveReads` is chosen at the start: `InMemoryOutbox.listPending` returns the stored objects,
so that `message.retryCount` is current when the failure is handled, and `PostgresOutbox`
returns copies, so that it is what it was when listed (`seen`). A message may be saved with an
`occurredAt` that is not yet due. `Publish` delivers a prefix of
the events and may fail after any of them; `Acknowledge` may be applied and still reject;
`RecordAckFailure` is the catch that dead-letters; the subscriber may throw, which ends the
run; `Abort` is a dispatcher that dies. `cut` and `aborts` are history, read by properties only.

**PollOutbox.** A poll's clock starts at `startAt` and moves `stepSeconds` per cycle; here each
message has its `next_attempt_at` as a number and `due` is what follows from it and the clock.
Every step of a dispatch is the action of `OutboxDispatch`, conjoined with what becomes of the
times. `StartPoll` computes the horizon, and rejects for a `startAt` that is no date;
`LookAhead` is `listPending` at the horizon, after which the loop ends or goes on. `owed` and
`lastFailure` are history.

**PlaceOrder.** A request draws a fresh order id and so names its order. `orders`, `records`
and `messages` are what is committed, `newOrders`, `newRecords` and `newMessages` what the
open transaction of a session has written. `wiring` is chosen at the start:

* `postgres`: each call's statements on a session of its own, as adapters constructed per call
  would have it;
* `shared`: all on one session, which is what `PostgresUnitOfWork` does with the one handle it
  is constructed with;
* `sqlite`: `NoopUnitOfWork`, so that order and record are two statements that commit alone;
* `memory`: the same with maps; order and record are one step.

`ClientsWait` says whether clients repeat a key only after an answer. `charged` is what the
gateway accepted, under the request id `PaymentId`, which is the key even if it is empty. The
commands bring items, and prices, totals and the threshold decide as `OrderPricing` computes
them. `Status` is the HTTP status of an answer. A dead process is a request that fails: the
database rolls back, the client gets no result.

**IdempotentPlacement.** What a client of `placeOrder` may rely on: an order is stored,
announced and entered under its key in one step (without transactions: or stored alone), only
for a call not yet answered, and what a call is told is true. `waiting` says whether clients
repeat a key only after an answer. Only to those it promises that a key with an order gets no
other and is not charged again: `placeOrder` looks a key up once, before it charges, and saves
without looking again, so calls at the same time each place an order and the last one to save
holds the key. `PlaceOrder!Placement` maps the answers to what clients can tell apart, and
`waiting` to `ClientsWait`.

**OrderPricing.** `Checked` lists the checks of `Order.place` in their order, with the class of
error each throws; totals and discounts are in minor units.

**CheckoutSaga.** `charges` and `refunds` count by request id, which sagas with one
idempotency key share; `shipping`, `orders` and `audited` are the warehouse, the database and
the audit log. `Throw` and `Die` tell an exception from a process that is gone. `lost` is
history: the sagas whose fulfillment request was accepted and its reply lost, the only ones that
may refund goods that ship.

**SubscriberDelivery.** The store is a sequence, a failure's id its position. Replays read
live failures, as the in-memory store hands out its own objects. The store's calls may reject,
`MaxFaults` times in all, since the use case is written against a port and its catch covers
`markResolved`.

**DeliveryWorker.** `inFlight` is the `Map` from ids to triggers; `GivenId` is the id the
caller passes, or 0 for the id that the consumer makes up. A poll resolves or rejects.

**WorkerPolling.** One worker whose poll runs `PollOutbox` with the trigger's command merged
over the default one (`MergePollCommand`). `Queue` maps it back to `DeliveryWorker`, whose poll
step it implements: a malformed `startAt` is `Poison`, and every other rejection is one that the
outbox or a subscriber caused.

**OrderJourney.** Wired like `composition-root.ts`: an order that is announced is a saved
message; a dispatcher at its subscriber runs a fan-out of its own, `<<dispatcher, order>>`, and
`NotifyAll` is enabled when that fan-out has returned, `SubscriberThrows` when it threw. The
read model is what the projector has handled; `GetStatus` is the answer to GET /orders/:id for
each caller. All of it is one process, so no dispatcher dies alone (`MaxAborts` is 0).
Placement is `IdempotentPlacement` with `waiting` chosen at the start, so that clients that do
not wait may get two orders for one key, and both may be shown. `Busy` bounds the dispatchers
that run, for each kind of clients.

## 3. Runs

`CHECK_DEADLOCK FALSE` everywhere: calls end, and a system without work may stop.

| Run | Instance | Shows |
|---|---|---|
| `outbox_single` | 1 dispatcher, 2 messages of 2 events, 2 attempts, batches of 1, 2 deaths | `TypeOK`; `SettledIsFinal`; the refinement `ImplementsDelivery`, with its liveness |
| `outbox_shared` | 2 dispatchers, 1 message of 2 events, 3 attempts, 1 death | `BrokerFirst`, `GivenUpOnlyWhenExhausted`, `ExhaustedIsDeadLettered`, `DuplicatesAccountedFor`, `GapsExplained`, `EventuallySettled` |
| `outbox_exhausted` | the same | violated: `MaxAttemptsDeadLetters` |
| `place_order_retries` | 3 requests over 8 commands (one key sent by its customer, by another, by an admin, by nobody; no key, an empty one; at and above the threshold; unusable items), all four wirings, waiting clients | `OneOrderPerKey`, `CommittedTogether`, `ChargesAreReported`, `AnswersAreTrue`, `StatusIsHonest`, `DecisionsAreRight`, and the refinement `ImplementsPlacement` |
| `place_order_concurrent` | 2 requests, one key, clients that do not wait | violated: `OneOrderPerKey` |
| `saga_books` | 3 sagas, two with one key | `StatusIsTrue`, `OrdersArePaidFor`, `ShippedIsPaid` |
| `saga_uncompensated` | 1 saga | violated: `FailureIsCompensated` |
| `replay_overlap` | 1 event, 3 subscribers with 3, 1 and 2 attempts, of which replays are given only the first, 2 replays, 1 rejection of the store | `NothingForgotten`, `DeadLetteredWhenExhausted`, `DeadLettersAreAudited`, `SettledIsLeftAlone`, `EventuallyHandledOrGivenUp` |
| `worker_triggers` | 2 workers, 4 triggers with ids of their own, one poison, 1 other failure | `NothingLost`, `OnePlace`, `PoisonDoesNotStarve` |
| `worker_reused_id` | 2 workers, 4 triggers without ids | violated: `NothingLost` |
| `worker_polls` | 1 worker, 2 triggers, one malformed; 2 messages, 2 attempts, polls of 2 cycles, 1 rejection of a query | `RetriesAreSpaced`, `NothingLeftWithinHorizon`, `SettledWhenProcessed`, and the refinement `ImplementsQueue`, with its liveness |
| `order_journey` | 2 calls with one key, of clients that wait (2 concurrent dispatches) and of others (1 dispatch, up to 2 orders); 1 replay, 2 attempts each, 1 rejection of the failure store | `ShownIsOrdered`, `OthersLearnNothing`, `OrdersAccountedFor`, `PlacedIsShown` |

Every component has a type invariant in one run as well (`OrderJourney` only composes them). Runs that share a module differ in
question: `outbox_single` asks what holds without overlap, `worker_polls` opens the poll that
`worker_triggers` takes as one step, and there one worker is enough.

Bounds. Two dispatchers, replays or workers are enough for one to act on what another made
stale, and a third adds no new pair. Two events per message let a publish and a notification
stop halfway. Attempts of 2 and 3 leave room for a retry between first and last. `MaxAborts`,
`MaxFaults` and `MaxFailures` bound faults that nothing in the code bounds; each is at least
one, so that the recovery from a fault is explored, and the theorems hold for every value.
With one request retried twice (`place_order_retries`) a fault in the first call and one in
the second are followed by a third. In `worker_polls` the default command has exactly the
cycles that the attempts need, so that a horizon or a clock one step off shows; a message may be
saved due at the first cycle or between the cycles. In `order_journey` two calls make one order
and a failed predecessor possible, and two orders for one key when clients do not wait. Two
dispatchers and a replay can hold one event at a time; `Busy` lets one of them run where there
may be two orders, whose dispatches are independent but for the failure store, which the fan-outs
of one dispatcher share too. Messages map to one event there (`v1`, the default of
`INTEGRATION_EVENT_VERSIONS`).

The violations are disagreements between the code and what the repository's documents say of
it; `PROJECT.json` quotes the sentences. In short: two dispatchers over Postgres may retry
beyond `maxAttempts`; a key repeated while its first call runs places a second order; a saga
whose transaction fails keeps the money; ids of triggers are reused, and the trigger that loses
its place in flight is lost when its poll fails.

Two more disagreements are in the models without a run of their own; properties name them. Calls that share a database handle commit and roll back each other's work
(`wiring = "shared"`; `Isolated` guards what then fails, against
`docs/28-retry-vs-compensation-and-transaction-boundaries.md:22-27`): removing the guard from
`CommittedTogether` makes TLC show it. A failure whose subscriber is not configured any more is
dead-lettered without an audit entry (`replay-subscriber-failures.ts:45-56`, against
`docs/26-telemetry-vs-audit-log-and-business-events.md:71-73`): `DeadLettersAreAudited` says
exactly which dead letters have an entry, and those that such a replay makes are not among them.

## 4. Fairness

Liveness is checked under weak fairness of each process and of the passing of time, and of
nothing else: promises settle (an await does not hang), a retry delay elapses, and dispatches,
replays and workers are started again and again by whoever schedules them (`poll-outbox.ts`
and `outbox-delivery-worker.ts` loop; in the demos `index.ts` does). Faults are never forced
and orders need not come. `EventuallySettled` needs dispatchers that eventually stop dying,
which `MaxAborts` gives; `PoisonDoesNotStarve` needs polls of other triggers that eventually
stop failing, `MaxFailures`. `worker_polls` assumes no more than that the worker's next step is
taken, and derives that polls end and fail boundedly: `ImplementsQueue` includes the fairness
that `DeliveryWorker` assumes. `order_journey` has weak fairness of each dispatcher with its
fan-outs, of each replay and of the passing of time, and none of placement.

## 5. Proofs

Every invariant and every action property of the passing runs is a theorem, and so is the
safety half of each refinement. The constants are arbitrary within the assumptions that the
modules name; what a theorem assumes beyond them, it states:

| Assumption | Theorems | Without it |
|---|---|---|
| `OneDispatcher` | `SettledIsFinalHolds`, `ImplementsReliableDelivery` | two dispatchers publish what the other settled, the hazard that `DuplicatesAccountedFor` bounds |
| `IsFiniteSet(Dispatcher)` | `DuplicatesAccountedForHolds` | nothing to count |
| `ClientsWait` | `OneOrderPerKeyHolds`, `ChargesAreReportedHolds` | `place_order_concurrent`: two orders for a key |
| `DistinctIds` | `NothingLostHolds`, `OnePlaceHolds` | `worker_reused_id`: a trigger is lost |

Two theorems have the waiting of clients inside the property. `ShownIsOrderedHolds` holds for
both kinds, and says of clients that wait (`waiting`) that a key shows one order.
`ImplementsPlacementHolds` holds for both, and `IdempotentPlacement` promises one order per key
to those that wait.

In each module the strengthening is a conjunction of named parts. Where it was not obvious,
the parts were checked with TLC before they were proved.

**`OutboxDispatchProofs`**, for all messages, dispatchers and bounds:

* `TypeCorrect`: from `TypeInv`, that is `TypeOK` with what each program counter says about
  the message in hand and the batch.
* `BrokerFirstHolds`: inductive together with "whoever is about to acknowledge or to notify
  holds a message the broker has completely".
* `GivenUpOnlyWhenExhaustedHolds`: needs that a copy of `retryCount` is never larger than the
  row's, which holds because the row only grows; a stale copy delays giving up, never
  hastens it.
* `ExhaustedIsDeadLetteredHolds`: for live reads.
* `GapsExplainedHolds`: which path of the dispatcher can leave a published message unseen.
* `DuplicatesAccountedForHolds`: each dispatcher has at most one transmission of an event that
  no recorded failure or death pays for. `Spent(m)` is the set of dispatchers that have used
  theirs: those with the message in hand and, once it is published, all but those that listed
  it before and have not come to it. A publish puts its dispatcher into the set, and only a
  failure or a death takes one out.
* `SettledIsFinalHolds`, `ImplementsReliableDelivery`: with one dispatcher the message in hand
  is pending. The second maps initial states to initial states and every step to a step of
  `ReliableDelivery` or a stutter.

**`PlaceOrderProofs`**, for all requests, commands, keys, prices and wirings, in three
layers with the refinement on top:

* `ProgressInv`, over any wiring: what a call has done and was told follows from where it is
  (`Progress`), and a record names an order of its key (`RecordsNameOrders`). It gives
  `TypeCorrect` and `StatusIsHonestHolds`; with `DecisionInv` it gives `DecisionsAreRightHolds`: a
  call turned away was so by `Decision`, for its own order or for one paid for under its key
  (`TurnedAway`), and a call is given only an order that its caller may place (`Served`).
* `SeparateInv`, where sessions are apart (`Isolated`): what an open transaction has written
  belongs to the one request of its session (`OwnTransaction`), so that a commit adds an order
  with its message and record or nothing; and what a call was told, or is about to be told,
  is true of what is committed (`Truthful`). Hence `CommittedTogetherHolds` and
  `AnswersAreTrueHolds`, for clients that wait and clients that do not.
* `WaitingInv`, for clients that wait: at most one call of a key is at work, and until it
  stores its order the key has none (`OneAtATime`); a key is charged twice only after a
  failure that was told (`PaidOnce`). Hence `OneOrderPerKeyHolds` and `ChargesAreReportedHolds`.
* `ImplementsPlacementHolds` takes from `WaitingInv` what it says of clients that wait, and for
  the others only what holds with sessions apart: `Pays`, `PlacesWhole`, `PlacesAlone` and
  `TellsTruth` are one lemma for each step of `IdempotentPlacement` that a step of a call can be.

**`CheckoutSagaProofs`**, for any finite set of sagas, however they share request ids. The
gateway only counts, so the invariant says that there are sets `C` and `R` of sagas charged
and refunded which its counters count (`Counted`), and what membership in them means for a
saga by where it is and how it ended (`Sound`). `OrdersArePaidForHolds` and `ShippedIsPaidHolds`
compare the sizes of such sets (`CountParts`): the sagas refunded are apart from those with an
order, and from those whose goods ship unless the reply of the warehouse was lost.
`StatusIsTrueHolds` reads `Sound` off.

The books are all that is said of a saga that is repeated with its key. The code looks nothing up,
so the second call charges again and stores a second order; no document of the repository promises
otherwise, and `OrdersArePaidFor` says that the second order is paid for as well.

**`SubscriberDeliveryProofs`**, for all events, subscribers, policies, replays and faults:

* `TypeCorrect`, with "a replay that is not idle has something left on its list".
* `DeadLetteredWhenExhaustedHolds`. It rests on what a step does to the store (`StoreStep`):
  failures are only added, and what becomes of one is one of four things (`Fate`), each of
  which keeps the policy; so the interleaving of replays does not matter.
* `NothingForgottenHolds`. Inductive together with "a failure that nobody will replay was given
  up, or its subscriber got the event" and "what a replay is about to resolve was handled":
  two replays that overlap may mark a failure again, but only one that has had the handler
  return marks it as resolved.
* `DeadLettersAreAuditedHolds`, exactly which dead letters have an entry, whatever the store
  rejects. One way: a failure given up whose giving up is recorded (`Due`) has its entry, or a
  fan-out or a replay stands before the call that writes it (`EntryOwed`). The other: an entry,
  there or about to be written, has such a dead letter (`EntriesEarned`), for which
  `FirstAttempts` says that only what is given up when it is stored is given up by a fan-out, and
  that no replay lists it.
* `SettledIsLeftAloneHolds`: a failure that no replay has in hand changes by the passing of
  time only, and enters a list only by `Listed`, which leaves out what is settled.

**`DeliveryWorkerProofs`**: `TypeCorrect` for all ids; `NothingLostHolds` and `OnePlaceHolds`
for callers that give each trigger an id of its own. The inductive invariant adds `MapIsTrue`:
the map of triggers in flight holds exactly the triggers that workers have in hand, each
under its id.

**`WorkerPollingProofs`**, for all messages, triggers, commands, batches and bounds:

* `RetriesAreSpacedHolds`, for any sequence of polls: a message not settled is not due before
  the delay that followed its last failure is over, and one in hand was due.
* `NothingLeftWithinHorizonHolds`: what a poll owes is, after each cycle, settled or postponed
  beyond that cycle (`Reached`); a poll that stops early has looked ahead to the last one.
* `WorkerTypeCorrect`. That `failures` is bounded is not a matter of types: each poll that
  rejects has lost a message to a subscriber that threw, which no later poll gets, or a
  rejected call (`FailuresCounted`).
* `SettledWhenProcessedHolds`, for commands with cycles enough for all retries: a message with
  `n` failures is due again by cycle `n * Span`, and the poll has not passed that cycle without
  having the message in hand (`ScheduleInv`); so a poll that resolves has settled what its
  trigger found due, although polls before it were cut short.
* `QueueIsKept` and `PollsAreKept`: a behaviour of the composition is one of `DeliveryWorker`
  and one of `PollOutbox`, so what is proved of these holds in it.

**`OrderJourneyProofs`**, for all requests, dispatchers, replays and faults:

* `ShownIsOrderedHolds`: along the chain paid, stored, announced, transmitted, published,
  handled, each link is kept by whoever adds the next (`OrderInv`, `HandledInOrder`); when
  clients wait, a stored order holds its key (`PlacedInOrder`).
* `OrdersAccountedForHolds`: a published order is with a dispatcher that notifies, its fan-out
  is over, or its delivery was cut short (`PublishedAreFollowed`); when the fan-out is over,
  the projector handled the order or the failure store owes it (`ForgottenInv`).
* `OthersLearnNothingHolds`: of the answers as they are computed, in every state.
* `ComponentsAreKept`: the composition implements the three specifications it is made of.

The proof of `ForgottenInv` appears twice, in `SubscriberDeliveryProofs` and here with the
instance's names: the prover cannot cite a theorem of an instantiated module, whose
assumptions would have to be discharged.

**`OrderPricingProofs`**: `DiscountRoundsDown` and `DiscountIsMonotonic` for all amounts and
whole percentages (no run reaches discounts, since no use case applies one yet), and
`TotalCountsUnits`: the total of any list of order lines is the sum of price times quantity.
The library's induction theorems cannot be used, so it is proved on the recursive function
that the total is, by a least counterexample.

Only model-checked: everything that needs fairness. These are `EventuallySettled`,
`EventuallyHandledOrGivenUp`, `PoisonDoesNotStarve`, `PlacedIsShown`, and the liveness halves of
`ImplementsDelivery` and `ImplementsQueue` (that the fairness of the detailed specification
gives that of the abstract one), which speak of `ENABLED` and are out of the prover's reach.
The runs that expect a violation have, of course, no theorem.


## 6. Not modelled

* Telemetry (its adapters never reject), the contents of events and of read-model rows,
  wording and formatting, parsing, CLI, batch, demos and migrations.
* Currencies (the catalog has one, so `Money`'s mismatch error cannot occur in a use case) and
  fractional percentages, whose products are floating point numbers.
* What a payment gateway with a memory does with a request id it has seen: the gateways of the
  repository keep no state. An empty key is one such id, which all calls that send it share.
* The truncation of request ids by the Stripe-like gateway, and the warehouse's vocabulary.
* Two polls at once over one outbox: their clocks differ, so a message due for one is not for
  the other. `OutboxDispatch` covers their dispatches with a `due` that both see.
* `maxRuns` of `runUntilIdle` and the counts that dispatches, polls and workers return: workers
  are called again and again, and no decision rests on a count.
* Fields of a poll command that a trigger brings as `undefined`, which override the default.
* A death of the process in the in-memory wirings: everything is lost with it. Nor a death
  between the order and its message with orders in SQLite and the outbox in memory, which would
  leave an order that nobody announces: `composition-root.ts` never wires these two together.

Modelled, and left without a promise: the subscribers that come after a stopped fan-out (its store
rejected a failure). The code never calls them again, and no document says it would.
`NothingForgotten`, `EventuallyHandledOrGivenUp`, `OrdersAccountedFor` and `PlacedIsShown` speak
of the others. So it is with an order whose acknowledgement was applied and rejected (`CutShort`):
the broker has its event, the subscriber is never called, and its recorded failure is the trace.

## 7. Plan

What is left is to widen rather than to complete. In this order:

* what remains true of `wiring = "shared"`, where the theorems about placement that assume
  `Isolated` are silent: an order that another call's rollback has undone is the known loss;
  a theorem should say that every loss is of that kind;
* more than one dispatcher: a weaker abstract delivery, which may transmit after it settled but
  only from a batch listed before, refined by any number of dispatchers;
* two polls over one outbox, each with its clock, which needs `due` per poll in
  `OutboxDispatch`.
