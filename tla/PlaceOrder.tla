----------------------------- MODULE PlaceOrder -----------------------------
(***************************************************************************)
(* placeOrder (place-order.ts) called concurrently, or retried by clients  *)
(* that wait for an answer.  A request is one call; it draws a fresh order *)
(* id, so that a request names the order it may create.                    *)
(*                                                                         *)
(* Every await is a step, and every awaited call may reject.  A process    *)
(* that dies looks the same to client and database: the database rolls an  *)
(* open transaction back and the client gets no result.                    *)
(*                                                                         *)
(* The ports may be wired to PostgresOrderRepository, PostgresOutbox and   *)
(* PostgresUnitOfWork, or to InMemoryOutbox and NoopUnitOfWork with        *)
(* InMemoryOrderRepository or SqliteOrderRepository.                       *)
(*                                                                         *)
(* A transaction belongs to the database session its statements are sent   *)
(* on.  PostgresUnitOfWork issues BEGIN, COMMIT and ROLLBACK on the one    *)
(* handle it was constructed with: the requests of an application share    *)
(* that session ("shared"), unless adapters are constructed for each.      *)
(***************************************************************************)
EXTENDS OrderPricing, FiniteSets

CONSTANTS
    Request,      \* calls of placeOrder
    Key,          \* idempotency keys
    NoKey, EmptyKey, \* the absence of one, and the empty string
    Customer, NoCustomer, \* customers, who are also actors; an empty customerId
    Admin,        \* an actor of role admin
    NoActor,      \* an unauthenticated call
    NoOrder,      \* no such order
    Command,      \* the commands requests may carry (a set of records)
    Handle,       \* the database session of an application whose calls share one
    ClientsWait,  \* a key is sent again only after the previous call answered
    Wiring        \* the wirings to consider

ASSUME CommandAssumption ==
    \A c \in Command :
        /\ c.key \in Key \cup {NoKey, EmptyKey}
        /\ c.customer \in Customer \cup {NoCustomer}
        /\ c.actor \in Customer \cup {Admin, NoActor}
        /\ c.items \in Seq([sku : STRING, quantity : Int \cup {Fraction}])
ASSUME WiringAssumption  == Wiring \subseteq {"postgres", "shared", "sqlite", "memory"}
ASSUME AbsentAssumption  ==
    /\ NoKey \notin Key /\ EmptyKey \notin Key \cup {NoKey}
    /\ NoOrder \notin Request /\ Handle \notin Request /\ (Key \cup {EmptyKey}) \cap Request = {}
    /\ {Admin, NoActor, NoCustomer} \cap Customer = {} /\ Admin # NoActor

VARIABLES
    wiring,                      \* how the ports are wired
    command,                     \* what each request asks for
    pc, answer, result,          \* its progress, its outcome, the order it returns
    charged,                     \* requests whose payment the gateway accepted
    orders, records, messages,   \* committed: orders, idempotency_records, outbox_messages
    txState,                     \* of each session: no transaction, an open or a failed one
    newOrders, newRecords, newMessages  \* what the open transaction has written

given     == <<wiring, command>>
committed == <<orders, records, messages>>
staged    == <<txState, newOrders, newRecords, newMessages>>
vars      == <<given, pc, answer, result, charged, committed, staged>>

Session == Request \cup {Handle}

Records == [Key -> Request \cup {NoOrder}]

NoRecords == [k \in Key |-> NoOrder]

TypeOK ==
    /\ wiring \in Wiring
    /\ command \in [Request -> Command]
    /\ pc \in [Request -> {"lookup", "price", "charge", "begin", "insertOrder",
                           "insertRecord", "insertMessage", "commit", "rollback",
                           "audit", "done"}]
    /\ answer \in [Request -> {"none", "placed", "reused", "invalid", "unauthenticated",
                               "forbidden", "paymentFailed", "failed"}]
    /\ result \in [Request -> Request \cup {NoOrder}]
    /\ charged \subseteq Request
    /\ orders \subseteq Request
    /\ records \in Records
    /\ messages \subseteq Request
    /\ txState \in [Session -> {"none", "open", "failed"}]
    /\ newOrders \in [Session -> SUBSET Request]
    /\ newRecords \in [Session -> Records]
    /\ newMessages \in [Session -> SUBSET Request]

Init ==
    /\ wiring \in Wiring
    /\ command \in [Request -> Command]
    /\ pc = [r \in Request |-> "lookup"]
    /\ answer = [r \in Request |-> "none"]
    /\ result = [r \in Request |-> NoOrder]
    /\ charged = {}
    /\ orders = {} /\ records = NoRecords /\ messages = {}
    /\ txState = [s \in Session |-> "none"]
    /\ newOrders = [s \in Session |-> {}]
    /\ newRecords = [s \in Session |-> NoRecords]
    /\ newMessages = [s \in Session |-> {}]

-----------------------------------------------------------------------------
(* Helpers                                                                 *)

\* Whether statements and BEGIN .. COMMIT go to Postgres, and on which session.
Transactional == wiring \in {"postgres", "shared"}

SessionOf(r) == IF wiring = "shared" THEN Handle ELSE r

KeyOf(r) == command[r].key

\* Only a key that is not empty is looked up and recorded,
HasKey(r) == KeyOf(r) \in Key

\* but an empty one is sent to the gateway: command.idempotencyKey ?? order.id
PaymentId(r) == IF KeyOf(r) = NoKey THEN r ELSE KeyOf(r)

\* OrderAuthorizationPolicy.assertCanPlaceOrder, for whoever calls with r and the
\* order that o asks for
Decision(r, o) ==
    LET actor == command[r].actor IN
    IF actor = NoActor THEN "unauthenticated"
    ELSE IF actor = Admin THEN "allowed"
    ELSE IF actor # command[o].customer \/ IsHighValue(command[o].items)
         THEN "forbidden" ELSE "allowed"

Goto(r, place) == pc' = [pc EXCEPT ![r] = place]

Answer(r, a, o) ==
    /\ Goto(r, "done")
    /\ answer' = [answer EXCEPT ![r] = a]
    /\ result' = [result EXCEPT ![r] = o]

\* An exception leaves placeOrder.
Fail(r) == Answer(r, "failed", NoOrder)

-----------------------------------------------------------------------------
(* Before the transaction                                                  *)

MayCall(r) ==
    ClientsWait /\ HasKey(r) =>
        \A s \in Request \ {r} : KeyOf(s) = KeyOf(r) =>
            pc[s] \in {"lookup", "done"}

\* What a query on session s sees: committed rows, and the session's own.
RecordSeen(s, k) == IF newRecords[s][k] # NoOrder THEN newRecords[s][k] ELSE records[k]

\* A bug: the key is not looked up.
ExistingIgnored(r) == NoOrder

\* findByIdempotencyKey joins idempotency_records with orders; without a key
\* nothing is looked up.
Existing(r) == IF HasKey(r) THEN RecordSeen(SessionOf(r), KeyOf(r)) ELSE NoOrder

\* A bug: whoever knows the key gets the order.
ReuseUnchecked(r, o) == Answer(r, "reused", o)

\* An order found is returned if the caller may place it; its authorization is
\* decided on the stored order and not on what the command asks for.
Reuse(r, o) ==
    IF Decision(r, o) = "allowed" THEN Answer(r, "reused", o)
    ELSE Answer(r, Decision(r, o), NoOrder)

Lookup(r) ==
    LET o == Existing(r) IN
    /\ pc[r] = "lookup"
    /\ MayCall(r)
    /\ \/ /\ command[r].customer = NoCustomer
          /\ Answer(r, "invalid", NoOrder)
       \/ /\ command[r].customer # NoCustomer
          /\ HasKey(r) => txState[SessionOf(r)] # "failed"
          /\ IF o = NoOrder
             THEN Goto(r, "price") /\ UNCHANGED <<answer, result>>
             ELSE Reuse(r, o)
       \/ /\ command[r].customer # NoCustomer
          /\ HasKey(r) /\ wiring # "memory"
          /\ Fail(r)
    /\ UNCHANGED <<given, charged, committed, staged>>

\* Prices, Order.place and the authorization of the new order.
Price(r) ==
    LET outcome == Checked(command[r].items) IN
    /\ pc[r] = "price"
    /\ \/ outcome = "order" /\ Decision(r, r) = "allowed"
          /\ Goto(r, "charge") /\ UNCHANGED <<answer, result>>
       \/ outcome = "order" /\ Decision(r, r) # "allowed"
          /\ Answer(r, Decision(r, r), NoOrder)
       \/ outcome = "invalid" /\ Answer(r, "invalid", NoOrder)
       \/ outcome = "error" /\ Fail(r)
    /\ UNCHANGED <<given, charged, committed, staged>>

\* A bug: what the gateway throws is answered as a mistake of the client.
ChargeFailsAsInvalid(r) ==
    /\ pc[r] = "charge"
    /\ \/ /\ charged' = charged \cup {r}
          /\ Goto(r, "begin") /\ UNCHANGED <<answer, result>>
       \/ /\ charged' = charged \cup {r} \/ UNCHANGED charged
          /\ Answer(r, "invalid", NoOrder)
    /\ UNCHANGED <<given, committed, staged>>

\* The gateway accepts, or the call rejects, perhaps after it accepted.
Charge(r) ==
    /\ pc[r] = "charge"
    /\ \/ /\ charged' = charged \cup {r}
          /\ Goto(r, "begin") /\ UNCHANGED <<answer, result>>
       \/ /\ charged' = charged \cup {r} \/ UNCHANGED charged
          /\ Answer(r, "paymentFailed", NoOrder)
    /\ UNCHANGED <<given, committed, staged>>

-----------------------------------------------------------------------------
(* runInTransaction                                                        *)

\* BEGIN inside a transaction is a warning and changes nothing; in a failed one
\* it is refused.  It is issued outside the try: no ROLLBACK follows.
Begin(r) ==
    LET s == SessionOf(r) IN
    /\ Transactional /\ pc[r] = "begin"
    /\ \/ /\ txState[s] # "failed"
          /\ txState' = [txState EXCEPT ![s] = "open"]
          /\ Goto(r, "insertOrder")
          /\ UNCHANGED <<answer, result>>
       \/ Fail(r) /\ UNCHANGED txState
    /\ UNCHANGED <<given, charged, committed, newOrders, newRecords, newMessages>>

\* A statement that fails, or is sent to a failed transaction, throws and leaves
\* the transaction failed.
StatementFails(r) ==
    /\ txState' = [txState EXCEPT ![SessionOf(r)] = IF @ = "none" THEN @ ELSE "failed"]
    /\ Goto(r, "rollback")
    /\ UNCHANGED <<committed, newOrders, newRecords, newMessages>>

\* A bug: the order is saved and its idempotency record is not.
InsertOrderWithoutRecord(r) ==
    /\ pc[r] = "insertOrder"
    /\ \/ /\ newOrders' = [newOrders EXCEPT ![SessionOf(r)] = @ \cup {r}]
          /\ Goto(r, "insertMessage")
          /\ UNCHANGED txState
       \/ StatementFails(r)
    /\ UNCHANGED <<given, answer, result, charged, committed, newRecords, newMessages>>

\* Outside a transaction a statement commits by itself.
InsertOrder(r) ==
    LET s == SessionOf(r) IN
    /\ pc[r] = "insertOrder"
    /\ \/ /\ txState[s] = "open"
          /\ newOrders' = [newOrders EXCEPT ![s] = @ \cup {r}]
          /\ Goto(r, IF HasKey(r) THEN "insertRecord" ELSE "insertMessage")
          /\ UNCHANGED <<orders, txState>>
       \/ /\ txState[s] = "none"
          /\ orders' = orders \cup {r}
          /\ Goto(r, IF HasKey(r) THEN "insertRecord" ELSE "insertMessage")
          /\ UNCHANGED <<newOrders, txState>>
       \/ StatementFails(r)
    /\ UNCHANGED <<given, answer, result, charged, records, messages,
                   newRecords, newMessages>>

\* An uncommitted record of the key holds its primary key's lock.
Locked(k, s) ==
    \E t \in Session \ {s} : txState[t] = "open" /\ newRecords[t][k] # NoOrder

\* A bug: the record keeps the payment's request id for the order's id.
InsertRecordOfPayment(r) ==
    /\ pc[r] = "insertRecord"
    /\ \/ /\ newRecords' = [newRecords EXCEPT ![SessionOf(r)][KeyOf(r)] = PaymentId(r)]
          /\ Goto(r, "insertMessage")
          /\ UNCHANGED txState
       \/ StatementFails(r)
    /\ UNCHANGED <<given, answer, result, charged, committed, newOrders, newMessages>>

\* ON CONFLICT (idempotency_key) DO UPDATE: waits for the key, and the last
\* writer's order wins.  The foreign key wants the order row to be visible.
InsertRecord(r) ==
    LET s == SessionOf(r) IN
    /\ pc[r] = "insertRecord"
    /\ ~Locked(KeyOf(r), s)
    /\ \/ /\ txState[s] = "open"
          /\ r \in orders \cup newOrders[s]
          /\ newRecords' = [newRecords EXCEPT ![s][KeyOf(r)] = r]
          /\ Goto(r, "insertMessage")
          /\ UNCHANGED <<records, txState>>
       \/ /\ txState[s] = "none"
          /\ r \in orders
          /\ records' = [records EXCEPT ![KeyOf(r)] = r]
          /\ Goto(r, "insertMessage")
          /\ UNCHANGED <<newRecords, txState>>
       \/ StatementFails(r)
    /\ UNCHANGED <<given, answer, result, charged, orders, messages,
                   newOrders, newMessages>>

\* A bug: the outbox forgets the transaction handle it was given.
InsertMessageOutsideTransaction(r) ==
    /\ pc[r] = "insertMessage"
    /\ \/ /\ messages' = messages \cup {r}
          /\ Goto(r, "commit")
          /\ UNCHANGED txState
       \/ StatementFails(r)
    /\ UNCHANGED <<given, answer, result, charged, orders, records,
                   newOrders, newRecords, newMessages>>

InsertMessage(r) ==
    LET s == SessionOf(r) IN
    /\ Transactional /\ pc[r] = "insertMessage"
    /\ \/ /\ txState[s] = "open"
          /\ newMessages' = [newMessages EXCEPT ![s] = @ \cup {r}]
          /\ Goto(r, "commit")
          /\ UNCHANGED <<messages, txState>>
       \/ /\ txState[s] = "none"
          /\ messages' = messages \cup {r}
          /\ Goto(r, "commit")
          /\ UNCHANGED <<newMessages, txState>>
       \/ StatementFails(r)
    /\ UNCHANGED <<given, answer, result, charged, orders, records,
                   newOrders, newRecords>>

EndTransaction(s) ==
    /\ txState' = [txState EXCEPT ![s] = "none"]
    /\ newOrders' = [newOrders EXCEPT ![s] = {}]
    /\ newRecords' = [newRecords EXCEPT ![s] = NoRecords]
    /\ newMessages' = [newMessages EXCEPT ![s] = {}]

\* COMMIT of a failed transaction rolls it back and still resolves.
CommitWork(s) ==
    IF txState[s] = "open"
    THEN /\ orders' = orders \cup newOrders[s]
         /\ records' = [k \in Key |-> RecordSeen(s, k)]
         /\ messages' = messages \cup newMessages[s]
    ELSE UNCHANGED committed

\* COMMIT resolves, or it rejects, applied or not.
Commit(r) ==
    LET s == SessionOf(r) IN
    /\ pc[r] = "commit"
    /\ \/ CommitWork(s) /\ EndTransaction(s) /\ Goto(r, "audit")
       \/ CommitWork(s) /\ EndTransaction(s) /\ Goto(r, "rollback")
       \/ UNCHANGED committed /\ UNCHANGED staged /\ Goto(r, "rollback")
    /\ UNCHANGED <<given, answer, result, charged>>

\* A bug: the exception of the transaction is swallowed.
RollbackSilently(r) ==
    /\ pc[r] = "rollback"
    /\ EndTransaction(SessionOf(r))
    /\ Goto(r, "audit")
    /\ UNCHANGED <<given, answer, result, charged, committed>>

\* Whatever the session's transaction holds is gone; without one ROLLBACK is a
\* warning, and NoopUnitOfWork issues none.
Rollback(r) ==
    /\ pc[r] = "rollback"
    /\ EndTransaction(SessionOf(r))
    /\ Fail(r)
    /\ UNCHANGED <<given, charged, committed>>

-----------------------------------------------------------------------------
(* Without transactions: NoopUnitOfWork just runs the work                 *)

WithRecord(r) ==
    records' = IF HasKey(r) THEN [records EXCEPT ![KeyOf(r)] = r] ELSE records

\* The order and its record are saved in one go.  A SQLite statement may fail, the
\* second after the first has committed.
Save(r) ==
    /\ ~Transactional /\ pc[r] = "begin"
    /\ \/ /\ orders' = orders \cup {r} /\ WithRecord(r)
          /\ Goto(r, "insertMessage")
       \/ /\ wiring = "sqlite"
          /\ UNCHANGED records
          /\ UNCHANGED orders \/ (HasKey(r) /\ orders' = orders \cup {r})
          /\ Goto(r, "rollback")
    /\ UNCHANGED <<given, answer, result, charged, messages, staged>>

\* InMemoryOutbox.save
SaveMessage(r) ==
    /\ ~Transactional /\ pc[r] = "insertMessage"
    /\ messages' = messages \cup {r}
    /\ Goto(r, "audit")
    /\ UNCHANGED <<given, answer, result, charged, orders, records, staged>>

-----------------------------------------------------------------------------
(* After the transaction                                                   *)

\* The audit entry is appended inside the outer try: when it fails, so does the
\* call, with the order committed.
Audit(r) ==
    /\ pc[r] = "audit"
    /\ Answer(r, "placed", r) \/ Fail(r)
    /\ UNCHANGED <<given, charged, committed, staged>>

Next ==
    \E r \in Request :
        \/ Lookup(r) \/ Price(r) \/ Charge(r)
        \/ Begin(r) \/ InsertOrder(r) \/ InsertRecord(r) \/ InsertMessage(r)
        \/ Commit(r) \/ Rollback(r) \/ Save(r) \/ SaveMessage(r) \/ Audit(r)

Spec == Init /\ [][Next]_vars

-----------------------------------------------------------------------------
(* HTTP                                                                    *)

\* handlePlaceOrderHttp: 201, the status of an ApplicationError, or 500
Status(r) ==
    CASE answer[r] \in {"placed", "reused"} -> 201
      [] answer[r] = "invalid"              -> 400
      [] answer[r] = "unauthenticated"      -> 401
      [] answer[r] = "forbidden"            -> 403
      [] answer[r] = "paymentFailed"        -> 502
      [] answer[r] = "failed"               -> 500
      [] answer[r] = "none"                 -> 0

-----------------------------------------------------------------------------
(* Properties, for clients that wait unless said otherwise                 *)

\* No request's statements land in the transaction of another.
Isolated == wiring # "shared"

\* Everything that is saved with an order is saved with it or not at all.
Atomic == wiring \in {"postgres", "memory"}

\* Without transactions the message follows without fail: InMemoryOutbox.save does not
\* reject, and a death takes an outbox in memory with it.  Of orders in SQLite it would
\* leave one without its message there; composition-root.ts does not wire these two.
Announced == messages \cup {r \in orders : ~Transactional /\ pc[r] = "insertMessage"}

\* However often a client repeats a key, after failures of any step and with the
\* outcome of the COMMIT unknown to it, at most one order is stored for the key.
\* It rests on the lookup seeing what the failed attempts left behind.
OneOrderPerKey ==
    Atomic => \A o, p \in orders : KeyOf(o) = KeyOf(p) /\ HasKey(o) => o = p

\* An order, its idempotency record and its outbox message are committed
\* together or not at all: no order whose event is never published, no event of
\* an order that does not exist, no order that a retry cannot find.  SQLite may
\* keep an order alone, never one of the others without it; over a shared session
\* any of them may be missing but the order that a record names.
CommittedTogether ==
    /\ \A k \in Key : records[k] # NoOrder =>
                        records[k] \in orders /\ KeyOf(records[k]) = k
    /\ Isolated => /\ Announced \subseteq orders
                   /\ \A k \in Key : records[k] # NoOrder => records[k] \in Announced
    /\ Atomic => /\ orders = Announced
                 /\ \A o \in orders : HasKey(o) => records[KeyOf(o)] # NoOrder

\* No money is taken silently.  Whose payment the gateway accepted has an order, or
\* its call is still under way, or was told that it failed; and a key is charged
\* again, with the same request id and perhaps for another customer and another
\* amount, only after a call that was told so.
ChargesAreReported ==
    LET toldItFailed(r) == answer[r] \in {"paymentFailed", "failed"} IN
    Isolated =>
        /\ \A r \in charged \ orders :
              toldItFailed(r) \/ pc[r] \notin {"lookup", "price", "done"}
        /\ \A r, s \in charged :
              r # s /\ HasKey(r) /\ KeyOf(r) = KeyOf(s) => toldItFailed(r) \/ toldItFailed(s)

\* What a caller is told is so, and stays so: the order is stored with its
\* message, it was paid for, and the caller may place that order, even when it is
\* another call that placed it and for another command.
AnswersAreTrue ==
    Isolated => \A r \in Request : answer[r] \in {"placed", "reused"} =>
        LET o == result[r] IN
        /\ o \in orders \cap Announced
        /\ o \in charged
        /\ PaymentId(o) = PaymentId(r)
        /\ Decision(r, o) = "allowed"

\* A client can rely on the status: after a 4xx nothing was charged nor stored for
\* the call, after a 502 nothing was stored.
StatusIsHonest ==
    \A r \in Request :
        /\ Status(r) \in 400..499 => r \notin charged \cup orders
        /\ Status(r) = 502 => r \notin orders

\* What an order costs, counted one minor unit at a time.
UnitsOf(items) ==
    Cardinality(UNION {{<<i, n, u>> : n \in 1..items[i].quantity, u \in 1..UnitPrice[items[i].sku]}
                         : i \in DOMAIN items})

\* r's caller asks for an order of its own within the threshold, or is an admin.
Entitled(r, o) ==
    \/ command[r].actor = Admin
    \/ /\ command[r].actor = command[o].customer
       /\ UnitsOf(command[o].items) <= HighValueThreshold

\* Nobody but an admin is charged, or gets an order, for somebody else or above the
\* threshold, its own or that of the key it sends.  And nobody is turned away, at the
\* threshold neither, but for what it asks for itself or for an order that was paid
\* for under its key before.
DecisionsAreRight ==
    \A r \in Request :
        /\ r \in charged \cup orders => Entitled(r, r)
        /\ result[r] # NoOrder => Entitled(r, result[r])
        /\ answer[r] = "forbidden" =>
              \/ ~Entitled(r, r)
              \/ \E o \in charged : HasKey(r) /\ KeyOf(o) = KeyOf(r) /\ ~Entitled(r, o)

-----------------------------------------------------------------------------
(* What placing orders implements                                          *)

Told(r) ==
    [ answer |-> CASE answer[r] = "none" -> "none"
                   [] answer[r] \in {"placed", "reused"} -> "placed"
                   [] answer[r] \in {"paymentFailed", "failed"} -> "failed"
                   [] OTHER -> "refused",
      order |-> result[r] ]

\* Nothing is promised over a shared session.
Promised(now, initially) == IF Isolated THEN now ELSE initially

Placement == INSTANCE IdempotentPlacement WITH
    waiting   <- ClientsWait,
    atomic    <- Atomic,
    keyOf     <- [r \in Request |-> KeyOf(r)],
    paid      <- Promised(charged, {}),
    stored    <- Promised(orders, {}),
    announced <- Promised(Announced, {}),
    holder    <- Promised(records, NoRecords),
    told      <- [r \in Request |->
                    Promised(Told(r), [answer |-> "none", order |-> NoOrder])]

\* Over every other wiring, calls of placeOrder keep the promise of
\* IdempotentPlacement.  So for clients that wait, once a key has its order, nobody
\* is charged for the key again and the record names that order for ever.
ImplementsPlacement == Placement!PlacementSpec
=============================================================================
