--------------------------- MODULE PlaceOrderProofs ---------------------------
(***************************************************************************)
(* Proofs about PlaceOrder for any requests, commands, keys and prices.    *)
(***************************************************************************)
EXTENDS PlaceOrder, OrderPricingProofs, TLAPS

Staged(r) == \E s \in Session : r \in newOrders[s]

\* What a request has done by where it is and what it was told, over any wiring.
Called(r) ==
    /\ pc[r] = "done" <=> answer[r] # "none"
    /\ pc[r] \in {"lookup", "price", "charge"} => r \notin charged
    /\ pc[r] \notin {"lookup", "price", "charge", "done"} => r \in charged
    /\ answer[r] = "placed" => r \in charged
    /\ answer[r] \in {"reused", "invalid", "unauthenticated", "forbidden"} => r \notin charged
    /\ answer[r] \notin {"placed", "reused"} => result[r] = NoOrder
    /\ pc[r] = "charge" \/ r \in charged =>
          Checked(command[r].items) = "order" /\ Decision(r, r) = "allowed"

Stores(r) ==
    r \in orders \/ Staged(r) =>
        r \in charged /\ pc[r] # "begin" /\ answer[r] # "paymentFailed"

Progress(r) == Called(r) /\ Stores(r)

Names(k, o, known) == o # NoOrder => o \in known /\ KeyOf(o) = k

\* A record names a stored order of its key, a staged record a stored or staged one.
RecordsNameOrders ==
    \A k \in Key :
        /\ Names(k, records[k], orders)
        /\ \A s \in Session : Names(k, newRecords[s][k], orders \cup newOrders[s])

ProgressInv == TypeOK /\ (\A r \in Request : Progress(r)) /\ RecordsNameOrders

-----------------------------------------------------------------------------

\* The record that r writes.
OwnRecord(r) == [k \in Key |-> IF k = KeyOf(r) THEN r ELSE NoOrder]

\* The transaction of a request that has a session of its own.
OwnTransaction(r) ==
    /\ pc[r] \in {"insertOrder", "insertRecord", "insertMessage", "commit"} =>
          txState[r] = "open"
    /\ pc[r] \notin {"insertOrder", "insertRecord", "insertMessage", "commit", "rollback"} =>
          txState[r] = "none"
    /\ newRecords[r] # NoRecords => pc[r] \in {"insertMessage", "commit", "rollback"}
    /\ pc[r] = "insertRecord" => HasKey(r)
    /\ pc[r] \in {"insertRecord", "insertMessage", "commit"} => newOrders[r] = {r}
    /\ pc[r] \in {"insertMessage", "commit"} => newRecords[r] = OwnRecord(r)
    /\ pc[r] = "commit" => newMessages[r] = {r}
    /\ pc[r] \in {"lookup", "price", "charge", "begin", "insertOrder"} =>
          newOrders[r] = {} /\ newRecords[r] = NoRecords
    /\ pc[r] \notin {"commit", "rollback"} => newMessages[r] = {}
    /\ r \in orders => pc[r] \in {"rollback", "audit", "done"}

\* What a request without transaction does.
NoTransaction(r) ==
    /\ newRecords[r] = NoRecords
    /\ pc[r] \notin {"insertOrder", "insertRecord", "commit"}
    /\ pc[r] = "insertMessage" => r \in orders
    /\ r \in orders => pc[r] \in {"insertMessage", "rollback", "audit", "done"}
    /\ wiring = "memory" => pc[r] # "rollback"

\* An order that is stored with all that belongs to it.
Whole(r) == r \in orders \cap Announced /\ (HasKey(r) => records[KeyOf(r)] # NoOrder)

ByItself(r) == IF Transactional THEN OwnTransaction(r) ELSE NoTransaction(r)

\* What r was told, and where it is, is true of what is committed.
Truthful(r) ==
    /\ pc[r] = "audit" \/ answer[r] = "placed" => Whole(r)
    /\ pc[r] = "insertMessage" /\ ~Transactional => Whole(r)
    /\ r \in Announced => r \in orders
    /\ r \in orders /\ Atomic => Whole(r)
    /\ answer[r] = "placed" => result[r] = r
    /\ answer[r] = "reused" =>
          /\ HasKey(r)
          /\ result[r] \in orders \cap Announced
          /\ KeyOf(result[r]) = KeyOf(r)
          /\ Decision(r, result[r]) = "allowed"

\* Records name orders that are announced.
RecordsAnnounced == \A k \in Key : Names(k, records[k], Announced)

\* With sessions apart.
SeparateInv ==
    /\ ProgressInv
    /\ Isolated =>
          /\ \A r \in Request : ByItself(r) /\ Truthful(r)
          /\ RecordsAnnounced

-----------------------------------------------------------------------------

AtWork(r) == pc[r] \notin {"lookup", "done"}

\* Up to the moment at which r stores its order.
Unplaced(r) ==
    \/ pc[r] \in {"price", "charge", "begin", "insertOrder", "insertRecord", "commit"}
    \/ pc[r] = "insertMessage" /\ Transactional

\* A key has one call at a time, and it has no order while that call is at work.
OneAtATime(r) ==
    /\ \A s \in Request \ {r} : HasKey(r) /\ KeyOf(s) = KeyOf(r) => ~AtWork(r) \/ ~AtWork(s)
    /\ HasKey(r) /\ Unplaced(r) => records[KeyOf(r)] = NoOrder
    /\ Atomic /\ HasKey(r) /\ r \in orders => records[KeyOf(r)] = r

ToldItFailed(r) == answer[r] \in {"paymentFailed", "failed"}

\* A key is charged twice only after a failure that was told.
PaidOnce(r, s) ==
    r \in charged /\ s \in charged /\ r # s /\ HasKey(r) /\ KeyOf(r) = KeyOf(s) =>
        ToldItFailed(r) \/ ToldItFailed(s)

\* For clients that wait.
WaitingInv ==
    /\ SeparateInv
    /\ ClientsWait /\ Isolated => \A r \in Request : OneAtATime(r) /\ \A s \in Request : PaidOnce(r, s)

-----------------------------------------------------------------------------
(* Types                                                                   *)

RequestStep(r) ==
    \/ Lookup(r) \/ Price(r) \/ Charge(r)
    \/ Begin(r) \/ InsertOrder(r) \/ InsertRecord(r) \/ InsertMessage(r)
    \/ Commit(r) \/ Rollback(r) \/ Save(r) \/ SaveMessage(r) \/ Audit(r)

LEMMA SessionsOfRequests ==
  \A r \in Request : SessionOf(r) \in Session /\ (Isolated => SessionOf(r) = r)
BY DEF SessionOf, Session, Isolated

LEMMA NoRecordsAreRecords == NoRecords \in Records
BY DEF NoRecords, Records

Places == {"lookup", "price", "charge", "begin", "insertOrder", "insertRecord",
           "insertMessage", "commit", "rollback", "audit", "done"}

Answers == {"none", "placed", "reused", "invalid", "unauthenticated", "forbidden",
            "paymentFailed", "failed"}

CallTypes ==
    /\ pc \in [Request -> Places]
    /\ answer \in [Request -> Answers]
    /\ result \in [Request -> Request \cup {NoOrder}]

StagedTypes ==
    /\ txState \in [Session -> {"none", "open", "failed"}]
    /\ newOrders \in [Session -> SUBSET Request]
    /\ newRecords \in [Session -> Records]
    /\ newMessages \in [Session -> SUBSET Request]

CommittedTypes == orders \subseteq Request /\ records \in Records /\ messages \subseteq Request

GivenTypes == wiring \in Wiring /\ command \in [Request -> Command]

LEMMA TypeParts ==
  TypeOK <=> GivenTypes /\ CallTypes /\ charged \subseteq Request /\ CommittedTypes /\ StagedTypes
BY DEF TypeOK, GivenTypes, CallTypes, CommittedTypes, StagedTypes, Places, Answers

LEMMA InitTypes == Init => TypeOK
BY NoRecordsAreRecords DEF Init, TypeOK

\* The outcomes of a decision are answers, or a go.
LEMMA DecisionType ==
  \A r, o : Decision(r, o) \in {"allowed", "unauthenticated", "forbidden"}
BY DEF Decision

LEMMA AnswerKeepsType ==
  ASSUME CallTypes, NEW r \in Request, NEW a \in Answers, NEW o \in Request \cup {NoOrder},
         Answer(r, a, o)
  PROVE  CallTypes'
BY DEF CallTypes, Answer, Goto, Places

LEMMA FailKeepsType ==
  ASSUME CallTypes, NEW r \in Request, Fail(r) PROVE CallTypes'
BY AnswerKeepsType DEF Fail, Answers

LEMMA GotoKeepsType ==
  ASSUME CallTypes, NEW r \in Request, NEW p \in Places, Goto(r, p), UNCHANGED <<answer, result>>
  PROVE  CallTypes'
BY DEF CallTypes, Goto

LEMMA ExistingType ==
  ASSUME TypeOK, NEW r \in Request PROVE Existing(r) \in Request \cup {NoOrder}
BY SessionsOfRequests DEF TypeOK, Existing, HasKey, RecordSeen, Records

LEMMA CallTypesKept ==
  ASSUME TypeOK, NEW r \in Request, RequestStep(r) PROVE CallTypes'
<1>1. CallTypes
  BY TypeParts
<1>2. CASE Lookup(r)
  <2>1. ASSUME Reuse(r, Existing(r)) PROVE CallTypes'
    BY <1>1, <2>1, AnswerKeepsType, ExistingType, DecisionType DEF Reuse, Answers
  <2>2. ASSUME Answer(r, "invalid", NoOrder) PROVE CallTypes'
    BY <1>1, <2>2, AnswerKeepsType DEF Answers
  <2>3. QED
    BY <1>1, <1>2, <2>1, <2>2, GotoKeepsType, FailKeepsType DEF Lookup, Places
<1>3. CASE Price(r)
  <2>1. ASSUME NEW a \in Answers, Answer(r, a, NoOrder) PROVE CallTypes'
    BY <1>1, <2>1, AnswerKeepsType
  <2>2. Decision(r, r) \in Answers \/ Decision(r, r) = "allowed"
    BY DecisionType DEF Answers
  <2>3. "invalid" \in Answers
    BY DEF Answers
  <2>4. QED
    BY <1>1, <1>3, <2>1, <2>2, <2>3, GotoKeepsType, FailKeepsType DEF Price, Places
<1>4. CASE Charge(r)
  BY <1>1, <1>4, AnswerKeepsType, GotoKeepsType DEF Charge, Places, Answers
<1>5. CASE Begin(r)
  BY <1>1, <1>5, FailKeepsType, GotoKeepsType DEF Begin, Places
<1>6. CASE InsertOrder(r) \/ InsertRecord(r) \/ InsertMessage(r) \/ Commit(r)
           \/ Save(r) \/ SaveMessage(r)
  <2>1. UNCHANGED <<answer, result>>
    BY <1>6 DEF InsertOrder, InsertRecord, InsertMessage, Commit, Save, SaveMessage
  <2>2. \E p \in Places : Goto(r, p)
    BY <1>6 DEF InsertOrder, InsertRecord, InsertMessage, Commit, Save, SaveMessage,
                StatementFails, Places
  <2>3. QED
    BY <1>1, <2>1, <2>2, GotoKeepsType
<1>7. CASE Rollback(r)
  BY <1>1, <1>7, FailKeepsType DEF Rollback
<1>8. CASE Audit(r)
  BY <1>1, <1>8, FailKeepsType, AnswerKeepsType DEF Audit, Answers
<1>9. QED
  BY <1>2, <1>3, <1>4, <1>5, <1>6, <1>7, <1>8 DEF RequestStep

LEMMA EndTransactionKeepsType ==
  ASSUME StagedTypes, NEW s \in Session, EndTransaction(s) PROVE StagedTypes'
BY NoRecordsAreRecords DEF StagedTypes, EndTransaction

LEMMA StatementFailsKeepsType ==
  ASSUME StagedTypes, NEW r \in Request, StatementFails(r) PROVE StagedTypes'
BY SessionsOfRequests DEF StagedTypes, StatementFails

LEMMA StagedTypesKept ==
  ASSUME TypeOK, NEW r \in Request, RequestStep(r) PROVE StagedTypes'
<1> DEFINE s == SessionOf(r)
<1>1. StagedTypes /\ s \in Session
  BY TypeParts, SessionsOfRequests
<1> HIDE DEF s
<1>2. CASE UNCHANGED staged
  BY <1>1, <1>2 DEF staged, StagedTypes
<1>3. CASE Begin(r)
  BY <1>1, <1>3 DEF Begin, StagedTypes, s
<1>4. CASE InsertOrder(r)
  BY <1>1, <1>4, StatementFailsKeepsType DEF InsertOrder, StagedTypes, s
<1>5. CASE InsertRecord(r)
  <2>1. ASSUME newRecords' = [newRecords EXCEPT ![s][KeyOf(r)] = r]
        PROVE  newRecords' \in [Session -> Records]
    BY <1>1, <2>1 DEF StagedTypes, Records
  <2>2. QED
    BY <1>1, <1>5, <2>1, StatementFailsKeepsType DEF InsertRecord, StagedTypes, s
<1>6. CASE InsertMessage(r)
  BY <1>1, <1>6, StatementFailsKeepsType DEF InsertMessage, StagedTypes, s
<1>7. CASE Commit(r) \/ Rollback(r)
  BY <1>1, <1>2, <1>7, EndTransactionKeepsType DEF Commit, Rollback, s
<1>8. QED
  BY <1>2, <1>3, <1>4, <1>5, <1>6, <1>7
     DEF RequestStep, Lookup, Price, Charge, Save, SaveMessage, Audit

LEMMA CommittedTypesKept ==
  ASSUME TypeOK, NEW r \in Request, RequestStep(r) PROVE CommittedTypes'
<1>1. CommittedTypes /\ StagedTypes /\ SessionOf(r) \in Session
  BY TypeParts, SessionsOfRequests
<1>2. CASE UNCHANGED committed
  BY <1>1, <1>2 DEF committed, CommittedTypes
<1>3. CASE InsertOrder(r) \/ InsertMessage(r) \/ SaveMessage(r)
  BY <1>1, <1>3
     DEF InsertOrder, InsertMessage, SaveMessage, StatementFails, committed, CommittedTypes
<1>4. ASSUME records' = [records EXCEPT ![KeyOf(r)] = r] PROVE records' \in Records
  BY <1>1, <1>4 DEF CommittedTypes, Records
<1>5. CASE InsertRecord(r)
  BY <1>1, <1>4, <1>5 DEF InsertRecord, StatementFails, committed, CommittedTypes
<1>6. CASE Save(r)
  BY <1>1, <1>4, <1>6 DEF Save, WithRecord, CommittedTypes
<1>7. ASSUME NEW s \in Session, CommitWork(s) PROVE CommittedTypes'
  <2>1. [k \in Key |-> RecordSeen(s, k)] \in Records
    BY <1>1 DEF RecordSeen, Records, CommittedTypes, StagedTypes
  <2>2. QED
    BY <1>1, <1>7, <2>1 DEF CommitWork, committed, CommittedTypes, StagedTypes
<1>8. CASE Commit(r)
  BY <1>1, <1>2, <1>7, <1>8 DEF Commit
<1>9. QED
  BY <1>2, <1>3, <1>5, <1>6, <1>8
     DEF RequestStep, Lookup, Price, Charge, Begin, Rollback, Audit

LEMMA StepTypes ==
  ASSUME TypeOK, NEW r \in Request, RequestStep(r)
  PROVE  TypeOK' /\ UNCHANGED given
<1>1. UNCHANGED given
  BY DEF RequestStep, Lookup, Price, Charge, Begin, InsertOrder, InsertRecord,
         InsertMessage, Commit, Rollback, Save, SaveMessage, Audit
<1>2. charged' \subseteq Request
  BY DEF TypeOK, RequestStep, Lookup, Price, Charge, Begin, InsertOrder, InsertRecord,
         InsertMessage, Commit, Rollback, Save, SaveMessage, Audit
<1>3. GivenTypes'
  BY <1>1, TypeParts DEF given, GivenTypes
<1>4. CallTypes' /\ StagedTypes' /\ CommittedTypes'
  BY CallTypesKept, StagedTypesKept, CommittedTypesKept
<1>5. QED
  BY <1>1, <1>2, <1>3, <1>4
     DEF TypeOK, GivenTypes, CallTypes, StagedTypes, CommittedTypes, Places, Answers

\* Every reachable state of calls, gateway and database is well typed.
THEOREM TypeCorrect == Spec => []TypeOK
<1>1. ASSUME TypeOK, [Next]_vars PROVE TypeOK'
  <2>1. CASE UNCHANGED vars
    BY <1>1, <2>1 DEF vars, given, committed, staged, TypeOK
  <2>2. QED
    BY <1>1, <2>1, StepTypes DEF Next, RequestStep
<1>2. QED
  BY <1>1, InitTypes, PTL DEF Spec

-----------------------------------------------------------------------------
(* What a request carries never changes                                    *)

LEMMA GivenNext ==
  ASSUME UNCHANGED given
  PROVE  /\ Transactional' = Transactional /\ Isolated' = Isolated /\ Atomic' = Atomic
         /\ \A r : /\ KeyOf(r)' = KeyOf(r) /\ HasKey(r)' = HasKey(r)
                   /\ SessionOf(r)' = SessionOf(r) /\ PaymentId(r)' = PaymentId(r)
                   /\ Checked(command[r].items)' = Checked(command[r].items)
         /\ \A r, o : Decision(r, o)' = Decision(r, o)
BY DEF given, Transactional, Isolated, Atomic, KeyOf, HasKey, SessionOf, PaymentId, Decision

LEMMA OthersUnmoved ==
  ASSUME TypeOK, NEW r \in Request, RequestStep(r), NEW t \in Request, t # r
  PROVE  /\ pc'[t] = pc[t] /\ answer'[t] = answer[t] /\ result'[t] = result[t]
         /\ t \in charged' <=> t \in charged
<1>1. pc'[t] = pc[t]
  BY DEF TypeOK, RequestStep, Lookup, Reuse, Price, Charge, Begin, InsertOrder, InsertRecord,
         InsertMessage, Commit, Rollback, Save, SaveMessage, Audit, StatementFails, Goto,
         Answer, Fail
<1>2. answer'[t] = answer[t] /\ result'[t] = result[t]
  BY DEF TypeOK, RequestStep, Lookup, Reuse, Price, Charge, Begin, InsertOrder, InsertRecord,
         InsertMessage, Commit, Rollback, Save, SaveMessage, Audit, Answer, Fail
<1>3. t \in charged' <=> t \in charged
  BY DEF RequestStep, Lookup, Price, Charge, Begin, InsertOrder, InsertRecord,
         InsertMessage, Commit, Rollback, Save, SaveMessage, Audit
<1>4. QED
  BY <1>1, <1>2, <1>3

-----------------------------------------------------------------------------
(* Calls, charges and answers, over any wiring                             *)

\* A request stores and stages no order but its own.
LEMMA OnlyOwnOrders ==
  ASSUME TypeOK, NEW r \in Request, RequestStep(r), NEW t \in Request,
         (t \in orders \/ Staged(t))'
  PROVE  t \in orders \/ Staged(t) \/ (t = r /\ (InsertOrder(r) \/ Save(r)))
<1>1. SessionOf(r) \in Session
  BY SessionsOfRequests
<1>2. CASE InsertOrder(r)
  BY <1>1, <1>2 DEF InsertOrder, StatementFails, committed, TypeOK, Staged
<1>3. CASE Commit(r) \/ Rollback(r)
  BY <1>1, <1>3 DEF Commit, CommitWork, EndTransaction, Rollback, committed, staged,
                    TypeOK, Staged
<1>4. CASE Save(r)
  BY <1>4 DEF Save, staged, Staged
<1>5. CASE UNCHANGED <<orders, newOrders>>
  BY <1>5 DEF Staged
<1>6. QED
  BY <1>2, <1>3, <1>4, <1>5
     DEF RequestStep, Lookup, Price, Charge, Begin, InsertRecord, InsertMessage,
         SaveMessage, Audit, StatementFails, committed, staged

LEMMA CalledNext ==
  ASSUME TypeOK, NEW r \in Request, Called(r), RequestStep(r)
  PROVE  Called(r)'
<1>1. UNCHANGED given /\ TypeOK
  BY StepTypes
<1>2. CASE Lookup(r)
  BY <1>1, <1>2, GivenNext, DecisionType
     DEF Lookup, Reuse, Answer, Fail, Goto, Called, TypeOK
<1>3. CASE Price(r)
  BY <1>1, <1>3, GivenNext, DecisionType DEF Price, Answer, Fail, Goto, Called, TypeOK
<1>4. CASE Charge(r)
  BY <1>1, <1>4, GivenNext DEF Charge, Answer, Goto, Called, TypeOK
<1>5. CASE Begin(r)
  BY <1>1, <1>5, GivenNext DEF Begin, Answer, Fail, Goto, Called, TypeOK
<1>6. CASE InsertOrder(r) \/ InsertRecord(r) \/ InsertMessage(r)
  BY <1>1, <1>6, GivenNext
     DEF InsertOrder, InsertRecord, InsertMessage, StatementFails, Goto, Called, TypeOK
<1>7. CASE Commit(r) \/ Save(r) \/ SaveMessage(r)
  BY <1>1, <1>7, GivenNext DEF Commit, Save, SaveMessage, Goto, Called, TypeOK
<1>8. CASE Rollback(r) \/ Audit(r)
  BY <1>1, <1>8, GivenNext DEF Rollback, Audit, Answer, Fail, Goto, Called, TypeOK
<1>9. QED
  BY <1>2, <1>3, <1>4, <1>5, <1>6, <1>7, <1>8 DEF RequestStep

LEMMA StoresNext ==
  ASSUME TypeOK, NEW r \in Request, Called(r), Stores(r), RequestStep(r)
  PROVE  Stores(r)'
<1> SUFFICES ASSUME (r \in orders \/ Staged(r))'
             PROVE  r \in charged' /\ pc'[r] # "begin" /\ answer'[r] # "paymentFailed"
  BY DEF Stores
<1>1. CASE InsertOrder(r) \/ Save(r)
  BY <1>1 DEF InsertOrder, Save, StatementFails, Goto, Called, TypeOK
<1>2. CASE r \in orders \/ Staged(r)
  <2>1. r \in charged /\ pc[r] \notin {"lookup", "price", "charge", "begin"}
        /\ answer[r] # "paymentFailed"
    BY <1>2 DEF Stores, Called
  <2>2. CASE InsertRecord(r) \/ InsertMessage(r) \/ Commit(r) \/ SaveMessage(r)
    BY <2>1, <2>2 DEF InsertRecord, InsertMessage, Commit, SaveMessage, StatementFails,
                      Goto, TypeOK
  <2>3. CASE Rollback(r) \/ Audit(r)
    BY <2>1, <2>3 DEF Rollback, Audit, Answer, Fail, Goto, TypeOK
  <2>4. QED
    BY <1>1, <2>1, <2>2, <2>3 DEF RequestStep, Lookup, Price, Charge, Begin
<1>3. QED
  BY <1>1, <1>2, OnlyOwnOrders

LEMMA RecordsNameOrdersNext ==
  ASSUME TypeOK, RecordsNameOrders, NEW r \in Request, RequestStep(r)
  PROVE  RecordsNameOrders'
<1> DEFINE s == SessionOf(r)
<1>1. s \in Session /\ UNCHANGED given
  BY SessionsOfRequests, StepTypes
<1> DEFINE NamesNext(k) ==
             /\ records'[k] # NoOrder => records'[k] \in orders' /\ KeyOf(records'[k]) = k
             /\ \A t \in Session : newRecords'[t][k] # NoOrder =>
                   newRecords'[t][k] \in orders' \cup newOrders'[t] /\ KeyOf(newRecords'[t][k]) = k
<1>2. SUFFICES ASSUME NEW k \in Key PROVE NamesNext(k)
  <2>1. \A o : KeyOf(o)' = command[o].key
    BY <1>1 DEF given, KeyOf
  <2>2. QED
    BY <1>2, <2>1 DEF RecordsNameOrders, Names, KeyOf
<1>3. /\ records[k] # NoOrder => records[k] \in orders /\ KeyOf(records[k]) = k
      /\ \A t \in Session : newRecords[t][k] # NoOrder =>
            newRecords[t][k] \in orders \cup newOrders[t] /\ KeyOf(newRecords[t][k]) = k
  BY DEF RecordsNameOrders, Names
<1> HIDE DEF s
<1>4. CASE UNCHANGED <<committed, newOrders, newRecords>>
  BY <1>3, <1>4 DEF committed
<1>5. CASE InsertOrder(r)
  BY <1>1, <1>3, <1>5 DEF InsertOrder, StatementFails, committed, TypeOK, s
<1>6. CASE InsertRecord(r)
  <2>1. ASSUME r \in orders \cup newOrders[s],
               newRecords' = [newRecords EXCEPT ![s][KeyOf(r)] = r],
               UNCHANGED <<records, orders, newOrders>>
        PROVE  NamesNext(k)
    BY <1>1, <1>3, <2>1 DEF TypeOK, Records
  <2>2. ASSUME r \in orders, records' = [records EXCEPT ![KeyOf(r)] = r],
               UNCHANGED <<newRecords, orders, newOrders>>
        PROVE  NamesNext(k)
    BY <1>3, <2>2 DEF TypeOK, Records
  <2>3. QED
    BY <1>4, <1>6, <2>1, <2>2 DEF InsertRecord, StatementFails, committed, s
<1>7. ASSUME EndTransaction(s), CommitWork(s) \/ UNCHANGED committed
      PROVE  NamesNext(k)
  <2>1. \A t \in Session : newRecords'[t][k] = IF t = s THEN NoOrder ELSE newRecords[t][k]
    BY <1>1, <1>7 DEF EndTransaction, NoRecords, TypeOK
  <2>2. \A t \in Session \ {s} : newOrders'[t] = newOrders[t]
    BY <1>1, <1>7 DEF EndTransaction, TypeOK
  <2>3. CASE UNCHANGED committed
    BY <1>3, <2>1, <2>2, <2>3 DEF committed
  <2>4. CASE CommitWork(s)
    <3>1. \/ UNCHANGED committed
          \/ orders' = orders \cup newOrders[s] /\ records'[k] = RecordSeen(s, k)
      BY <2>4 DEF CommitWork
    <3>2. QED
      BY <1>1, <1>3, <2>1, <2>2, <2>3, <3>1 DEF RecordSeen
  <2>5. QED
    BY <1>7, <2>3, <2>4
<1>8. CASE Commit(r) \/ Rollback(r)
  BY <1>4, <1>7, <1>8 DEF Commit, Rollback, staged, s
<1>9. CASE Save(r)
  <2>1. records'[k] = records[k] \/ (KeyOf(r) = k /\ records'[k] = r /\ r \in orders')
    BY <1>9 DEF Save, WithRecord, TypeOK, Records
  <2>2. orders \subseteq orders' /\ UNCHANGED <<newOrders, newRecords>>
    BY <1>9 DEF Save, staged
  <2>3. QED
    BY <1>3, <2>1, <2>2
<1>10. CASE Lookup(r) \/ Price(r) \/ Charge(r) \/ Begin(r) \/ Audit(r)
  <2>1. UNCHANGED <<committed, newOrders, newRecords>>
    BY <1>10 DEF Lookup, Price, Charge, Begin, Audit, staged
  <2>2. QED
    BY <1>4, <2>1
<1>11. CASE InsertMessage(r) \/ SaveMessage(r)
  BY <1>3, <1>11 DEF InsertMessage, SaveMessage, StatementFails, committed, staged
<1>12. QED
  BY <1>5, <1>6, <1>8, <1>9, <1>10, <1>11 DEF RequestStep

LEMMA ProgressInit == Init => ProgressInv
<1> SUFFICES ASSUME Init PROVE (\A r \in Request : Progress(r)) /\ RecordsNameOrders
  BY InitTypes DEF ProgressInv
<1>1. RecordsNameOrders
  BY DEF Init, RecordsNameOrders, Names, NoRecords
<1>2. \A r \in Request : Progress(r)
  BY DEF Init, Progress, Called, Stores, Staged
<1>3. QED
  BY <1>1, <1>2

LEMMA ProgressNext ==
  ASSUME ProgressInv, NEW r \in Request, RequestStep(r)
  PROVE  ProgressInv'
<1>1. TypeOK /\ RecordsNameOrders /\ \A t \in Request : Called(t) /\ Stores(t)
  BY DEF ProgressInv, Progress
<1>2. TypeOK' /\ UNCHANGED given
  BY <1>1, StepTypes
<1>3. RecordsNameOrders'
  BY <1>1, RecordsNameOrdersNext
<1>4. ASSUME NEW t \in Request PROVE Progress(t)'
  <2>1. CASE t = r
    BY <1>1, <2>1, CalledNext, StoresNext DEF Progress
  <2>2. CASE t # r
    <3>1. /\ pc'[t] = pc[t] /\ answer'[t] = answer[t] /\ result'[t] = result[t]
          /\ t \in charged' <=> t \in charged
      BY <1>1, <2>2, OthersUnmoved
    <3>2. (t \in orders \/ Staged(t))' => t \in orders \/ Staged(t)
      BY <1>1, <2>2, OnlyOwnOrders
    <3>3. Called(t)' /\ Stores(t)'
      BY <1>1, <1>2, <3>1, <3>2, GivenNext DEF Called, Stores
    <3>4. QED
      BY <3>3 DEF Progress
  <2>3. QED
    BY <2>1, <2>2
<1>5. QED
  BY <1>2, <1>3, <1>4 DEF ProgressInv

LEMMA ProgressStutters == ProgressInv /\ UNCHANGED vars => ProgressInv'
BY DEF vars, given, committed, staged, ProgressInv, TypeOK, Progress, Called, Stores, Staged,
       RecordsNameOrders, Names, KeyOf, Decision

LEMMA ProgressInvariant == Spec => []ProgressInv
<1>1. ASSUME ProgressInv, [Next]_vars PROVE ProgressInv'
  BY <1>1, ProgressNext, ProgressStutters DEF Next, RequestStep
<1>2. QED
  BY <1>1, ProgressInit, PTL DEF Spec

\* Over any wiring and with any clients, a 4xx means that nothing was charged nor
\* stored for the call, a 502 that nothing was stored.
THEOREM StatusIsHonestHolds == Spec => []StatusIsHonest
<1>1. ProgressInv => StatusIsHonest
  <2> SUFFICES ASSUME ProgressInv, NEW r \in Request
               PROVE  /\ Status(r) \in 400..499 => r \notin charged \cup orders
                      /\ Status(r) = 502 => r \notin orders
    BY DEF StatusIsHonest
  <2>1. answer[r] \in Answers /\ Called(r) /\ Stores(r)
    BY DEF ProgressInv, Progress, TypeOK, Answers
  <2>2. Status(r) \in 400..499 => answer[r] \in {"invalid", "unauthenticated", "forbidden"}
    BY <2>1 DEF Status, Answers
  <2>3. Status(r) = 502 => answer[r] = "paymentFailed"
    BY <2>1 DEF Status, Answers
  <2>4. QED
    BY <2>1, <2>2, <2>3 DEF Called, Stores
<1>2. QED
  BY <1>1, ProgressInvariant, PTL

-----------------------------------------------------------------------------
(* Decisions, over any wiring                                              *)

\* What can be ordered has a total, the number of its minor units.
LEMMA OrderedItems ==
  ASSUME TypeOK, NEW r \in Request, Checked(command[r].items) = "order"
  PROVE  IsHighValue(command[r].items) <=> ~ (UnitsOf(command[r].items) <= HighValueThreshold)
<1> DEFINE items == command[r].items
           Asked == [sku : STRING, quantity : Int \cup {Fraction}]
<1>1. items \in Seq(Asked)
  BY CommandAssumption DEF TypeOK
<1> HIDE DEF items, Asked
<1>2. \A i \in DOMAIN items : items[i] \in Asked
  BY <1>1
<1>3. /\ {items[i].sku : i \in DOMAIN items} \subseteq Sku
      /\ ~ \E q \in {items[i].quantity : i \in DOMAIN items} \ {Fraction} : q <= 0
      /\ Fraction \notin {items[i].quantity : i \in DOMAIN items}
  BY DEF Checked, items
<1>4. ASSUME NEW i \in DOMAIN items PROVE items[i] \in Line
  <2>1. items[i].sku \in Sku /\ items[i].quantity # Fraction /\ ~ (items[i].quantity <= 0)
    BY <1>3
  <2>2. items[i].quantity \in Nat
    BY <1>2, <2>1 DEF Asked
  <2>3. items[i] = [sku |-> items[i].sku, quantity |-> items[i].quantity]
    BY <1>2 DEF Asked
  <2>4. QED
    BY <2>1, <2>2, <2>3 DEF Line
<1>5. items \in Seq(Line)
  BY <1>1, <1>4
<1>6. TotalAmount(items) = UnitsOf(items)
  <2>1. UnitsOf(items) = Cardinality(UnitsUpTo(items, Len(items)))
    <3>1. DOMAIN items = 1..Len(items)
      BY <1>1
    <3>2. QED
      BY <3>1 DEF UnitsOf, UnitsUpTo, UnitsOfLine
  <2>2. QED
    BY <1>5, <2>1, TotalCountsUnits
<1>7. UnitsOf(items) \in Nat
  <2>1. Len(items) \in Nat /\ Len(items) \in 0..Len(items)
    BY <1>5
  <2>2. PICK total : Sums(items, Len(items), total)
    BY <2>1, SumsExist
  <2>3. IsFiniteSet(UnitsUpTo(items, Len(items)))
    BY <1>5, <2>1, <2>2, SumsCountUnits
  <2>4. QED
    BY <1>5, <1>6, <2>3, TotalCountsUnits, FS_CardinalityType
<1>8. QED
  BY <1>6, <1>7, PriceAssumption DEF IsHighValue, IsGreaterThan, items

\* Who is turned away was for its own order, or for one paid for under its key.
TurnedAway(r) ==
    answer[r] = "forbidden" =>
        \/ Checked(command[r].items) = "order" /\ Decision(r, r) = "forbidden"
        \/ \E o \in charged : HasKey(r) /\ KeyOf(o) = KeyOf(r) /\ Decision(r, o) = "forbidden"

\* Who gets an order may place it, and it was paid for.
Served(r) ==
    result[r] # NoOrder => result[r] \in charged /\ Decision(r, result[r]) = "allowed"

DecisionInv == ProgressInv /\ \A r \in Request : TurnedAway(r) /\ Served(r)

LEMMA ChargesStay ==
  ASSUME NEW r \in Request, RequestStep(r) PROVE charged \subseteq charged'
BY DEF RequestStep, Lookup, Price, Charge, Begin, InsertOrder, InsertRecord,
       InsertMessage, Commit, Rollback, Save, SaveMessage, Audit

\* An order that is looked up was paid for under that key.
LEMMA ExistingWasPaid ==
  ASSUME ProgressInv, NEW r \in Request, Existing(r) # NoOrder
  PROVE  HasKey(r) /\ Existing(r) \in charged /\ KeyOf(Existing(r)) = KeyOf(r)
<1>1. HasKey(r) /\ KeyOf(r) \in Key /\ SessionOf(r) \in Session /\ TypeOK
  BY SessionsOfRequests DEF Existing, HasKey, ProgressInv
<1> DEFINE o == Existing(r)
<1>2. /\ o \in orders \/ o \in newOrders[SessionOf(r)]
      /\ KeyOf(o) = KeyOf(r)
  BY <1>1 DEF Existing, RecordSeen, ProgressInv, RecordsNameOrders, Names
<1>3. o \in Request /\ (o \in orders \/ Staged(o))
  BY <1>1, <1>2 DEF TypeOK, Staged
<1>4. Stores(o)
  BY <1>3 DEF ProgressInv, Progress
<1>5. QED
  BY <1>1, <1>2, <1>3, <1>4 DEF Stores

LEMMA DecisionNext ==
  ASSUME ProgressInv, NEW r \in Request, RequestStep(r), NEW t \in Request,
         TurnedAway(t), Served(t)
  PROVE  TurnedAway(t)' /\ Served(t)'
<1>1. TypeOK /\ Called(r) /\ charged \subseteq charged'
  BY ChargesStay DEF ProgressInv, Progress
<1>2. /\ \A o : Decision(t, o)' = Decision(t, o) /\ KeyOf(o)' = KeyOf(o)
      /\ HasKey(t)' = HasKey(t) /\ KeyOf(t)' = KeyOf(t)
      /\ Checked(command[t].items)' = Checked(command[t].items)
  BY <1>1, StepTypes, GivenNext
<1>3. CASE answer'[t] = answer[t] /\ result'[t] = result[t]
  <2>1. TurnedAway(t)'
    BY <1>1, <1>2, <1>3 DEF TurnedAway
  <2>2. Served(t)'
    BY <1>1, <1>2, <1>3 DEF Served
  <2>3. QED
    BY <2>1, <2>2
<1>4. ASSUME t = r, NEW a, NEW o, Answer(r, a, o), a # "forbidden",
             o # NoOrder => o \in charged /\ Decision(r, o) = "allowed"
      PROVE  TurnedAway(t)' /\ Served(t)'
  <2>1. answer'[t] = a /\ result'[t] = o
    BY <1>1, <1>4 DEF Answer, TypeOK
  <2>2. QED
    BY <1>1, <1>2, <1>4, <2>1 DEF TurnedAway, Served
<1>5. ASSUME t = r, Answer(r, "forbidden", NoOrder),
             \/ Checked(command[r].items) = "order" /\ Decision(r, r) = "forbidden"
             \/ \E o \in charged : HasKey(r) /\ KeyOf(o) = KeyOf(r) /\ Decision(r, o) = "forbidden"
      PROVE  TurnedAway(t)' /\ Served(t)'
  <2>1. result'[t] = NoOrder
    BY <1>1, <1>5 DEF Answer, TypeOK
  <2>2. TurnedAway(t)'
    BY <1>1, <1>2, <1>5 DEF TurnedAway
  <2>3. QED
    BY <2>1, <2>2 DEF Served
<1>6. CASE t = r /\ Lookup(r)
  <2>1. CASE Existing(r) # NoOrder /\ Reuse(r, Existing(r))
    <3>1. HasKey(r) /\ Existing(r) \in charged /\ KeyOf(Existing(r)) = KeyOf(r)
      BY <2>1, ExistingWasPaid
    <3>2. QED
      BY <1>4, <1>5, <1>6, <2>1, <3>1, DecisionType DEF Reuse
  <2>2. QED
    BY <1>3, <1>4, <1>6, <2>1 DEF Lookup, Fail
<1>7. CASE t = r /\ Price(r)
  BY <1>3, <1>4, <1>5, <1>7, DecisionType DEF Price, Fail
<1>8. CASE t = r /\ Audit(r)
  <2>1. r \in charged /\ Decision(r, r) = "allowed"
    BY <1>1, <1>8 DEF Audit, Called
  <2>2. QED
    BY <1>4, <1>8, <2>1 DEF Audit, Fail
<1>9. CASE t = r /\ (Charge(r) \/ Begin(r) \/ Rollback(r))
  BY <1>3, <1>4, <1>9 DEF Charge, Begin, Rollback, Fail
<1>10. CASE InsertOrder(r) \/ InsertRecord(r) \/ InsertMessage(r) \/ Commit(r)
            \/ Save(r) \/ SaveMessage(r)
  BY <1>3, <1>10 DEF InsertOrder, InsertRecord, InsertMessage, Commit, Save, SaveMessage
<1>11. CASE t # r
  BY <1>1, <1>3, <1>11, OthersUnmoved
<1>12. QED
  BY <1>6, <1>7, <1>8, <1>9, <1>10, <1>11 DEF RequestStep

LEMMA DecisionInvariant == Spec => []DecisionInv
<1>1. Init => DecisionInv
  BY ProgressInit DEF Init, DecisionInv, TurnedAway, Served
<1>2. ASSUME DecisionInv, [Next]_vars PROVE DecisionInv'
  <2>1. CASE UNCHANGED vars
    BY <1>2, <2>1, ProgressStutters
       DEF DecisionInv, vars, given, TurnedAway, Served, HasKey, KeyOf, Decision
  <2>2. CASE Next
    BY <1>2, <2>2, ProgressNext, DecisionNext DEF DecisionInv, Next, RequestStep
  <2>3. QED
    BY <1>2, <2>1, <2>2
<1>3. QED
  BY <1>1, <1>2, PTL DEF Spec

\* The decisions of the code are what entitles to an order that was paid for, or is
\* refused for its price.
LEMMA DecisionsEntitle ==
  ASSUME TypeOK, NEW r \in Request, NEW o \in Request, Checked(command[o].items) = "order"
  PROVE  /\ Decision(r, o) = "allowed" => Entitled(r, o)
         /\ Decision(r, o) = "forbidden" => ~Entitled(r, o)
<1>1. IsHighValue(command[o].items) <=> ~ (UnitsOf(command[o].items) <= HighValueThreshold)
  BY OrderedItems
<1>2. QED
  BY <1>1 DEF Decision, Entitled

\* Nobody but an admin is charged, or gets an order, for somebody else or above the
\* threshold, for items of any number, quantities and prices, whether the order is its
\* own or that of the key it sends; and nobody is turned away but for its own order or
\* one that was paid for under its key before.
THEOREM DecisionsAreRightHolds == Spec => []DecisionsAreRight
<1>1. DecisionInv => DecisionsAreRight
  <2> SUFFICES ASSUME DecisionInv, NEW r \in Request
               PROVE  /\ r \in charged \cup orders => Entitled(r, r)
                      /\ result[r] # NoOrder => Entitled(r, result[r])
                      /\ answer[r] = "forbidden" =>
                            \/ ~Entitled(r, r)
                            \/ \E o \in charged : HasKey(r) /\ KeyOf(o) = KeyOf(r) /\ ~Entitled(r, o)
    BY DEF DecisionsAreRight
  <2>1. /\ TypeOK /\ TurnedAway(r) /\ Served(r)
        /\ \A o \in Request : Called(o) /\ Stores(o)
    BY DEF DecisionInv, ProgressInv, Progress
  <2>2. \A o \in charged \cup orders :
           o \in Request /\ o \in charged /\ Checked(command[o].items) = "order"
           /\ Decision(o, o) = "allowed"
    BY <2>1 DEF Called, Stores, TypeOK
  <2>3. r \in charged \cup orders => Entitled(r, r)
    BY <2>1, <2>2, DecisionsEntitle
  <2>4. result[r] # NoOrder => Entitled(r, result[r])
    BY <2>1, <2>2, DecisionsEntitle DEF Served
  <2>5. ASSUME answer[r] = "forbidden", Entitled(r, r)
        PROVE  \E o \in charged : HasKey(r) /\ KeyOf(o) = KeyOf(r) /\ ~Entitled(r, o)
    <3>1. ~ (Checked(command[r].items) = "order" /\ Decision(r, r) = "forbidden")
      BY <2>1, <2>5, DecisionsEntitle
    <3>2. PICK o \in charged : HasKey(r) /\ KeyOf(o) = KeyOf(r) /\ Decision(r, o) = "forbidden"
      BY <2>1, <2>5, <3>1 DEF TurnedAway
    <3>3. ~Entitled(r, o)
      BY <2>1, <2>2, <3>2, DecisionsEntitle
    <3>4. QED
      BY <3>2, <3>3
  <2>6. QED
    BY <2>3, <2>4, <2>5
<1>2. QED
  BY <1>1, DecisionInvariant, PTL

-----------------------------------------------------------------------------
(* What is committed, when requests have sessions of their own             *)

\* An order with its message and its record,
StoresWhole(r) ==
    /\ orders' = orders \cup {r}
    /\ Announced' = Announced \cup {r}
    /\ records' = [k \in Key |-> IF k = KeyOf(r) THEN r ELSE records[k]]

\* or the order alone.
StoresAlone(r) ==
    /\ HasKey(r) /\ ~Atomic
    /\ orders' = orders \cup {r}
    /\ UNCHANGED <<Announced, records>>

StoresNothing == UNCHANGED <<orders, Announced, records>>

LEMMA Effect ==
  ASSUME TypeOK, NEW r \in Request, RequestStep(r), Isolated, ByItself(r)
  PROVE  \/ StoresNothing
         \/ StoresWhole(r) /\ (Commit(r) \/ Save(r)) /\ pc[r] \in {"commit", "begin"}
         \/ StoresAlone(r) /\ Save(r) /\ pc[r] = "begin" /\ pc'[r] = "rollback"
<1>1. UNCHANGED given /\ SessionOf(r) = r /\ r \in Session
  BY StepTypes, SessionsOfRequests DEF Session
<1>2. Transactional' = Transactional
  BY <1>1, GivenNext
<1>3. pc' = [pc EXCEPT ![r] = pc'[r]] /\ pc' \in [Request -> Places]
  <2>1. pc \in [Request -> Places] /\ pc' \in [Request -> Places]
    BY CallTypesKept, TypeParts DEF CallTypes
  <2>2. QED
    BY <2>1, OthersUnmoved
<1>4. ASSUME UNCHANGED committed, Transactional \/ pc[r] # "insertMessage",
             Transactional \/ pc'[r] # "insertMessage"
      PROVE  StoresNothing
  BY <1>2, <1>3, <1>4 DEF committed, Announced, StoresNothing, TypeOK
<1>5. CASE Commit(r)
  <2>1. Transactional /\ pc[r] = "commit"
    BY <1>5 DEF Commit, ByItself, NoTransaction
  <2>2. /\ txState[r] = "open" /\ newOrders[r] = {r} /\ newMessages[r] = {r}
        /\ newRecords[r] = OwnRecord(r)
    BY <2>1 DEF ByItself, OwnTransaction
  <2>3. ASSUME CommitWork(r) PROVE StoresWhole(r)
    <3>1. orders' = orders \cup {r} /\ messages' = messages \cup {r}
      BY <2>2, <2>3 DEF CommitWork
    <3>2. \A k \in Key : RecordSeen(r, k) = IF k = KeyOf(r) THEN r ELSE records[k]
      BY <2>2, AbsentAssumption DEF RecordSeen, OwnRecord
    <3>3. records' = [k \in Key |-> IF k = KeyOf(r) THEN r ELSE records[k]]
      BY <2>2, <2>3, <3>2 DEF CommitWork
    <3>4. Announced' = Announced \cup {r}
      BY <1>2, <2>1, <3>1 DEF Announced
    <3>5. QED
      BY <3>1, <3>3, <3>4 DEF StoresWhole
  <2>4. CommitWork(r) \/ UNCHANGED committed
    BY <1>1, <1>5 DEF Commit
  <2>5. QED
    BY <1>4, <1>5, <2>1, <2>3, <2>4
<1>6. CASE Save(r)
  <2>1. ~Transactional /\ pc[r] = "begin" /\ UNCHANGED messages
    BY <1>6 DEF Save
  <2>2. CASE orders' = orders \cup {r} /\ WithRecord(r) /\ Goto(r, "insertMessage")
    <3>1. Announced' = Announced \cup {r}
      BY <1>2, <2>1, <2>2 DEF Announced, Goto, TypeOK
    <3>2. records' = [k \in Key |-> IF k = KeyOf(r) THEN r ELSE records[k]]
      BY <2>2 DEF WithRecord, HasKey, TypeOK, Records
    <3>3. QED
      BY <1>6, <2>1, <2>2, <3>1, <3>2 DEF StoresWhole
  <2>3. CASE /\ wiring = "sqlite" /\ UNCHANGED records /\ Goto(r, "rollback")
             /\ UNCHANGED orders \/ (HasKey(r) /\ orders' = orders \cup {r})
    <3>1. pc'[r] = "rollback" /\ ~Atomic
      BY <2>3 DEF Goto, TypeOK, Atomic
    <3>2. CASE UNCHANGED orders
      BY <1>4, <2>1, <2>3, <3>1, <3>2 DEF committed
    <3>3. CASE HasKey(r) /\ orders' = orders \cup {r}
      <4>1. Announced' = Announced
        BY <1>2, <1>3, <2>1, <3>1, <3>3 DEF Announced, TypeOK
      <4>2. QED
        BY <1>6, <2>1, <2>3, <3>1, <3>3, <4>1 DEF StoresAlone
    <3>4. QED
      BY <2>3, <3>2, <3>3
  <2>4. QED
    BY <1>6, <2>2, <2>3 DEF Save
<1>7. CASE SaveMessage(r)
  <2>1. /\ ~Transactional /\ pc[r] = "insertMessage" /\ pc'[r] = "audit" /\ r \in orders
        /\ messages' = messages \cup {r} /\ UNCHANGED <<orders, records>>
    BY <1>7 DEF SaveMessage, ByItself, NoTransaction, Goto, TypeOK
  <2>2. Announced' = Announced
    BY <1>2, <1>3, <2>1 DEF Announced, TypeOK
  <2>3. QED
    BY <2>1, <2>2 DEF StoresNothing
<1>8. CASE InsertOrder(r) \/ InsertRecord(r) \/ InsertMessage(r)
  <2>1. Transactional /\ txState[r] = "open"
    BY <1>8 DEF InsertOrder, InsertRecord, InsertMessage, ByItself, NoTransaction,
                OwnTransaction
  <2>2. UNCHANGED committed
    BY <1>1, <1>8, <2>1 DEF InsertOrder, InsertRecord, InsertMessage, StatementFails, committed
  <2>3. QED
    BY <1>4, <2>1, <2>2
<1>9. CASE Lookup(r) \/ Price(r) \/ Charge(r) \/ Begin(r) \/ Rollback(r) \/ Audit(r)
  <2>1. UNCHANGED committed
    BY <1>9 DEF Lookup, Price, Charge, Begin, Rollback, Audit
  <2>2. pc[r] # "insertMessage"
    BY <1>9 DEF Lookup, Price, Charge, Begin, Rollback, Audit
  <2>3. pc'[r] # "insertMessage"
    BY <1>9 DEF Lookup, Reuse, Price, Charge, Begin, Rollback, Audit, Answer, Fail, Goto, TypeOK
  <2>4. QED
    BY <1>4, <2>1, <2>2, <2>3
<1>10. QED
  BY <1>5, <1>6, <1>7, <1>8, <1>9 DEF RequestStep

\* A request leaves the session of another alone, and its order.
LEMMA SessionsApart ==
  ASSUME TypeOK, NEW r \in Request, RequestStep(r), Isolated, ByItself(r),
         NEW t \in Request, t # r
  PROVE  /\ txState'[t] = txState[t] /\ newOrders'[t] = newOrders[t]
         /\ newRecords'[t] = newRecords[t] /\ newMessages'[t] = newMessages[t]
         /\ t \in orders' <=> t \in orders
         /\ t \in Announced' <=> t \in Announced
<1>1. SessionOf(r) = r /\ r \in Session /\ t \in Session
  BY SessionsOfRequests DEF Session
<1>2. \/ UNCHANGED staged
      \/ \E f : /\ txState' = [txState EXCEPT ![r] = f]
                /\ UNCHANGED <<newOrders, newRecords, newMessages>>
      \/ UNCHANGED txState /\ InsertOrder(r)
      \/ UNCHANGED txState /\ InsertRecord(r)
      \/ UNCHANGED txState /\ InsertMessage(r)
      \/ EndTransaction(r)
  <2>1. CASE Begin(r)
    BY <1>1, <2>1 DEF Begin, staged
  <2>2. CASE StatementFails(r)
    BY <1>1, <2>2 DEF StatementFails
  <2>3. CASE InsertOrder(r) \/ InsertRecord(r) \/ InsertMessage(r)
    BY <2>2, <2>3 DEF InsertOrder, InsertRecord, InsertMessage
  <2>4. CASE Commit(r) \/ Rollback(r)
    BY <1>1, <2>4 DEF Commit, Rollback
  <2>5. QED
    BY <2>1, <2>3, <2>4 DEF RequestStep, Lookup, Price, Charge, Save, SaveMessage, Audit
<1>3. /\ txState'[t] = txState[t] /\ newOrders'[t] = newOrders[t]
      /\ newRecords'[t] = newRecords[t] /\ newMessages'[t] = newMessages[t]
  <2>1. CASE EndTransaction(r)
    BY <1>1, <2>1 DEF EndTransaction, TypeOK
  <2>2. CASE UNCHANGED txState /\ InsertOrder(r)
    BY <1>1, <2>2 DEF InsertOrder, StatementFails, TypeOK
  <2>3. CASE UNCHANGED txState /\ InsertRecord(r)
    BY <1>1, <2>3 DEF InsertRecord, StatementFails, TypeOK
  <2>4. CASE UNCHANGED txState /\ InsertMessage(r)
    BY <1>1, <2>4 DEF InsertMessage, StatementFails, TypeOK
  <2>5. QED
    BY <1>1, <1>2, <2>1, <2>2, <2>3, <2>4 DEF staged, TypeOK
<1>4. QED
  BY <1>3, Effect DEF StoresWhole, StoresAlone, StoresNothing

LEMMA OwnTransactionNext ==
  ASSUME TypeOK, NEW r \in Request, RequestStep(r), Isolated, Transactional, OwnTransaction(r)
  PROVE  OwnTransaction(r)'
<1>1. /\ UNCHANGED given /\ SessionOf(r) = r /\ r \in Session
  BY StepTypes, SessionsOfRequests DEF Session
<1>2. HasKey(r)' = HasKey(r) /\ OwnRecord(r)' = OwnRecord(r)
  BY <1>1, GivenNext DEF OwnRecord
<1>3. /\ \A place : Goto(r, place) => pc'[r] = place
      /\ \A a, o : Answer(r, a, o) => pc'[r] = "done"
      /\ Fail(r) => pc'[r] = "done"
  BY DEF TypeOK, Goto, Answer, Fail
<1>4. CASE Lookup(r) \/ Price(r) \/ Charge(r) \/ Audit(r)
  <2>1. UNCHANGED <<txState, newOrders, newRecords, newMessages, orders>>
    BY <1>4 DEF Lookup, Price, Charge, Audit, committed, staged
  <2>2. \/ pc[r] \in {"lookup", "price", "charge"} /\ pc'[r] \in {"price", "charge", "begin", "done"}
        \/ pc[r] = "audit" /\ pc'[r] = "done"
    BY <1>3, <1>4 DEF Lookup, Reuse, Price, Charge, Audit
  <2>3. QED
    BY <1>2, <2>1, <2>2 DEF OwnTransaction
<1>5. CASE Begin(r)
  <2>1. UNCHANGED <<newOrders, newRecords, newMessages, orders>> /\ pc[r] = "begin"
    BY <1>5 DEF Begin, committed
  <2>2. \/ pc'[r] = "insertOrder" /\ txState'[r] = "open"
        \/ pc'[r] = "done" /\ txState'[r] = txState[r]
    BY <1>1, <1>3, <1>5 DEF Begin, TypeOK
  <2>3. QED
    BY <1>2, <2>1, <2>2 DEF OwnTransaction
<1>6. CASE StatementFails(r) /\ pc[r] \in {"insertOrder", "insertRecord", "insertMessage"}
  <2>1. UNCHANGED <<newOrders, newRecords, newMessages, orders>> /\ pc'[r] = "rollback"
    BY <1>3, <1>6 DEF StatementFails, committed
  <2>2. QED
    BY <1>2, <1>6, <2>1 DEF OwnTransaction
<1>7. CASE InsertOrder(r)
  <2>1. pc[r] = "insertOrder" /\ txState[r] = "open"
    BY <1>7 DEF InsertOrder, OwnTransaction
  <2>2. ASSUME ~StatementFails(r)
        PROVE  /\ UNCHANGED <<txState, newRecords, newMessages, orders>>
               /\ newOrders'[r] = newOrders[r] \cup {r}
               /\ pc'[r] = IF HasKey(r) THEN "insertRecord" ELSE "insertMessage"
    BY <1>1, <1>3, <1>7, <2>1, <2>2 DEF InsertOrder, TypeOK
  <2>3. ~HasKey(r) => OwnRecord(r) = NoRecords
    BY DEF HasKey, OwnRecord, NoRecords
  <2>4. QED
    BY <1>2, <1>6, <2>1, <2>2, <2>3 DEF OwnTransaction
<1>8. CASE InsertRecord(r)
  <2>1. /\ pc[r] = "insertRecord" /\ txState[r] = "open" /\ HasKey(r)
        /\ newRecords[r] = NoRecords /\ newOrders[r] = {r} /\ newMessages[r] = {}
        /\ r \notin orders
    BY <1>8 DEF InsertRecord, OwnTransaction
  <2>2. ASSUME ~StatementFails(r)
        PROVE  /\ UNCHANGED <<txState, newOrders, newMessages, orders>>
               /\ newRecords' = [newRecords EXCEPT ![r][KeyOf(r)] = r]
               /\ pc'[r] = "insertMessage"
    BY <1>1, <1>3, <1>8, <2>1, <2>2 DEF InsertRecord
  <2>3. [NoRecords EXCEPT ![KeyOf(r)] = r] = OwnRecord(r)
    BY DEF OwnRecord, NoRecords
  <2>4. ASSUME ~StatementFails(r) PROVE newRecords'[r] = OwnRecord(r)
    <3>1. newRecords'[r] = [newRecords[r] EXCEPT ![KeyOf(r)] = r]
      BY <1>1, <2>2, <2>4 DEF TypeOK
    <3>2. QED
      BY <2>1, <2>3, <3>1
  <2>5. QED
    BY <1>2, <1>6, <2>1, <2>2, <2>4 DEF OwnTransaction
<1>9. CASE InsertMessage(r)
  <2>1. pc[r] = "insertMessage" /\ txState[r] = "open" /\ newMessages[r] = {}
    BY <1>9 DEF InsertMessage, OwnTransaction
  <2>2. ASSUME ~StatementFails(r)
        PROVE  /\ UNCHANGED <<txState, newOrders, newRecords, orders>>
               /\ newMessages'[r] = newMessages[r] \cup {r}
               /\ pc'[r] = "commit"
    BY <1>1, <1>3, <1>9, <2>1, <2>2 DEF InsertMessage, TypeOK
  <2>3. QED
    BY <1>2, <1>6, <2>1, <2>2 DEF OwnTransaction
<1>10. CASE Commit(r) \/ Rollback(r)
  <2>1. pc[r] \in {"commit", "rollback"}
    BY <1>10 DEF Commit, Rollback
  <2>2. CASE EndTransaction(r)
    <3>1. /\ txState'[r] = "none" /\ newOrders'[r] = {} /\ newRecords'[r] = NoRecords
          /\ newMessages'[r] = {}
      BY <1>1, <2>2 DEF EndTransaction, TypeOK
    <3>2. pc'[r] \in {"audit", "rollback", "done"}
      BY <1>3, <1>10 DEF Commit, Rollback
    <3>3. QED
      BY <1>2, <3>1, <3>2 DEF OwnTransaction
  <2>3. CASE UNCHANGED committed /\ UNCHANGED staged /\ pc'[r] = "rollback"
    BY <1>2, <2>1, <2>3 DEF committed, staged, OwnTransaction
  <2>4. QED
    BY <1>1, <1>3, <1>10, <2>2, <2>3 DEF Commit, Rollback
<1>11. QED
  BY <1>4, <1>5, <1>7, <1>8, <1>9, <1>10 DEF RequestStep, Save, SaveMessage

LEMMA NoTransactionNext ==
  ASSUME TypeOK, NEW r \in Request, RequestStep(r), Isolated, ~Transactional, NoTransaction(r)
  PROVE  NoTransaction(r)'
<1>1. /\ UNCHANGED wiring /\ SessionOf(r) = r /\ r \in Session
  BY StepTypes, SessionsOfRequests DEF Session, given
<1>2. /\ \A place : Goto(r, place) => pc'[r] = place
      /\ \A a, o : Answer(r, a, o) => pc'[r] = "done"
      /\ Fail(r) => pc'[r] = "done"
  BY DEF TypeOK, Goto, Answer, Fail
<1>3. CASE Lookup(r) \/ Price(r) \/ Charge(r) \/ Audit(r)
  <2>1. UNCHANGED <<newRecords, orders>>
    BY <1>3 DEF Lookup, Price, Charge, Audit, committed, staged
  <2>2. \/ pc[r] \in {"lookup", "price", "charge"} /\ pc'[r] \in {"price", "charge", "begin", "done"}
        \/ pc[r] = "audit" /\ pc'[r] = "done"
    BY <1>2, <1>3 DEF Lookup, Reuse, Price, Charge, Audit
  <2>3. QED
    BY <1>1, <2>1, <2>2 DEF NoTransaction
<1>4. CASE Save(r)
  <2>1. \/ pc'[r] = "insertMessage" /\ r \in orders'
        \/ pc'[r] = "rollback" /\ wiring = "sqlite"
    BY <1>2, <1>4 DEF Save
  <2>2. UNCHANGED newRecords
    BY <1>4 DEF Save, staged
  <2>3. QED
    BY <1>1, <2>1, <2>2 DEF NoTransaction
<1>5. CASE SaveMessage(r)
  <2>1. pc'[r] = "audit" /\ UNCHANGED newRecords
    BY <1>2, <1>5 DEF SaveMessage, staged
  <2>2. QED
    BY <1>1, <2>1 DEF NoTransaction
<1>6. CASE Rollback(r)
  <2>1. pc'[r] = "done" /\ newRecords'[r] = NoRecords
    BY <1>1, <1>2, <1>6 DEF Rollback, EndTransaction, TypeOK
  <2>2. QED
    BY <1>1, <2>1 DEF NoTransaction
<1>7. QED
  BY <1>3, <1>4, <1>5, <1>6
     DEF RequestStep, Begin, InsertOrder, InsertRecord, InsertMessage, Commit, NoTransaction

LEMMA ByItselfNext ==
  ASSUME TypeOK, NEW r \in Request, RequestStep(r), Isolated, ByItself(r)
  PROVE  ByItself(r)'
<1>1. Transactional' = Transactional
  BY StepTypes, GivenNext
<1>2. QED
  BY <1>1, OwnTransactionNext, NoTransactionNext DEF ByItself

-----------------------------------------------------------------------------
(* What is told, when requests have sessions of their own                  *)

\* Nothing is lost that was committed.
LEMMA Grows ==
  ASSUME TypeOK, NEW r \in Request, RequestStep(r), Isolated, ByItself(r)
  PROVE  /\ orders \subseteq orders' /\ Announced \subseteq Announced'
         /\ \A k \in Key : records[k] # NoOrder => records'[k] # NoOrder
         /\ \A t \in Request : Whole(t) => Whole(t)'
<1>1. orders \subseteq orders' /\ Announced \subseteq Announced'
  BY Effect DEF StoresWhole, StoresAlone, StoresNothing
<1>2. \A k \in Key : records[k] # NoOrder => records'[k] # NoOrder
  BY Effect, AbsentAssumption DEF StoresWhole, StoresAlone, StoresNothing
<1>3. \A t : KeyOf(t)' = KeyOf(t) /\ HasKey(t)' = HasKey(t)
  BY StepTypes, GivenNext
<1>4. QED
  BY <1>1, <1>2, <1>3 DEF Whole, HasKey

LEMMA RecordsAnnouncedNext ==
  ASSUME TypeOK, RecordsAnnounced, NEW r \in Request, RequestStep(r), Isolated, ByItself(r)
  PROVE  RecordsAnnounced'
<1>1. \A t : KeyOf(t)' = KeyOf(t)
  BY StepTypes, GivenNext
<1>2. SUFFICES ASSUME NEW k \in Key, records'[k] # NoOrder
               PROVE  records'[k] \in Announced' /\ KeyOf(records'[k]) = k
  <2>1. UNCHANGED command
    BY StepTypes DEF given
  <2>2. QED
    BY <1>2, <2>1 DEF RecordsAnnounced, Names, KeyOf
<1>3. CASE records'[k] = records[k]
  BY <1>2, <1>3, Grows DEF RecordsAnnounced, Names
<1>4. CASE records'[k] # records[k]
  <2>1. StoresWhole(r)
    BY <1>4, Effect DEF StoresAlone, StoresNothing
  <2>2. records'[k] = r /\ k = KeyOf(r) /\ r \in Announced'
    BY <1>4, <2>1 DEF StoresWhole
  <2>3. QED
    BY <2>2
<1>5. QED
  BY <1>3, <1>4

LEMMA OthersTruthful ==
  ASSUME TypeOK, NEW r \in Request, RequestStep(r), Isolated, ByItself(r),
         NEW t \in Request, t # r, Truthful(t)
  PROVE  Truthful(t)'
<1>1. UNCHANGED given
  BY StepTypes
<1>2. pc'[t] = pc[t] /\ answer'[t] = answer[t] /\ result'[t] = result[t]
  BY OthersUnmoved
<1>3. (t \in orders' <=> t \in orders) /\ (t \in Announced' <=> t \in Announced)
  BY SessionsApart
<1>4. /\ Whole(t) => Whole(t)'
      /\ orders \subseteq orders' /\ Announced \subseteq Announced'
  BY Grows
<1>5. /\ Transactional' = Transactional /\ Atomic' = Atomic /\ HasKey(t)' = HasKey(t)
      /\ KeyOf(t)' = KeyOf(t)
  BY <1>1, GivenNext
<1>6. KeyOf(result[t]) = KeyOf(t) => KeyOf(result[t])' = KeyOf(t)'
  BY <1>1, <1>2 DEF given, KeyOf
<1>7. Decision(t, result[t])' = Decision(t, result[t])
  BY <1>1, <1>2 DEF given, Decision
<1>8. QED
  BY <1>2, <1>3, <1>4, <1>5, <1>6, <1>7 DEF Truthful

LEMMA OwnTruthful ==
  ASSUME ProgressInv, RecordsAnnounced, NEW r \in Request, RequestStep(r), Isolated,
         ByItself(r), Truthful(r)
  PROVE  Truthful(r)'
<1>1. TypeOK /\ RecordsNameOrders /\ Called(r) /\ Stores(r) /\ UNCHANGED given
  BY StepTypes DEF ProgressInv, Progress
<1>2. /\ Transactional' = Transactional /\ Atomic' = Atomic /\ HasKey(r)' = HasKey(r)
      /\ \A t : KeyOf(t)' = KeyOf(t) /\ \A o : Decision(t, o)' = Decision(t, o)
  BY <1>1, GivenNext
<1>3. /\ \A place : Goto(r, place) => pc'[r] = place
      /\ \A a, o : Answer(r, a, o) => pc'[r] = "done" /\ answer'[r] = a /\ result'[r] = o
      /\ Fail(r) => pc'[r] = "done" /\ answer'[r] = "failed" /\ result'[r] = NoOrder
  BY <1>1 DEF TypeOK, Goto, Answer, Fail
<1>4. /\ Whole(r) => Whole(r)'
      /\ orders \subseteq orders' /\ Announced \subseteq Announced'
  BY <1>1, Grows
<1>5. StoresWhole(r) => Whole(r)'
  BY <1>2, AbsentAssumption DEF StoresWhole, Whole, HasKey
\* what is committed
<1>6. /\ r \in Announced' => r \in orders'
      /\ r \in orders' /\ Atomic' => Whole(r)'
  BY <1>1, <1>2, <1>4, <1>5, Effect DEF StoresWhole, StoresAlone, StoresNothing, Truthful
\* where r is
<1>7. /\ pc'[r] = "audit" => Whole(r)'
      /\ pc'[r] = "insertMessage" /\ ~Transactional' => Whole(r)'
  <2>1. CASE Commit(r)
    <3>1. pc'[r] # "insertMessage"
      BY <1>3, <2>1 DEF Commit
    <3>2. ASSUME pc'[r] = "audit" PROVE StoresWhole(r)
      <4>1. Transactional /\ pc[r] = "commit"
        BY <2>1 DEF Commit, ByItself, NoTransaction
      <4>2. txState[r] = "open" /\ SessionOf(r) = r /\ newOrders[r] = {r}
        BY <4>1, SessionsOfRequests DEF ByItself, OwnTransaction
      <4>3. CommitWork(r)
        BY <1>3, <2>1, <3>2, <4>2 DEF Commit
      <4>4. r \in orders'
        BY <4>2, <4>3 DEF CommitWork
      <4>5. r \notin orders
        BY <4>1 DEF ByItself, OwnTransaction
      <4>6. QED
        BY <1>1, <2>1, <4>1, <4>4, <4>5, Effect DEF StoresNothing, Save
    <3>3. QED
      BY <1>5, <3>1, <3>2
  <2>2. CASE Save(r)
    <3>1. pc'[r] # "audit"
      BY <1>3, <2>2 DEF Save
    <3>2. ASSUME pc'[r] = "insertMessage" PROVE StoresWhole(r)
      <4>1. r \in orders' /\ ~Transactional /\ pc[r] = "begin"
        BY <1>3, <2>2, <3>2 DEF Save
      <4>2. r \notin orders
        BY <4>1 DEF ByItself, NoTransaction
      <4>3. QED
        BY <1>1, <3>2, <4>1, <4>2, Effect DEF StoresNothing
    <3>3. QED
      BY <1>5, <3>1, <3>2
  <2>3. CASE SaveMessage(r)
    BY <1>3, <1>4, <2>3 DEF SaveMessage, Truthful
  <2>4. CASE InsertOrder(r) \/ InsertRecord(r) \/ InsertMessage(r)
    <3>1. Transactional
      BY <2>4 DEF InsertOrder, InsertRecord, InsertMessage, ByItself, NoTransaction
    <3>2. pc'[r] # "audit"
      BY <1>3, <2>4 DEF InsertOrder, InsertRecord, InsertMessage, StatementFails
    <3>3. QED
      BY <1>2, <3>1, <3>2
  <2>5. CASE Lookup(r) \/ Price(r) \/ Charge(r) \/ Begin(r) \/ Rollback(r) \/ Audit(r)
    <3>1. pc'[r] \notin {"audit", "insertMessage"}
      BY <1>3, <2>5 DEF Lookup, Reuse, Price, Charge, Begin, Rollback, Audit
    <3>2. QED
      BY <3>1
  <2>6. QED
    BY <2>1, <2>2, <2>3, <2>4, <2>5 DEF RequestStep
\* what r is told
<1> DEFINE ToldSo ==
        /\ answer'[r] = "placed" => Whole(r)' /\ result'[r] = r
        /\ answer'[r] = "reused" =>
              /\ HasKey(r) /\ result'[r] \in orders' \cap Announced'
              /\ KeyOf(result'[r]) = KeyOf(r) /\ Decision(r, result'[r]) = "allowed"
<1>8. ToldSo
  <2>1. CASE UNCHANGED <<answer, result>>
    BY <1>4, <2>1 DEF Truthful
  <2>2. CASE answer'[r] \notin {"placed", "reused"}
    BY <2>2
  <2>3. CASE Audit(r)
    BY <1>3, <1>4, <2>3 DEF Audit, Truthful
  <2>4. CASE Lookup(r)
    <3>1. SUFFICES ASSUME Existing(r) # NoOrder, Decision(r, Existing(r)) = "allowed",
                          answer'[r] = "reused", result'[r] = Existing(r)
                   PROVE  ToldSo
      BY <1>3, <2>1, <2>2, <2>4, DecisionType DEF Lookup, Reuse
    <3>2. HasKey(r) /\ Existing(r) = RecordSeen(r, KeyOf(r))
      BY <3>1, SessionsOfRequests DEF Existing
    <3>3. newRecords[r] = NoRecords
      BY <2>4 DEF Lookup, ByItself, OwnTransaction, NoTransaction
    <3>4. Existing(r) = records[KeyOf(r)]
      BY <3>2, <3>3 DEF RecordSeen, NoRecords, HasKey
    <3>5. Existing(r) \in orders \cap Announced /\ KeyOf(Existing(r)) = KeyOf(r)
      BY <1>1, <3>1, <3>2, <3>4 DEF RecordsNameOrders, RecordsAnnounced, Names, HasKey
    <3>6. QED
      BY <1>4, <3>1, <3>2, <3>5
  <2>5. CASE Price(r)
    BY <1>3, <2>1, <2>2, <2>5, DecisionType DEF Price
  <2>6. CASE Charge(r) \/ Begin(r) \/ Rollback(r)
    BY <1>3, <2>1, <2>2, <2>6 DEF Charge, Begin, Rollback
  <2>7. QED
    BY <2>1, <2>3, <2>4, <2>5, <2>6
       DEF RequestStep, InsertOrder, InsertRecord, InsertMessage, Commit, Save, SaveMessage
<1>9. /\ KeyOf(result'[r]) = KeyOf(r) => KeyOf(result[r])' = KeyOf(r)'
      /\ Decision(r, result'[r]) = "allowed" => Decision(r, result[r])' = "allowed"
  BY <1>1 DEF given, KeyOf, Decision
<1>10. QED
  BY <1>2, <1>6, <1>7, <1>8, <1>9 DEF Truthful

LEMMA SeparateInit == Init => SeparateInv
<1> SUFFICES ASSUME Init, Isolated
             PROVE  (\A r \in Request : ByItself(r) /\ Truthful(r)) /\ RecordsAnnounced
  BY ProgressInit DEF SeparateInv
<1>1. ASSUME NEW r \in Request PROVE ByItself(r)
  <2>1. r \in Session
    BY DEF Session
  <2>2. QED
    BY <2>1 DEF Init, ByItself, OwnTransaction, NoTransaction
<1>2. ASSUME NEW r \in Request PROVE Truthful(r)
  BY DEF Init, Truthful, Announced
<1>3. RecordsAnnounced
  BY DEF Init, RecordsAnnounced, Names, NoRecords
<1>4. QED
  BY <1>1, <1>2, <1>3

LEMMA SeparateNext ==
  ASSUME SeparateInv, NEW r \in Request, RequestStep(r)
  PROVE  SeparateInv'
<1>1. ProgressInv /\ TypeOK /\ ProgressInv'
  BY ProgressNext DEF SeparateInv, ProgressInv
<1>2. Isolated' = Isolated
  BY <1>1, StepTypes, GivenNext
<1>3. ASSUME Isolated
      PROVE  (\A t \in Request : ByItself(t)' /\ Truthful(t)') /\ RecordsAnnounced'
  <2>1. RecordsAnnounced /\ \A t \in Request : ByItself(t) /\ Truthful(t)
    BY <1>3 DEF SeparateInv
  <2>2. RecordsAnnounced'
    BY <1>1, <1>3, <2>1, RecordsAnnouncedNext
  <2>3. ByItself(r)' /\ Truthful(r)'
    BY <1>1, <1>3, <2>1, ByItselfNext, OwnTruthful
  <2>4. ASSUME NEW t \in Request, t # r PROVE ByItself(t)' /\ Truthful(t)'
    <3>1. Truthful(t)'
      BY <1>1, <1>3, <2>1, <2>4, OthersTruthful
    <3>2. /\ txState'[t] = txState[t] /\ newOrders'[t] = newOrders[t]
          /\ newRecords'[t] = newRecords[t] /\ newMessages'[t] = newMessages[t]
          /\ t \in orders' <=> t \in orders
      BY <1>1, <1>3, <2>1, <2>4, SessionsApart
    <3>3. pc'[t] = pc[t]
      BY <1>1, <2>4, OthersUnmoved
    <3>4. /\ Transactional' = Transactional /\ wiring' = wiring
          /\ HasKey(t)' = HasKey(t) /\ KeyOf(t)' = KeyOf(t)
      BY <1>1, StepTypes, GivenNext DEF given
    <3>5. OwnTransaction(t) => OwnTransaction(t)'
      BY <3>2, <3>3, <3>4 DEF OwnTransaction, OwnRecord
    <3>6. NoTransaction(t) => NoTransaction(t)'
      BY <3>2, <3>3, <3>4 DEF NoTransaction
    <3>7. QED
      BY <2>1, <3>1, <3>4, <3>5, <3>6 DEF ByItself
  <2>5. QED
    BY <2>2, <2>3, <2>4
<1>4. QED
  BY <1>1, <1>2, <1>3 DEF SeparateInv

LEMMA SeparateStutters ==
  ASSUME SeparateInv, UNCHANGED vars PROVE SeparateInv'
<1>1. UNCHANGED given /\ ProgressInv'
  BY ProgressStutters DEF SeparateInv, vars
<1>2. Isolated' = Isolated
  BY <1>1, GivenNext
<1>3. (\A r \in Request : ByItself(r))' <=> \A r \in Request : ByItself(r)
  BY DEF vars, given, committed, staged, ByItself, OwnTransaction, NoTransaction,
              Transactional, OwnRecord, HasKey, KeyOf
<1>4. (\A r \in Request : Truthful(r))' <=> \A r \in Request : Truthful(r)
  BY DEF vars, given, committed, staged, Truthful, Whole, Announced, Transactional,
              Atomic, HasKey, KeyOf, Decision
<1>5. RecordsAnnounced' <=> RecordsAnnounced
  BY DEF vars, given, committed, RecordsAnnounced, Names, Announced, Transactional, KeyOf
<1>6. QED
  BY <1>1, <1>2, <1>3, <1>4, <1>5 DEF SeparateInv

LEMMA SeparateInvariant == Spec => []SeparateInv
<1>1. ASSUME SeparateInv, [Next]_vars PROVE SeparateInv'
  BY <1>1, SeparateNext, SeparateStutters DEF Next, RequestStep
<1>2. QED
  BY <1>1, SeparateInit, PTL DEF Spec

\* Order, idempotency record and outbox message are committed together or not at
\* all, as far as the wiring goes: whatever step fails, whatever the clients do.
THEOREM CommittedTogetherHolds == Spec => []CommittedTogether
<1>1. SeparateInv => CommittedTogether
  <2> SUFFICES ASSUME SeparateInv PROVE CommittedTogether
    OBVIOUS
  <2>1. \A k \in Key : records[k] # NoOrder => records[k] \in orders /\ KeyOf(records[k]) = k
    BY DEF SeparateInv, ProgressInv, RecordsNameOrders, Names
  <2>2. orders \subseteq Request /\ Announced \subseteq Request
    BY DEF SeparateInv, ProgressInv, TypeOK, Announced
  <2>3. ASSUME Isolated
        PROVE  /\ Announced \subseteq orders
               /\ \A k \in Key : records[k] # NoOrder => records[k] \in Announced
    BY <2>2, <2>3 DEF SeparateInv, Truthful, RecordsAnnounced, Names
  <2>4. ASSUME Atomic
        PROVE  /\ orders = Announced
               /\ \A o \in orders : HasKey(o) => records[KeyOf(o)] # NoOrder
    <3>1. Isolated
      BY <2>4 DEF Atomic, Isolated
    <3>2. \A o \in orders : Whole(o)
      BY <2>2, <2>4, <3>1 DEF SeparateInv, Truthful
    <3>3. QED
      BY <2>3, <3>1, <3>2 DEF Whole
  <2>5. QED
    BY <2>1, <2>3, <2>4 DEF CommittedTogether
<1>2. QED
  BY <1>1, SeparateInvariant, PTL

\* With sessions apart, what a caller is told is so and stays so, even for clients
\* that do not wait: its order is stored and announced, was paid for under the
\* payment id of the call, and is one that the caller may place.
THEOREM AnswersAreTrueHolds == Spec => []AnswersAreTrue
<1>1. SeparateInv => AnswersAreTrue
  <2> SUFFICES ASSUME SeparateInv, Isolated, NEW r \in Request,
                      answer[r] \in {"placed", "reused"}
               PROVE  /\ result[r] \in orders \cap Announced
                      /\ result[r] \in charged
                      /\ PaymentId(result[r]) = PaymentId(r)
                      /\ Decision(r, result[r]) = "allowed"
    BY DEF AnswersAreTrue
  <2>1. Truthful(r) /\ Called(r)
    BY DEF SeparateInv, ProgressInv, Progress
  <2>2. \A o \in orders : o \in charged
    BY DEF SeparateInv, ProgressInv, TypeOK, Progress, Stores
  <2>3. CASE answer[r] = "placed"
    BY <2>1, <2>3 DEF Truthful, Called, Whole
  <2>4. CASE answer[r] = "reused"
    BY <2>1, <2>2, <2>4, AbsentAssumption DEF Truthful, PaymentId, HasKey
  <2>5. QED
    BY <2>2, <2>3, <2>4
<1>2. QED
  BY <1>1, SeparateInvariant, PTL

-----------------------------------------------------------------------------
(* Clients that wait                                                       *)

\* A call that starts to work on a key found no order under it, and no other call
\* at work.
LEMMA StartsAlone ==
  ASSUME ClientsWait, TypeOK, NEW r \in Request, Lookup(r), Isolated, ByItself(r), HasKey(r),
         pc'[r] = "price"
  PROVE  /\ records[KeyOf(r)] = NoOrder
         /\ \A s \in Request \ {r} : KeyOf(s) = KeyOf(r) => ~AtWork(s)
<1>1. Existing(r) = NoOrder
  BY DEF Lookup, Reuse, Answer, Fail, Goto, TypeOK
<1>2. newRecords[r] = NoRecords
  BY DEF Lookup, ByItself, OwnTransaction, NoTransaction
<1>3. records[KeyOf(r)] = NoOrder
  BY <1>1, <1>2, SessionsOfRequests DEF Existing, RecordSeen, NoRecords, HasKey
<1>4. QED
  BY <1>3 DEF Lookup, MayCall, AtWork

\* Who is at work was so before, or starts.
LEMMA WorkContinues ==
  ASSUME TypeOK, NEW r \in Request, RequestStep(r), NEW t \in Request, AtWork(t)'
  PROVE  AtWork(t) \/ (t = r /\ Lookup(r) /\ pc'[r] = "price")
<1>1. CASE t # r
  BY <1>1, OthersUnmoved DEF AtWork
<1>2. CASE t = r /\ Lookup(r)
  BY <1>2 DEF Lookup, Reuse, Answer, Fail, Goto, AtWork, TypeOK
<1>3. CASE t = r /\ ~Lookup(r)
  BY <1>3 DEF RequestStep, Price, Charge, Begin, InsertOrder, InsertRecord, InsertMessage,
              Commit, Rollback, Save, SaveMessage, Audit, AtWork
<1>4. QED
  BY <1>1, <1>2, <1>3

\* Up to its order, a call was so before, or starts; and it has not stored yet.
LEMMA UnplacedBefore ==
  ASSUME TypeOK, NEW r \in Request, RequestStep(r), Isolated, ByItself(r), Unplaced(r)'
  PROVE  /\ Unplaced(r) \/ (Lookup(r) /\ pc'[r] = "price")
         /\ StoresNothing
<1>1. Transactional' = Transactional
  BY StepTypes, GivenNext
<1>2. /\ \A place : Goto(r, place) => pc'[r] = place
      /\ \A a, o : Answer(r, a, o) => pc'[r] = "done"
      /\ Fail(r) => pc'[r] = "done"
  BY DEF TypeOK, Goto, Answer, Fail
<1>3. Unplaced(r) \/ (Lookup(r) /\ pc'[r] = "price")
  <2>1. CASE Lookup(r)
    BY <1>2, <2>1 DEF Lookup, Reuse, Unplaced
  <2>2. CASE Rollback(r) \/ Audit(r) \/ SaveMessage(r)
    BY <1>2, <2>2 DEF Rollback, Audit, SaveMessage, Unplaced
  <2>3. QED
    BY <2>1, <2>2 DEF RequestStep, Price, Charge, Begin, InsertOrder, InsertRecord,
                      InsertMessage, Commit, Save, Unplaced
<1>4. ASSUME Commit(r) \/ Save(r) PROVE FALSE
  BY <1>1, <1>2, <1>4 DEF Commit, Save, Unplaced
<1>5. StoresNothing
  BY <1>4, Effect
<1>6. QED
  BY <1>3, <1>5

LEMMA OneAtATimeNext ==
  ASSUME ClientsWait, TypeOK, NEW r \in Request, RequestStep(r), Isolated, ByItself(r),
         \A t \in Request : OneAtATime(t), NEW t \in Request
  PROVE  OneAtATime(t)'
<1>1. \A u : KeyOf(u)' = KeyOf(u) /\ HasKey(u)' = HasKey(u)
  BY StepTypes, GivenNext
<1>2. Transactional' = Transactional /\ Atomic' = Atomic
  BY StepTypes, GivenNext
<1>3. ASSUME NEW s \in Request \ {t}, HasKey(t), KeyOf(s) = KeyOf(t), AtWork(t)', AtWork(s)'
      PROVE  FALSE
  <2>1. HasKey(s)
    BY <1>3 DEF HasKey
  <2>2. CASE AtWork(t) /\ AtWork(s)
    BY <1>3, <2>2 DEF OneAtATime
  <2>3. CASE t = r /\ Lookup(r) /\ pc'[r] = "price"
    <3>1. ~AtWork(s)
      BY <1>3, <2>3, StartsAlone
    <3>2. QED
      BY <1>3, <2>3, <3>1, WorkContinues
  <2>4. CASE s = r /\ Lookup(r) /\ pc'[r] = "price"
    <3>1. ~AtWork(t)
      BY <1>3, <2>1, <2>4, StartsAlone
    <3>2. QED
      BY <1>3, <2>4, <3>1, WorkContinues
  <2>5. QED
    BY <1>3, <2>2, <2>3, <2>4, WorkContinues
\* What r does to the record of a key that t has.
<1>4. ASSUME HasKey(t), records'[KeyOf(t)] # records[KeyOf(t)]
      PROVE  /\ KeyOf(t) = KeyOf(r) /\ HasKey(r) /\ records'[KeyOf(t)] = r
             /\ AtWork(r) /\ Unplaced(r) /\ StoresWhole(r) /\ (Commit(r) \/ Save(r))
  BY <1>4, Effect DEF StoresWhole, StoresAlone, StoresNothing, AtWork, Unplaced, HasKey
<1>5. ASSUME HasKey(t), Unplaced(t)' PROVE records'[KeyOf(t)] = NoOrder
  <2>1. CASE t = r
    <3>1. StoresNothing
      BY <1>5, <2>1, UnplacedBefore
    <3>2. records'[KeyOf(t)] = records[KeyOf(t)]
      BY <1>4, <1>5, <3>1 DEF StoresNothing
    <3>3. records[KeyOf(t)] = NoOrder
      BY <1>5, <2>1, UnplacedBefore, StartsAlone DEF OneAtATime
    <3>4. QED
      BY <3>2, <3>3
  <2>2. CASE t # r
    <3>1. Unplaced(t) /\ AtWork(t)
      BY <1>2, <1>5, <2>2, OthersUnmoved DEF Unplaced, AtWork
    <3>2. ~(AtWork(r) /\ KeyOf(t) = KeyOf(r))
      BY <1>5, <2>2, <3>1 DEF OneAtATime
    <3>3. QED
      BY <1>4, <1>5, <3>1, <3>2 DEF OneAtATime
  <2>3. QED
    BY <2>1, <2>2
<1>6. ASSUME Atomic, HasKey(t), t \in orders' PROVE records'[KeyOf(t)] = t
  <2>1. CASE t \in orders
    <3>1. records[KeyOf(t)] = t /\ t # NoOrder
      BY <1>6, <2>1, AbsentAssumption DEF OneAtATime
    <3>2. ASSUME records'[KeyOf(t)] # records[KeyOf(t)] PROVE FALSE
      <4>1. records[KeyOf(r)] = NoOrder
        BY <1>4, <1>6, <3>2 DEF OneAtATime
      <4>2. QED
        BY <1>4, <1>6, <3>1, <3>2, <4>1
    <3>3. QED
      BY <3>1, <3>2
  <2>2. CASE t \notin orders
    <3>1. t = r /\ StoresWhole(r)
      BY <1>6, <2>2, Effect DEF StoresWhole, StoresAlone, StoresNothing
    <3>2. QED
      BY <1>6, <3>1 DEF StoresWhole, HasKey
  <2>3. QED
    BY <2>1, <2>2
<1>7. QED
  BY <1>1, <1>2, <1>3, <1>5, <1>6 DEF OneAtATime

\* What was told stays told.
LEMMA TellsOnce ==
  ASSUME TypeOK, NEW r \in Request, RequestStep(r), NEW t \in Request, Called(t), ToldItFailed(t)
  PROVE  ToldItFailed(t)'
<1>1. CASE t # r
  BY <1>1, OthersUnmoved DEF ToldItFailed
<1>2. CASE t = r
  <2>1. pc[r] = "done"
    BY <1>2 DEF Called, ToldItFailed
  <2>2. QED
    BY <2>1 DEF RequestStep, Lookup, Price, Charge, Begin, InsertOrder, InsertRecord,
                InsertMessage, Commit, Rollback, Save, SaveMessage, Audit
<1>3. QED
  BY <1>1, <1>2

LEMMA PaidOnceNext ==
  ASSUME SeparateInv, NEW r \in Request, RequestStep(r), Isolated,
         \A t \in Request : OneAtATime(t), NEW t \in Request, NEW u \in Request, PaidOnce(t, u)
  PROVE  PaidOnce(t, u)'
<1>1. TypeOK /\ \A q \in Request : Called(q) /\ Truthful(q)
  BY DEF SeparateInv, ProgressInv, Progress
<1>2. \A q : KeyOf(q)' = KeyOf(q) /\ HasKey(q)' = HasKey(q)
  BY <1>1, StepTypes, GivenNext
<1>3. SUFFICES ASSUME t \in charged', u \in charged', t # u, HasKey(t), KeyOf(t) = KeyOf(u)
               PROVE  ToldItFailed(t)' \/ ToldItFailed(u)'
  BY <1>2 DEF PaidOnce
<1>4. CASE t \in charged /\ u \in charged
  BY <1>1, <1>3, <1>4, TellsOnce DEF PaidOnce
\* Who is about to pay finds the other failed: it is not at work, and it has no order.
<1>5. ASSUME NEW p \in {t, u}, NEW q \in {t, u}, p # q, p \notin charged
      PROVE  ToldItFailed(q)'
  <2>1. p = r /\ Charge(r)
    <3>1. p = r
      BY <1>1, <1>3, <1>5, OthersUnmoved
    <3>2. QED
      BY <1>3, <1>5, <3>1 DEF RequestStep, Lookup, Price, Begin, InsertOrder, InsertRecord,
         InsertMessage, Commit, Rollback, Save, SaveMessage, Audit
  <2>2. pc[p] = "charge" /\ q \in charged
    BY <1>1, <1>3, <1>5, <2>1, OthersUnmoved DEF Charge
  <2>3. HasKey(p) /\ KeyOf(p) = KeyOf(q) /\ HasKey(q)
    BY <1>3, <1>5 DEF HasKey
  <2>4. ~AtWork(q) /\ records[KeyOf(q)] = NoOrder
    BY <1>3, <1>5, <2>2, <2>3 DEF OneAtATime, AtWork, Unplaced
  <2>5. answer[q] # "placed"
    BY <1>1, <1>5, <2>3, <2>4 DEF Truthful, Whole
  <2>6. pc[q] = "done"
    BY <1>1, <2>2, <2>4 DEF Called, AtWork
  <2>7. ToldItFailed(q)
    BY <1>1, <2>2, <2>5, <2>6 DEF Called, ToldItFailed, TypeOK
  <2>8. QED
    BY <1>1, <2>7, TellsOnce
<1>6. QED
  BY <1>3, <1>4, <1>5

LEMMA WaitingInit == Init => WaitingInv
<1> SUFFICES ASSUME Init
             PROVE  \A r \in Request : OneAtATime(r) /\ \A s \in Request : PaidOnce(r, s)
  BY SeparateInit DEF WaitingInv
<1>1. QED
  BY DEF Init, OneAtATime, AtWork, Unplaced, PaidOnce

LEMMA WaitingNext ==
  ASSUME WaitingInv, NEW r \in Request, RequestStep(r)
  PROVE  WaitingInv'
<1>1. SeparateInv /\ SeparateInv' /\ TypeOK
  BY SeparateNext DEF WaitingInv, SeparateInv, ProgressInv
<1>2. Isolated' = Isolated
  BY <1>1, StepTypes, GivenNext
<1>3. ASSUME ClientsWait, Isolated, NEW t \in Request
      PROVE  OneAtATime(t)' /\ \A u \in Request : PaidOnce(t, u)'
  BY <1>1, <1>3, OneAtATimeNext, PaidOnceNext DEF WaitingInv, SeparateInv
<1>4. QED
  BY <1>1, <1>2, <1>3 DEF WaitingInv

LEMMA WaitingStutters ==
  ASSUME WaitingInv, UNCHANGED vars PROVE WaitingInv'
<1>1. SeparateInv' /\ UNCHANGED given
  BY SeparateStutters DEF WaitingInv, vars
<1>2. Isolated' = Isolated
  BY <1>1, GivenNext
<1>3. (\A r \in Request : OneAtATime(r))' <=> \A r \in Request : OneAtATime(r)
  BY DEF vars, given, committed, OneAtATime, AtWork, Unplaced, HasKey, KeyOf, Transactional, Atomic
<1>4. (\A r, s \in Request : PaidOnce(r, s))' <=> \A r, s \in Request : PaidOnce(r, s)
  BY DEF vars, given, PaidOnce, HasKey, KeyOf, ToldItFailed
<1>5. QED
  BY <1>1, <1>2, <1>3, <1>4 DEF WaitingInv

LEMMA WaitingInvariant == Spec => []WaitingInv
<1>1. ASSUME WaitingInv, [Next]_vars PROVE WaitingInv'
  BY <1>1, WaitingNext, WaitingStutters DEF Next, RequestStep
<1>2. QED
  BY <1>1, WaitingInit, PTL DEF Spec

\* For clients that wait for an answer before they repeat a key, a key has at most
\* one order, whatever failed before and whatever the clients were told.
THEOREM OneOrderPerKeyHolds ==
  ASSUME ClientsWait PROVE Spec => []OneOrderPerKey
<1>1. ClientsWait /\ WaitingInv => OneOrderPerKey
  <2> SUFFICES ASSUME WaitingInv, Atomic, NEW o \in orders, NEW p \in orders,
                      KeyOf(o) = KeyOf(p), HasKey(o)
               PROVE  o = p
    BY DEF OneOrderPerKey
  <2>1. Isolated /\ o \in Request /\ p \in Request /\ HasKey(p)
    BY DEF Atomic, Isolated, WaitingInv, SeparateInv, ProgressInv, TypeOK, HasKey
  <2>2. records[KeyOf(o)] = o /\ records[KeyOf(p)] = p
    BY <2>1 DEF WaitingInv, OneAtATime
  <2>3. QED
    BY <2>2
<1>2. QED
  BY <1>1, WaitingInvariant, PTL

\* For clients that wait, with sessions apart, whoever paid has an order, or is told
\* of the failure; and nobody pays twice for a key but after such a failure.
THEOREM ChargesAreReportedHolds ==
  ASSUME ClientsWait PROVE Spec => []ChargesAreReported
<1>1. ClientsWait /\ WaitingInv => ChargesAreReported
  <2> SUFFICES ASSUME WaitingInv, Isolated
               PROVE  /\ \A r \in charged \ orders :
                            ToldItFailed(r) \/ pc[r] \notin {"lookup", "price", "done"}
                      /\ \A r, s \in charged :
                            r # s /\ HasKey(r) /\ KeyOf(r) = KeyOf(s) =>
                                ToldItFailed(r) \/ ToldItFailed(s)
    BY DEF ChargesAreReported, ToldItFailed
  <2>1. charged \subseteq Request
        /\ \A r \in Request : Called(r) /\ Truthful(r) /\ answer[r] \in Answers
    BY DEF WaitingInv, SeparateInv, ProgressInv, Progress, TypeOK, Answers
  <2>2. ASSUME NEW r \in charged \ orders, pc[r] \in {"lookup", "price", "done"}
        PROVE  ToldItFailed(r)
    BY <2>1, <2>2 DEF Called, Truthful, Whole, ToldItFailed, Answers
  <2>3. \A r, s \in Request : PaidOnce(r, s)
    BY DEF WaitingInv
  <2>4. QED
    BY <2>1, <2>2, <2>3 DEF PaidOnce
<1>2. QED
  BY <1>1, WaitingInvariant, PTL

-----------------------------------------------------------------------------
(* What placing orders implements                                          *)

Undecided == [answer |-> "none", order |-> NoOrder]

\* r may be charged, and its order stored.
Free(r) ==
    /\ Told(r) = Undecided
    /\ ClientsWait /\ HasKey(r) => records[KeyOf(r)] = NoOrder

TellsNobody == \A t \in Request : Told(t)' = Told(t)

\* r, and nobody else, is told of an outcome.
Tells(r, a, o) ==
    /\ Told(r)' = [answer |-> a, order |-> o]
    /\ \A t \in Request \ {r} : Told(t)' = Told(t)

\* The steps of IdempotentPlacement in the terms of PlaceOrder.
LEMMA Pays ==
  ASSUME Isolated, Isolated', NEW r \in Request, Free(r), r \notin charged,
         charged' = charged \cup {r}, StoresNothing, TellsNobody
  PROVE  Placement!Pay(r)
BY DEF Free, StoresNothing, TellsNobody, Undecided, HasKey, Promised, Placement!Pay,
       Placement!Open, Placement!Keyed, Placement!NotYet

LEMMA PaysInVain ==
  ASSUME Isolated, Isolated', NEW r \in Request, Free(r), r \notin charged,
         charged' = charged \cup {r}, StoresNothing, Tells(r, "failed", NoOrder)
  PROVE  Placement!PayInVain(r)
BY DEF Free, StoresNothing, Tells, Undecided, HasKey, Promised, Placement!PayInVain,
       Placement!Open, Placement!Keyed, Placement!NotYet

LEMMA PlacesWhole ==
  ASSUME Isolated, Isolated', NEW r \in Request, Free(r), r \in charged \ orders,
         UNCHANGED charged, StoresWhole(r), TellsNobody
  PROVE  Placement!Place(r)
BY DEF Free, StoresWhole, TellsNobody, Undecided, HasKey, Promised, Placement!Place,
       Placement!Open, Placement!Keyed, Placement!NotYet

LEMMA PlacesAlone ==
  ASSUME Isolated, Isolated', NEW r \in Request, Free(r), r \in charged \ orders,
         UNCHANGED charged, StoresAlone(r), TellsNobody
  PROVE  Placement!PlaceAlone(r)
BY DEF Free, StoresAlone, TellsNobody, Undecided, HasKey, Promised, Placement!PlaceAlone,
       Placement!Open, Placement!Keyed, Placement!NotYet

LEMMA TellsTruth ==
  ASSUME Isolated, Isolated', NEW r \in Request, Told(r) = Undecided, UNCHANGED charged,
         StoresNothing,
         \/ r \in orders \cap Announced /\ Tells(r, "placed", r)
         \/ HasKey(r) /\ records[KeyOf(r)] # NoOrder /\ Tells(r, "placed", records[KeyOf(r)])
         \/ r \notin charged /\ Tells(r, "refused", NoOrder)
         \/ Tells(r, "failed", NoOrder)
  PROVE  Placement!Tell(r)
BY DEF StoresNothing, Tells, Undecided, HasKey, Promised, Placement!Tell,
       Placement!Keyed, Placement!NotYet

LEMMA NothingHappens ==
  ASSUME Isolated, Isolated', UNCHANGED charged, StoresNothing, TellsNobody
  PROVE  UNCHANGED Placement!placementVars
BY DEF StoresNothing, TellsNobody, Promised, Placement!placementVars

LEMMA NothingPromised ==
  ASSUME ~Isolated, ~Isolated' PROVE UNCHANGED Placement!placementVars
BY DEF Promised, Placement!placementVars

\* Answers are what is told.
LEMMA AnswerTells ==
  ASSUME TypeOK, NEW r \in Request, NEW a \in Answers \ {"none"}, NEW o, Answer(r, a, o)
  PROVE  /\ a \in {"placed", "reused"} => Tells(r, "placed", o)
         /\ a \in {"paymentFailed", "failed"} => Tells(r, "failed", o)
         /\ a \in {"invalid", "unauthenticated", "forbidden"} => Tells(r, "refused", o)
<1>1. /\ answer'[r] = a /\ result'[r] = o
      /\ \A t \in Request \ {r} : answer'[t] = answer[t] /\ result'[t] = result[t]
  BY DEF Answer, TypeOK
<1>2. QED
  BY <1>1 DEF Told, Tells, Answers

LEMMA UnansweredTellsNobody == UNCHANGED <<answer, result>> => TellsNobody
BY DEF TellsNobody, Told

\* A call that is under way was told nothing; and is free up to its order.
LEMMA UnderWay ==
  ASSUME WaitingInv, Isolated, NEW r \in Request, pc[r] # "done"
  PROVE  Told(r) = Undecided /\ (Unplaced(r) => Free(r))
<1>1. Called(r) /\ (ClientsWait => OneAtATime(r))
  BY DEF WaitingInv, SeparateInv, ProgressInv, Progress
<1>2. Told(r) = Undecided
  BY <1>1 DEF Called, Told, Undecided
<1>3. QED
  BY <1>1, <1>2 DEF OneAtATime, Free

LEMMA StepImplements ==
  ASSUME WaitingInv, NEW r \in Request, RequestStep(r)
  PROVE  Placement!PlacementNext \/ UNCHANGED Placement!placementVars
<1> DEFINE Implements == Placement!PlacementNext \/ UNCHANGED Placement!placementVars
<1>1. TypeOK /\ SeparateInv /\ \A t \in Request : Called(t)
  BY DEF WaitingInv, SeparateInv, ProgressInv, Progress
<1>2. Isolated' = Isolated
  BY <1>1, StepTypes, GivenNext
<1>3. CASE ~Isolated
  BY <1>2, <1>3, NothingPromised
<1>4. CASE Isolated
  <2>1. Isolated' /\ ByItself(r) /\ Truthful(r) /\ RecordsAnnounced
    BY <1>1, <1>2, <1>4 DEF SeparateInv
  <2>2. ASSUME UNCHANGED <<charged, answer, result>>, StoresNothing PROVE Implements
    BY <1>4, <2>1, <2>2, NothingHappens, UnansweredTellsNobody
  <2>3. ASSUME UNCHANGED charged, StoresNothing, Told(r) = Undecided,
               Fail(r) \/ \E a \in {"invalid", "unauthenticated", "forbidden"} :
                             Answer(r, a, NoOrder) /\ r \notin charged
        PROVE  Implements
    <3>1. Tells(r, "failed", NoOrder) \/ (r \notin charged /\ Tells(r, "refused", NoOrder))
      BY <1>1, <2>3, AnswerTells DEF Fail, Answers
    <3>2. Placement!Tell(r)
      BY <1>4, <2>1, <2>3, <3>1, TellsTruth
    <3>3. QED
      BY <3>2 DEF Placement!PlacementNext
  <2>4. CASE Commit(r) \/ Save(r)
    <3>1. UNCHANGED <<charged, answer, result>> /\ pc[r] \in {"commit", "begin"}
      BY <2>4 DEF Commit, Save
    <3>2. Free(r) /\ r \in charged
      BY <1>1, <1>4, <3>1, UnderWay DEF Unplaced, Called
    <3>3. r \notin orders
      BY <2>1, <3>1 DEF ByItself, OwnTransaction, NoTransaction
    <3>4. TellsNobody
      BY <3>1, UnansweredTellsNobody
    <3>5. CASE StoresWhole(r)
      BY <1>4, <2>1, <3>1, <3>2, <3>3, <3>4, <3>5, PlacesWhole DEF Placement!PlacementNext
    <3>6. CASE StoresAlone(r)
      BY <1>4, <2>1, <3>1, <3>2, <3>3, <3>4, <3>6, PlacesAlone DEF Placement!PlacementNext
    <3>7. QED
      BY <1>1, <1>4, <2>1, <2>2, <3>1, <3>5, <3>6, Effect
  <2>5. ASSUME ~(Commit(r) \/ Save(r)) PROVE StoresNothing
    BY <1>1, <1>4, <2>1, <2>5, Effect
  <2>6. CASE Lookup(r)
    <3>1. /\ StoresNothing /\ UNCHANGED charged /\ Told(r) = Undecided /\ r \notin charged
          /\ newRecords[r] = NoRecords
      BY <1>1, <1>4, <2>1, <2>5, <2>6, UnderWay
         DEF Lookup, Commit, Save, Called, ByItself, OwnTransaction, NoTransaction
    <3>2. ASSUME Existing(r) # NoOrder, Answer(r, "reused", Existing(r)) PROVE Implements
      <4>1. Tells(r, "placed", Existing(r))
        BY <1>1, <3>2, AnswerTells DEF Answers
      <4>2. HasKey(r) /\ Existing(r) = records[KeyOf(r)]
        BY <1>4, <3>1, <3>2, SessionsOfRequests DEF Existing, RecordSeen, NoRecords, HasKey
      <4>3. Placement!Tell(r)
        BY <1>4, <2>1, <3>1, <3>2, <4>1, <4>2, TellsTruth
      <4>4. QED
        BY <4>3 DEF Placement!PlacementNext
    <3>3. QED
      BY <2>2, <2>3, <2>6, <3>1, <3>2, DecisionType DEF Lookup, Reuse
  <2>7. CASE Price(r)
    <3>1. StoresNothing /\ UNCHANGED charged /\ Told(r) = Undecided /\ r \notin charged
      BY <1>1, <1>4, <2>5, <2>7, UnderWay DEF Price, Commit, Save, Called
    <3>2. QED
      BY <2>2, <2>3, <2>7, <3>1, DecisionType DEF Price
  <2>8. CASE Charge(r)
    <3>1. StoresNothing /\ Free(r) /\ r \notin charged
      BY <1>1, <1>4, <2>5, <2>8, UnderWay DEF Charge, Commit, Save, Called, Unplaced
    <3>2. CASE charged' = charged \cup {r} /\ UNCHANGED <<answer, result>>
      <4>1. Placement!Pay(r)
        BY <1>4, <2>1, <3>1, <3>2, Pays, UnansweredTellsNobody
      <4>2. QED
        BY <4>1 DEF Placement!PlacementNext
    <3>3. CASE Answer(r, "paymentFailed", NoOrder)
      <4>1. Tells(r, "failed", NoOrder)
        BY <1>1, <3>3, AnswerTells DEF Answers
      <4>2. CASE charged' = charged \cup {r}
        BY <1>4, <2>1, <3>1, <4>1, <4>2, PaysInVain DEF Placement!PlacementNext
      <4>3. CASE UNCHANGED charged
        BY <1>4, <2>1, <3>1, <4>1, <4>3, TellsTruth DEF Placement!PlacementNext, Free
      <4>4. QED
        BY <2>8, <3>3, <4>2, <4>3 DEF Charge
    <3>4. QED
      BY <2>8, <3>2, <3>3 DEF Charge
  <2>9. CASE Begin(r) \/ Rollback(r)
    <3>1. StoresNothing /\ UNCHANGED charged /\ Told(r) = Undecided
      BY <1>4, <2>5, <2>9, UnderWay DEF Begin, Rollback, Commit, Save
    <3>2. QED
      BY <2>2, <2>3, <2>9, <3>1 DEF Begin, Rollback
  <2>10. CASE Audit(r)
    <3>1. StoresNothing /\ UNCHANGED charged /\ Told(r) = Undecided /\ r \in orders \cap Announced
      BY <1>4, <2>1, <2>5, <2>10, UnderWay DEF Audit, Commit, Save, Truthful, Whole
    <3>2. ASSUME Answer(r, "placed", r) PROVE Implements
      <4>1. Tells(r, "placed", r)
        BY <1>1, <3>2, AnswerTells DEF Answers
      <4>2. Placement!Tell(r)
        BY <1>4, <2>1, <3>1, <4>1, TellsTruth
      <4>3. QED
        BY <4>2 DEF Placement!PlacementNext
    <3>3. QED
      BY <2>3, <2>10, <3>1, <3>2 DEF Audit
  <2>11. CASE InsertOrder(r) \/ InsertRecord(r) \/ InsertMessage(r) \/ SaveMessage(r)
    <3>1. UNCHANGED <<charged, answer, result>> /\ ~(Commit(r) \/ Save(r))
      BY <2>11 DEF InsertOrder, InsertRecord, InsertMessage, SaveMessage, Commit, Save
    <3>2. QED
      BY <2>2, <2>5, <3>1
  <2>12. QED
    BY <2>4, <2>6, <2>7, <2>8, <2>9, <2>10, <2>11 DEF RequestStep
<1>5. QED
  BY <1>3, <1>4

LEMMA InitImplements == Init => Placement!PlacementInit
BY DEF Init, Promised, Announced, NoRecords, Told, Placement!PlacementInit, Placement!NotYet

\* With sessions apart, whatever happens inside a call of placeOrder is a step of
\* IdempotentPlacement or nothing to its clients, whether they wait or not: what is
\* told is true, and when they do wait, once a key has its order nobody pays for the
\* key and the record keeps that order.
THEOREM ImplementsPlacementHolds == Spec => ImplementsPlacement
<1>1. WaitingInv /\ [Next]_vars => [Placement!PlacementNext]_(Placement!placementVars)
  <2>1. UNCHANGED vars => UNCHANGED Placement!placementVars
    BY DEF vars, given, committed, Promised, Isolated, Announced, Transactional, Told,
           Placement!placementVars
  <2>2. QED
    BY <2>1, StepImplements DEF Next, RequestStep
<1>2. WaitingInv /\ [Next]_vars => [FALSE]_<<ClientsWait, Atomic, [r \in Request |-> KeyOf(r)]>>
  <2> SUFFICES ASSUME WaitingInv, [Next]_vars
               PROVE  UNCHANGED <<ClientsWait, Atomic, [r \in Request |-> KeyOf(r)]>>
    OBVIOUS
  <2>1. UNCHANGED given
    BY StepTypes DEF WaitingInv, SeparateInv, ProgressInv, Next, RequestStep, vars
  <2>2. QED
    BY <2>1 DEF given, Atomic, KeyOf
<1>3. QED
  BY <1>1, <1>2, InitImplements, WaitingInvariant, PTL
     DEF Spec, ImplementsPlacement, Placement!PlacementSpec
===============================================================================
