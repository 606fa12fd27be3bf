-------------------------- MODULE CheckoutSagaProofs --------------------------
(***************************************************************************)
(* Proofs about CheckoutSaga for any finite number of sagas, however they  *)
(* share request ids.                                                      *)
(***************************************************************************)
EXTENDS CheckoutSaga, FiniteSetTheorems, TLAPS

-----------------------------------------------------------------------------
(* Counting sagas by request id                                            *)

Count(S, q) == Cardinality(S \cap Sharing(q))

LEMMA CountType ==
  ASSUME NEW S \in SUBSET Saga, NEW q \in RequestId
  PROVE  /\ IsFiniteSet(S \cap Sharing(q))
         /\ Count(S, q) \in Nat /\ Count(S, q) \in 0..Cardinality(Saga)
<1>1. IsFiniteSet(S \cap Sharing(q)) /\ Cardinality(S \cap Sharing(q)) <= Cardinality(Saga)
  <2>1. S \cap Sharing(q) \in SUBSET Saga
    BY DEF Sharing
  <2>2. QED
    BY <2>1, SagaAssumption, FS_Subset
<1>2. Cardinality(S \cap Sharing(q)) \in Nat /\ Cardinality(Saga) \in Nat
  BY <1>1, SagaAssumption, FS_CardinalityType
<1>3. QED
  BY <1>1, <1>2 DEF Count

LEMMA CountNone == \A q \in RequestId : Count({}, q) = 0
BY FS_EmptySet DEF Count

\* One saga more counts for its own request id only.
LEMMA CountOneMore ==
  ASSUME NEW S \in SUBSET Saga, NEW s \in Saga, s \notin S
  PROVE  /\ Count(S \cup {s}, RequestIdOf[s]) = Count(S, RequestIdOf[s]) + 1
         /\ \A q \in RequestId \ {RequestIdOf[s]} : Count(S \cup {s}, q) = Count(S, q)
<1>1. RequestIdOf[s] \in RequestId
  BY RequestIdAssumption
<1>2. (S \cup {s}) \cap Sharing(RequestIdOf[s]) = (S \cap Sharing(RequestIdOf[s])) \cup {s}
  BY DEF Sharing
<1>3. \A q \in RequestId \ {RequestIdOf[s]} : (S \cup {s}) \cap Sharing(q) = S \cap Sharing(q)
  BY DEF Sharing
<1>4. s \notin S \cap Sharing(RequestIdOf[s])
  OBVIOUS
<1>5. Cardinality((S \cap Sharing(RequestIdOf[s])) \cup {s})
        = Cardinality(S \cap Sharing(RequestIdOf[s])) + 1
  BY <1>1, <1>4, CountType, FS_AddElement
<1>6. QED
  BY <1>2, <1>3, <1>5 DEF Count

\* Fewer sagas, a lower count; and sagas of two kinds are counted apart.
LEMMA CountParts ==
  ASSUME NEW S \in SUBSET Saga, NEW T \in SUBSET Saga, NEW U \in SUBSET Saga,
         S \cap T = {}, S \cup T \subseteq U, NEW q \in RequestId
  PROVE  Count(S, q) + Count(T, q) <= Count(U, q)
<1> DEFINE X == S \cap Sharing(q)
           Y == T \cap Sharing(q)
           Z == U \cap Sharing(q)
<1>1. IsFiniteSet(X) /\ IsFiniteSet(Y) /\ IsFiniteSet(Z)
  BY CountType
<1>2. X \cap Y = {} /\ X \cup Y \in SUBSET Z
  OBVIOUS
<1> HIDE DEF X, Y, Z
<1>3. Cardinality(X \cup Y) = Cardinality(X) + Cardinality(Y)
  <2>1. Cardinality(X \cap Y) = 0
    BY <1>2, FS_EmptySet
  <2>2. Cardinality(X) \in Nat /\ Cardinality(Y) \in Nat
    BY <1>1, FS_CardinalityType
  <2>3. Cardinality(X \cup Y) = Cardinality(X) + Cardinality(Y) - Cardinality(X \cap Y)
    BY <1>1, FS_Union
  <2>4. QED
    BY <2>1, <2>2, <2>3
<1>4. Cardinality(X \cup Y) <= Cardinality(Z)
  BY <1>1, <1>2, FS_Subset
<1>5. QED
  BY <1>3, <1>4 DEF Count, X, Y, Z

-----------------------------------------------------------------------------
(* The invariant                                                           *)

Types ==
    /\ pc \in [Saga -> {"prepare", "charge", "fulfill", "refund", "auditCompensated",
                        "auditCompensationFailed", "save", "auditCompleted", "done"}]
    /\ status \in [Saga -> Entries \cup {"none", "failed", "died"}]
    /\ charges \in [RequestId -> Nat]
    /\ refunds \in [RequestId -> Nat]
    /\ shipping \subseteq Saga
    /\ lost \subseteq Saga
    /\ orders \subseteq Saga
    /\ audited \in [Saga -> SUBSET Entries]

\* The gateway has charged the sagas in C and refunded those in R.
Counted(C, R) ==
    \A q \in RequestId : charges[q] = Count(C, q) /\ refunds[q] = Count(R, q)

\* What is true of one saga, by where it is and how it ended.
Sound(s, C, R) ==
    /\ s \in R => s \in C /\ s \notin orders
    /\ s \in orders => s \in shipping
    /\ s \in shipping => s \in C
    /\ s \in R \cap shipping => s \in lost
    /\ pc[s] = "fulfill" => s \notin shipping
    /\ pc[s] = "refund" /\ s \in shipping => s \in lost
    /\ pc[s] \in {"prepare", "charge"} => s \notin C
    /\ pc[s] \in {"prepare", "charge", "fulfill", "refund", "save"} => s \notin orders \cup R
    /\ pc[s] \in {"fulfill", "refund", "auditCompensated", "auditCompensationFailed",
                  "save", "auditCompleted"} => s \in C
    /\ pc[s] \in {"save", "auditCompleted"} => s \in shipping
    /\ pc[s] = "auditCompleted" => s \in orders
    /\ pc[s] = "auditCompensated" => s \in R
    /\ pc[s] = "auditCompensationFailed" => s \notin orders
    /\ pc[s] \notin {"auditCompensationFailed", "done"} => audited[s] = {}
    /\ status[s] # "none" => pc[s] = "done"
    /\ status[s] = "completed" => s \in orders /\ audited[s] = {"completed"}
    /\ status[s] = "compensated" => s \in R /\ audited[s] = {"compensated"}
    /\ status[s] = "compensation-failed" =>
          s \notin orders /\ "compensation-failed" \in audited[s]

\* Nobody keeps the sets C and R: the gateway only counts.
Booked == \E C, R \in SUBSET Saga : Counted(C, R) /\ \A s \in Saga : Sound(s, C, R)

SagaInv == Types /\ Booked

LEMMA InitInv == Init => SagaInv
<1> SUFFICES ASSUME Init PROVE SagaInv
  OBVIOUS
<1>1. Types
  BY DEF Init, Types, Entries
<1>2. Counted({}, {})
  BY CountNone DEF Init, Counted
<1>3. \A s \in Saga : Sound(s, {}, {})
  BY DEF Init, Sound
<1>4. QED
  BY <1>1, <1>2, <1>3 DEF SagaInv, Booked

-----------------------------------------------------------------------------
(* A step of one saga                                                      *)

SagaStep(s) ==
    \/ Prepare(s) \/ Charge(s) \/ Fulfill(s)
    \/ Refund(s) \/ AuditCompensated(s) \/ AuditCompensationFailed(s)
    \/ Save(s) \/ AuditCompleted(s)

\* A saga leaves the progress, the goods, the order and the entries of the others alone.
LEMMA OthersKeep ==
  ASSUME Types, NEW s \in Saga, SagaStep(s), NEW t \in Saga \ {s}
  PROVE  /\ pc'[t] = pc[t] /\ status'[t] = status[t] /\ audited'[t] = audited[t]
         /\ (t \in shipping' <=> t \in shipping) /\ (t \in lost' <=> t \in lost)
         /\ (t \in orders' <=> t \in orders)
BY DEF Types, SagaStep, Prepare, Charge, Fulfill, Refund, AuditCompensated,
       AuditCompensationFailed, Save, AuditCompleted, Goto, Answer, Throw, Die, Append

LEMMA StepTypes ==
  ASSUME Types, NEW s \in Saga, SagaStep(s) PROVE Types'
<1>1. RequestIdOf[s] \in RequestId
  BY RequestIdAssumption
<1>2. ASSUME NEW f \in [RequestId -> Nat]
      PROVE  [f EXCEPT ![RequestIdOf[s]] = @ + 1] \in [RequestId -> Nat]
  BY <1>1
<1>3. charges' \in [RequestId -> Nat] /\ refunds' \in [RequestId -> Nat]
  BY <1>2 DEF Types, SagaStep, Prepare, Charge, Fulfill, Refund, AuditCompensated,
              AuditCompensationFailed, Save, AuditCompleted, Charged, Refunded
<1>4. /\ pc' \in [Saga -> {"prepare", "charge", "fulfill", "refund", "auditCompensated",
                           "auditCompensationFailed", "save", "auditCompleted", "done"}]
      /\ status' \in [Saga -> Entries \cup {"none", "failed", "died"}]
  BY DEF Types, SagaStep, Prepare, Charge, Fulfill, Refund, AuditCompensated,
         AuditCompensationFailed, Save, AuditCompleted, Goto, Answer, Throw, Die, Entries
<1>5. /\ shipping' \subseteq Saga /\ lost' \subseteq Saga /\ orders' \subseteq Saga
      /\ audited' \in [Saga -> SUBSET Entries]
  BY DEF Types, SagaStep, Prepare, Charge, Fulfill, Refund, AuditCompensated,
         AuditCompensationFailed, Save, AuditCompleted, Append, Entries
<1>6. QED
  BY <1>3, <1>4, <1>5 DEF Types

\* The books after a step: the step adds its saga to those charged, to those
\* refunded, or to neither.
LEMMA BooksKept ==
  ASSUME Types, NEW s \in Saga, SagaStep(s),
         NEW C \in SUBSET Saga, NEW R \in SUBSET Saga,
         Counted(C, R), \A t \in Saga : Sound(t, C, R),
         NEW D \in SUBSET Saga, NEW Q \in SUBSET Saga,
         C \subseteq D, D \subseteq C \cup {s}, R \subseteq Q, Q \subseteq R \cup {s},
         Counted(D, Q)', Sound(s, D, Q)'
  PROVE  Booked'
<1>1. \A t \in Saga \ {s} : Sound(t, D, Q)'
  BY OthersKeep DEF Sound
<1>2. QED
  BY <1>1 DEF Booked

\* Which sagas share a request id does not change.
LEMMA CountedNext ==
  ASSUME NEW C, NEW R
  PROVE  Counted(C, R)' <=>
           \A q \in RequestId : charges'[q] = Count(C, q) /\ refunds'[q] = Count(R, q)
BY DEF Counted, Count, Sharing

LEMMA ChargeCounted ==
  ASSUME Types, NEW s \in Saga, NEW C \in SUBSET Saga, NEW R \in SUBSET Saga,
         Counted(C, R), s \notin C, Charged(s), UNCHANGED refunds
  PROVE  Counted(C \cup {s}, R)'
<1>1. RequestIdOf[s] \in RequestId
  BY RequestIdAssumption
<1>2. charges'[RequestIdOf[s]] = Count(C \cup {s}, RequestIdOf[s])
  <2>1. Count(C \cup {s}, RequestIdOf[s]) = Count(C, RequestIdOf[s]) + 1
    BY CountOneMore
  <2>2. QED
    BY <1>1, <2>1 DEF Counted, Charged, Types
<1>3. \A q \in RequestId \ {RequestIdOf[s]} : charges'[q] = Count(C \cup {s}, q)
  <2>1. \A q \in RequestId \ {RequestIdOf[s]} : Count(C \cup {s}, q) = Count(C, q)
    BY CountOneMore
  <2>2. QED
    BY <1>1, <2>1 DEF Counted, Charged, Types
<1>4. QED
  BY <1>2, <1>3, CountedNext DEF Counted

LEMMA RefundCounted ==
  ASSUME Types, NEW s \in Saga, NEW C \in SUBSET Saga, NEW R \in SUBSET Saga,
         Counted(C, R), s \notin R, Refunded(s), UNCHANGED charges
  PROVE  Counted(C, R \cup {s})'
<1>1. RequestIdOf[s] \in RequestId
  BY RequestIdAssumption
<1>2. refunds'[RequestIdOf[s]] = Count(R \cup {s}, RequestIdOf[s])
  <2>1. Count(R \cup {s}, RequestIdOf[s]) = Count(R, RequestIdOf[s]) + 1
    BY CountOneMore
  <2>2. QED
    BY <1>1, <2>1 DEF Counted, Refunded, Types
<1>3. \A q \in RequestId \ {RequestIdOf[s]} : refunds'[q] = Count(R \cup {s}, q)
  <2>1. \A q \in RequestId \ {RequestIdOf[s]} : Count(R \cup {s}, q) = Count(R, q)
    BY CountOneMore
  <2>2. QED
    BY <1>1, <2>1 DEF Counted, Refunded, Types
<1>4. QED
  BY <1>2, <1>3, CountedNext DEF Counted

LEMMA CountsStay ==
  ASSUME NEW C, NEW R, Counted(C, R), UNCHANGED <<charges, refunds>>
  PROVE  Counted(C, R)'
BY CountedNext DEF Counted

LEMMA StepBooked ==
  ASSUME Types, Booked, NEW s \in Saga, SagaStep(s) PROVE Booked'
<1>1. PICK C \in SUBSET Saga, R \in SUBSET Saga :
        Counted(C, R) /\ \A t \in Saga : Sound(t, C, R)
  BY DEF Booked
<1>2. Sound(s, C, R)
  BY <1>1
<1>3. CASE Prepare(s)
  <2>1. Counted(C, R)'
    BY <1>1, <1>3, CountsStay DEF Prepare
  <2>2. Sound(s, C, R)'
    BY <1>2, <1>3 DEF Prepare, Types, Sound, Goto, Answer, Throw, Die
  <2>3. QED
    BY <1>1, <2>1, <2>2, BooksKept
<1>4. CASE Charge(s)
  <2>1. CASE Charged(s)
    <3>1. Counted(C \cup {s}, R)'
      BY <1>1, <1>2, <1>4, <2>1, ChargeCounted DEF Charge, Sound
    <3>2. Sound(s, C \cup {s}, R)'
      BY <1>2, <1>4 DEF Charge, Types, Sound, Goto, Answer, Throw, Die
    <3>3. QED
      BY <1>1, <3>1, <3>2, BooksKept
  <2>2. CASE UNCHANGED charges /\ (Throw(s) \/ Die(s))
    <3>1. Counted(C, R)'
      BY <1>1, <1>4, <2>2, CountsStay DEF Charge
    <3>2. Sound(s, C, R)'
      BY <1>2, <1>4, <2>2 DEF Charge, Types, Sound, Answer, Throw, Die
    <3>3. QED
      BY <1>1, <3>1, <3>2, BooksKept
  <2>3. QED
    BY <1>4, <2>1, <2>2 DEF Charge
<1>5. CASE Fulfill(s)
  <2>1. Counted(C, R)'
    BY <1>1, <1>5, CountsStay DEF Fulfill
  <2>2. Sound(s, C, R)'
    BY <1>2, <1>5 DEF Fulfill, Types, Sound, Goto, Answer, Die
  <2>3. QED
    BY <1>1, <2>1, <2>2, BooksKept
<1>6. CASE Refund(s)
  <2>1. CASE Refunded(s)
    <3>1. Counted(C, R \cup {s})'
      BY <1>1, <1>2, <1>6, <2>1, RefundCounted DEF Refund, Sound
    <3>2. Sound(s, C, R \cup {s})'
      BY <1>2, <1>6 DEF Refund, Types, Sound, Goto, Answer, Die
    <3>3. QED
      BY <1>1, <3>1, <3>2, BooksKept
  <2>2. CASE UNCHANGED refunds /\ (Goto(s, "auditCompensationFailed") \/ Die(s))
    <3>1. Counted(C, R)'
      BY <1>1, <1>6, <2>2, CountsStay DEF Refund
    <3>2. Sound(s, C, R)'
      BY <1>2, <1>6, <2>2 DEF Refund, Types, Sound, Goto, Answer, Die
    <3>3. QED
      BY <1>1, <3>1, <3>2, BooksKept
  <2>3. QED
    BY <1>6, <2>1, <2>2 DEF Refund
<1>7. CASE AuditCompensated(s)
  <2>1. Counted(C, R)'
    BY <1>1, <1>7, CountsStay DEF AuditCompensated
  <2>2. Sound(s, C, R)'
    BY <1>2, <1>7 DEF AuditCompensated, Types, Sound, Goto, Answer, Die, Append
  <2>3. QED
    BY <1>1, <2>1, <2>2, BooksKept
<1>8. CASE AuditCompensationFailed(s)
  <2>1. Counted(C, R)'
    BY <1>1, <1>8, CountsStay DEF AuditCompensationFailed
  <2>2. Sound(s, C, R)'
    BY <1>2, <1>8 DEF AuditCompensationFailed, Types, Sound, Answer, Throw, Die, Append
  <2>3. QED
    BY <1>1, <2>1, <2>2, BooksKept
<1>9. CASE Save(s)
  <2>1. Counted(C, R)'
    BY <1>1, <1>9, CountsStay DEF Save
  <2>2. Sound(s, C, R)'
    BY <1>2, <1>9 DEF Save, Types, Sound, Goto, Answer, Throw, Die
  <2>3. QED
    BY <1>1, <2>1, <2>2, BooksKept
<1>10. CASE AuditCompleted(s)
  <2>1. Counted(C, R)'
    BY <1>1, <1>10, CountsStay DEF AuditCompleted
  <2>2. Sound(s, C, R)'
    BY <1>2, <1>10 DEF AuditCompleted, Types, Sound, Answer, Throw, Die, Append
  <2>3. QED
    BY <1>1, <2>1, <2>2, BooksKept
<1>11. QED
  BY <1>3, <1>4, <1>5, <1>6, <1>7, <1>8, <1>9, <1>10 DEF SagaStep

LEMMA NextInv == SagaInv /\ [Next]_vars => SagaInv'
<1> SUFFICES ASSUME SagaInv, [Next]_vars PROVE SagaInv'
  OBVIOUS
<1>1. ASSUME NEW s \in Saga, SagaStep(s) PROVE SagaInv'
  BY <1>1, StepTypes, StepBooked DEF SagaInv
<1>2. CASE UNCHANGED vars
  <2>1. Types'
    BY <1>2 DEF vars, SagaInv, Types
  <2>2. PICK C \in SUBSET Saga, R \in SUBSET Saga :
          Counted(C, R) /\ \A t \in Saga : Sound(t, C, R)
    BY DEF SagaInv, Booked
  <2>3. Counted(C, R)'
    BY <1>2, <2>2, CountsStay DEF vars
  <2>4. \A t \in Saga : Sound(t, C, R)'
    BY <1>2, <2>2 DEF vars, Sound
  <2>5. QED
    BY <2>1, <2>3, <2>4 DEF SagaInv, Booked
<1>3. QED
  BY <1>1, <1>2 DEF Next, SagaStep

LEMMA SagaInvariant == Spec => []SagaInv
BY InitInv, NextInv, PTL DEF Spec

-----------------------------------------------------------------------------
(* What it implies                                                         *)

\* Every reachable state is well typed: no request id is charged or refunded more
\* often than there are sagas.
THEOREM TypeCorrect == Spec => []TypeOK
<1>1. SagaInv => TypeOK
  BY CountType DEF SagaInv, Types, Booked, Counted, TypeOK
<1>2. QED
  BY <1>1, SagaInvariant, PTL

\* However many sagas share a request id, lose replies and die: what is stored and
\* what was refunded has been charged, each for itself.
THEOREM OrdersArePaidForHolds == Spec => []OrdersArePaidFor
<1>1. ASSUME SagaInv, NEW q \in RequestId
      PROVE  Cardinality(orders \cap Sharing(q)) + refunds[q] <= charges[q]
  <2>1. PICK C \in SUBSET Saga, R \in SUBSET Saga :
          Counted(C, R) /\ \A t \in Saga : Sound(t, C, R)
    BY <1>1 DEF SagaInv, Booked
  <2>2. orders \in SUBSET Saga /\ orders \cap R = {} /\ orders \cup R \subseteq C
    BY <1>1, <2>1 DEF SagaInv, Types, Sound
  <2>3. Count(orders, q) + Count(R, q) <= Count(C, q)
    BY <2>2, CountParts
  <2>4. QED
    BY <2>1, <2>3 DEF Counted, Count
<1>2. SagaInv => OrdersArePaidFor
  BY <1>1 DEF OrdersArePaidFor
<1>3. QED
  BY <1>2, SagaInvariant, PTL

\* Goods leave for charged sagas only, and orders are stored for goods that leave.
\* The refund of a saga whose goods left is a second use of its charge only where the
\* reply of the warehouse was lost.
THEOREM ShippedIsPaidHolds == Spec => []ShippedIsPaid
<1>1. ASSUME SagaInv, NEW q \in RequestId
      PROVE  /\ Cardinality(shipping \cap Sharing(q)) <= charges[q]
             /\ Cardinality((shipping \ lost) \cap Sharing(q)) + refunds[q] <= charges[q]
  <2>1. PICK C \in SUBSET Saga, R \in SUBSET Saga :
          Counted(C, R) /\ \A t \in Saga : Sound(t, C, R)
    BY <1>1 DEF SagaInv, Booked
  <2>2. /\ shipping \in SUBSET Saga /\ shipping \ lost \in SUBSET Saga
        /\ shipping \cap {} = {} /\ shipping \cup {} \subseteq C
        /\ (shipping \ lost) \cap R = {} /\ (shipping \ lost) \cup R \subseteq C
    BY <1>1, <2>1 DEF SagaInv, Types, Sound
  <2>3. /\ Count(shipping, q) + Count({}, q) <= Count(C, q)
        /\ Count(shipping \ lost, q) + Count(R, q) <= Count(C, q)
    BY <2>2, CountParts
  <2>4. Count({}, q) = 0 /\ Count(shipping, q) \in Nat
    BY <2>2, CountNone, CountType
  <2>5. charges[q] = Count(C, q) /\ charges[q] \in Nat /\ refunds[q] = Count(R, q)
    BY <1>1, <2>1 DEF Counted, SagaInv, Types
  <2>6. QED
    BY <2>3, <2>4, <2>5 DEF Count
<1>2. SagaInv => orders \subseteq shipping
  BY DEF SagaInv, Types, Booked, Sound
<1>3. SagaInv => ShippedIsPaid
  BY <1>1, <1>2 DEF ShippedIsPaid
<1>4. QED
  BY <1>3, SagaInvariant, PTL

\* What a saga reports is true of the gateway, of the warehouse, of the database and
\* of the audit log, also when others share its request id.
THEOREM StatusIsTrueHolds == Spec => []StatusIsTrue
<1>1. ASSUME SagaInv, NEW s \in Saga, status[s] = "completed"
      PROVE  /\ charges[RequestIdOf[s]] > 0
             /\ s \in shipping \cap orders
             /\ audited[s] = {"completed"}
  <2> DEFINE q == RequestIdOf[s]
  <2>1. PICK C \in SUBSET Saga, R \in SUBSET Saga :
          Counted(C, R) /\ \A t \in Saga : Sound(t, C, R)
    BY <1>1 DEF SagaInv, Booked
  <2>2. s \in C /\ s \in shipping \cap orders /\ audited[s] = {"completed"}
    BY <1>1, <2>1 DEF Sound
  <2>3. q \in RequestId /\ s \in C \cap Sharing(q) /\ IsFiniteSet(C \cap Sharing(q))
    BY <2>2, RequestIdAssumption, CountType DEF Sharing
  <2>4. Cardinality(C \cap Sharing(q)) # 0 /\ Cardinality(C \cap Sharing(q)) \in Nat
    BY <2>3, FS_EmptySet, FS_CardinalityType
  <2>5. charges[q] = Count(C, q) /\ charges[q] \in Nat
    BY <1>1, <2>1, <2>3 DEF Counted, SagaInv, Types
  <2>6. charges[q] > 0
    BY <2>4, <2>5 DEF Count
  <2>7. QED
    BY <2>2, <2>6
<1>2. ASSUME SagaInv, NEW s \in Saga, status[s] = "compensated"
      PROVE  /\ Cardinality({t \in Sharing(RequestIdOf[s]) : status[t] = "compensated"})
                    <= refunds[RequestIdOf[s]]
             /\ s \notin orders
             /\ audited[s] = {"compensated"}
  <2> DEFINE q == RequestIdOf[s]
             T == {t \in Sharing(q) : status[t] = "compensated"}
  <2>1. PICK C \in SUBSET Saga, R \in SUBSET Saga :
          Counted(C, R) /\ \A t \in Saga : Sound(t, C, R)
    BY <1>2 DEF SagaInv, Booked
  <2>2. q \in RequestId /\ IsFiniteSet(R \cap Sharing(q))
    BY RequestIdAssumption, CountType
  <2>3. T \in SUBSET (R \cap Sharing(q))
    BY <2>1 DEF Sound, Sharing
  <2>4. Cardinality(T) <= Cardinality(R \cap Sharing(q))
    BY <2>2, <2>3, FS_Subset
  <2>5. QED
    BY <1>2, <2>1, <2>2, <2>4 DEF Counted, Count, Sound
<1>3. ASSUME SagaInv, NEW s \in Saga, status[s] = "compensation-failed"
      PROVE  s \notin orders /\ "compensation-failed" \in audited[s]
  BY <1>3 DEF SagaInv, Booked, Sound
<1>4. SagaInv => StatusIsTrue
  BY <1>1, <1>2, <1>3 DEF StatusIsTrue
<1>5. QED
  BY <1>4, SagaInvariant, PTL
===============================================================================
