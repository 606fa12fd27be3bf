------------------------- MODULE DeliveryWorkerProofs -------------------------
(***************************************************************************)
(* Proofs about DeliveryWorker: with ids of their own no trigger is lost,  *)
(* and none is in two places, for any workers, triggers and failures.      *)
(***************************************************************************)
EXTENDS DeliveryWorker, FiniteSetTheorems, TLAPS

\* Callers give every trigger an id, and no two the same.
DistinctIds ==
    /\ \A t \in Trigger : GivenId[t] # 0
    /\ \A t, u \in Trigger : GivenId[t] = GivenId[u] => t = u

InHand == {job[w] : w \in Worker} \ {NoTrigger}

\* A trigger keeps the id it was given, and the map of those in flight holds the
\* triggers that workers have in hand, all of them, each under its id.
MapIsTrue ==
    /\ \A t \in Arrived : idOf[t] = GivenId[t]
    /\ \A t \in Trigger, n \in Nat :
          <<n, t>> \in inFlight <=> t \in InHand /\ n = idOf[t]
    /\ Waiting \cup processed \cup InHand \subseteq Arrived

WorkerInv == TypeOK /\ MapIsTrue /\ OnePlace /\ NothingLost

-----------------------------------------------------------------------------
(* Queues                                                                  *)

\* Appending an element adds just it, and keeps a queue without repetition so.
LEMMA AppendToQueue ==
  ASSUME NEW S, NEW q \in Seq(S), NEW e \in S
  PROVE  /\ Append(q, e) \in Seq(S)
         /\ \A x : (\E i \in DOMAIN Append(q, e) : Append(q, e)[i] = x)
                     <=> x = e \/ \E i \in DOMAIN q : q[i] = x
         /\ (\A i, j \in DOMAIN q : q[i] = q[j] => i = j) /\ (\A i \in DOMAIN q : q[i] # e)
              => \A i, j \in DOMAIN Append(q, e) :
                    Append(q, e)[i] = Append(q, e)[j] => i = j
<1>1. /\ Append(q, e) \in Seq(S)
      /\ DOMAIN q = 1..Len(q) /\ Len(q) \in Nat
      /\ DOMAIN Append(q, e) = 1..(Len(q) + 1)
      /\ \A i \in 1..Len(q) : Append(q, e)[i] = q[i]
      /\ Append(q, e)[Len(q) + 1] = e
  OBVIOUS
<1>2. ASSUME NEW x
      PROVE  (\E i \in DOMAIN Append(q, e) : Append(q, e)[i] = x)
                <=> x = e \/ \E i \in DOMAIN q : q[i] = x
  <2>1. \A i \in 1..(Len(q) + 1) : i \in 1..Len(q) \/ i = Len(q) + 1
    BY <1>1
  <2>2. Len(q) + 1 \in 1..(Len(q) + 1) /\ 1..Len(q) \subseteq 1..(Len(q) + 1)
    BY <1>1
  <2>3. QED
    BY <1>1, <2>1, <2>2
<1>3. ASSUME \A i, j \in DOMAIN q : q[i] = q[j] => i = j, \A i \in DOMAIN q : q[i] # e,
             NEW i \in DOMAIN Append(q, e), NEW j \in DOMAIN Append(q, e),
             Append(q, e)[i] = Append(q, e)[j]
      PROVE  i = j
  <2>1. (i \in 1..Len(q) \/ i = Len(q) + 1) /\ (j \in 1..Len(q) \/ j = Len(q) + 1)
    BY <1>1
  <2>2. QED
    BY <1>1, <1>3, <2>1
<1>4. QED
  BY <1>1, <1>2, <1>3

\* Taking the head takes just it, when the queue has no repetition.
LEMMA TailOfQueue ==
  ASSUME NEW S, NEW q \in Seq(S), q # <<>>,
         \A i, j \in DOMAIN q : q[i] = q[j] => i = j
  PROVE  /\ Head(q) \in S /\ Tail(q) \in Seq(S)
         /\ \A x : (\E i \in DOMAIN Tail(q) : Tail(q)[i] = x)
                     <=> x # Head(q) /\ \E i \in DOMAIN q : q[i] = x
         /\ \E i \in DOMAIN q : q[i] = Head(q)
         /\ \A i, j \in DOMAIN Tail(q) : Tail(q)[i] = Tail(q)[j] => i = j
<1>1. /\ Len(q) \in Nat \ {0} /\ DOMAIN q = 1..Len(q)
      /\ Tail(q) \in Seq(S) /\ Head(q) = q[1] /\ Head(q) \in S
      /\ DOMAIN Tail(q) = 1..(Len(q) - 1)
      /\ \A i \in 1..(Len(q) - 1) : Tail(q)[i] = q[i + 1]
  OBVIOUS
<1>2. ASSUME NEW x
      PROVE  (\E i \in DOMAIN Tail(q) : Tail(q)[i] = x)
                <=> x # Head(q) /\ \E i \in DOMAIN q : q[i] = x
  <2>1. ASSUME NEW i \in DOMAIN Tail(q), Tail(q)[i] = x
        PROVE  x # Head(q) /\ \E k \in DOMAIN q : q[k] = x
    <3>1. i + 1 \in DOMAIN q /\ i + 1 # 1 /\ 1 \in DOMAIN q /\ q[i + 1] = x
      BY <1>1, <2>1
    <3>2. QED
      BY <1>1, <3>1
  <2>2. ASSUME x # Head(q), NEW k \in DOMAIN q, q[k] = x
        PROVE  \E i \in DOMAIN Tail(q) : Tail(q)[i] = x
    <3>1. k # 1
      BY <1>1, <2>2
    <3>2. k - 1 \in DOMAIN Tail(q) /\ Tail(q)[k - 1] = x
      BY <1>1, <2>2, <3>1
    <3>3. QED
      BY <3>2
  <2>3. QED
    BY <2>1, <2>2
<1>3. \E i \in DOMAIN q : q[i] = Head(q)
  BY <1>1
<1>4. ASSUME NEW i \in DOMAIN Tail(q), NEW j \in DOMAIN Tail(q), Tail(q)[i] = Tail(q)[j]
      PROVE  i = j
  <2>1. i + 1 \in DOMAIN q /\ j + 1 \in DOMAIN q /\ q[i + 1] = q[j + 1]
    BY <1>1, <1>4
  <2>2. i + 1 = j + 1
    BY <2>1
  <2>3. QED
    BY <1>1, <2>2
<1>5. QED
  BY <1>1, <1>2, <1>3, <1>4

-----------------------------------------------------------------------------
(* Types                                                                   *)

\* An id that the consumer makes up is a number because the map is finite.
TypeInv == TypeOK /\ IsFiniteSet(inFlight)

LEMMA InitTypes == Init => TypeInv
BY FailureAssumption, FS_EmptySet DEF Init, TypeInv, TypeOK

\* Every step keeps the types.
LEMMA NextTypes == TypeInv /\ [Next]_vars => TypeInv'
<1> SUFFICES ASSUME TypeInv, [Next]_vars PROVE TypeInv'
  OBVIOUS
<1> USE DEF TypeInv
<1>1. ASSUME NEW t \in Trigger, Enqueue(t) PROVE TypeInv'
  <2>1. NewId(t) \in Nat
    <3>1. Cardinality(inFlight) \in Nat /\ Len(pendingTriggers) \in Nat
      BY FS_CardinalityType DEF TypeOK
    <3>2. QED
      BY <3>1, IdAssumption DEF NewId
  <2>2. Append(pendingTriggers, t) \in Seq(Trigger)
    BY DEF TypeOK
  <2>3. QED
    BY <1>1, <2>1, <2>2 DEF Enqueue, TypeOK
<1>2. ASSUME NEW w \in Worker, Reserve(w) PROVE TypeInv'
  <2>1. Head(pendingTriggers) \in Trigger /\ Tail(pendingTriggers) \in Seq(Trigger)
    BY <1>2 DEF Reserve, TypeOK
  <2>2. IsFiniteSet(inFlight')
    BY <1>2, FS_Subset, FS_AddElement DEF Reserve, Without
  <2>3. QED
    BY <1>2, <2>1, <2>2, TriggerAssumption DEF Reserve, Without, TypeOK
<1>3. ASSUME NEW w \in Worker, Poll(w) PROVE TypeInv'
  <2>1. failures' \in 0..MaxFailures
    BY <1>3, FailureAssumption DEF Poll, TypeOK
  <2>2. /\ pc' \in [Worker -> {"idle", "poll", "acknowledge", "release"}]
        /\ \A v \in Worker : pc'[v] = "idle" <=> pc[v] = "idle"
    BY <1>3 DEF Poll, TypeOK
  <2>3. QED
    BY <1>3, <2>1, <2>2 DEF Poll, queue, TypeOK
<1>4. ASSUME NEW w \in Worker, Acknowledge(w) PROVE TypeInv'
  <2>1. job[w] \in Trigger
    BY <1>4 DEF Acknowledge, TypeOK
  <2>2. IsFiniteSet(inFlight')
    BY <1>4, FS_Subset DEF Acknowledge, Without
  <2>3. QED
    BY <1>4, <2>1, <2>2 DEF Acknowledge, Finish, Without, TypeOK
<1>5. ASSUME NEW w \in Worker, Release(w) PROVE TypeInv'
  <2>1. inFlight' \subseteq inFlight
    BY <1>5 DEF Release, Without, queue
  <2>2. pendingTriggers' \in Seq(Trigger)
    <3>1. pendingTriggers' = pendingTriggers
            \/ \E t \in Trigger : pendingTriggers' = Append(pendingTriggers, t)
      BY <1>5 DEF Release, queue
    <3>2. pendingTriggers \in Seq(Trigger)
      BY DEF TypeOK
    <3>3. \A t \in Trigger : Append(pendingTriggers, t) \in Seq(Trigger)
      BY <3>2, AppendToQueue
    <3>4. QED
      BY <3>1, <3>2, <3>3
  <2>3. IsFiniteSet(inFlight')
    BY <2>1, FS_Subset
  <2>4. QED
    BY <1>5, <2>1, <2>2, <2>3 DEF Release, Finish, TypeOK
<1>6. CASE UNCHANGED vars
  BY <1>6 DEF vars, queue, TypeOK
<1>7. QED
  BY <1>1, <1>2, <1>3, <1>4, <1>5, <1>6 DEF Next, WorkerStep

\* Whatever ids callers give, every reachable state of queue, map and workers is
\* well typed.
THEOREM TypeCorrect == Spec => []TypeOK
<1>1. TypeInv => TypeOK
  BY DEF TypeInv
<1>2. QED
  BY <1>1, InitTypes, NextTypes, PTL DEF Spec

-----------------------------------------------------------------------------
(* Nothing is lost, and nothing doubled                                    *)

NoRepetition ==
    \A i, j \in DOMAIN pendingTriggers : pendingTriggers[i] = pendingTriggers[j] => i = j

LEMMA PutBack ==
  ASSUME TypeOK, NEW t \in Trigger, pendingTriggers' = Append(pendingTriggers, t),
         NoRepetition, t \notin Waiting
  PROVE  Waiting' = Waiting \cup {t} /\ NoRepetition'
<1>1. pendingTriggers \in Seq(Trigger) /\ \A i \in DOMAIN pendingTriggers : pendingTriggers[i] # t
  BY DEF TypeOK, Waiting
<1>2. \A x : x \in Waiting' <=> x = t \/ x \in Waiting
  <2>1. \A x : (\E i \in DOMAIN pendingTriggers' : pendingTriggers'[i] = x)
                 <=> x = t \/ \E i \in DOMAIN pendingTriggers : pendingTriggers[i] = x
    BY <1>1, AppendToQueue
  <2>2. QED
    BY <2>1 DEF Waiting
<1>3. NoRepetition'
  BY <1>1, AppendToQueue DEF NoRepetition
<1>4. QED
  BY <1>2, <1>3

LEMMA TakenOut ==
  ASSUME TypeOK, pendingTriggers # <<>>, pendingTriggers' = Tail(pendingTriggers),
         NoRepetition
  PROVE  /\ Head(pendingTriggers) \in Waiting
         /\ Waiting' = Waiting \ {Head(pendingTriggers)}
         /\ NoRepetition'
<1>1. pendingTriggers \in Seq(Trigger)
  BY DEF TypeOK
<1>2. /\ \E i \in DOMAIN pendingTriggers : pendingTriggers[i] = Head(pendingTriggers)
      /\ \A x : (\E i \in DOMAIN pendingTriggers' : pendingTriggers'[i] = x)
                   <=> /\ x # Head(pendingTriggers)
                       /\ \E i \in DOMAIN pendingTriggers : pendingTriggers[i] = x
  BY <1>1, TailOfQueue DEF NoRepetition
<1>3. \A x : x \in Waiting' <=> x # Head(pendingTriggers) /\ x \in Waiting
  <2>1. \A x : /\ x \in Waiting <=> \E i \in DOMAIN pendingTriggers : pendingTriggers[i] = x
               /\ x \in Waiting' <=> \E i \in DOMAIN pendingTriggers' : pendingTriggers'[i] = x
    BY DEF Waiting
  <2>2. QED
    BY <1>2, <2>1
<1>4. NoRepetition'
  BY <1>1, TailOfQueue DEF NoRepetition
<1>5. QED
  BY <1>2, <1>3, <1>4 DEF Waiting

LEMMA InitWorkerInv == Init => WorkerInv
BY InitTypes DEF TypeInv, Init, WorkerInv, MapIsTrue, OnePlace, NothingLost, Arrived, Waiting, InHand

\* What worker w has in hand is one trigger, and when w lets it go no worker has it.
LEMMA LetGo ==
  ASSUME TypeOK, OnePlace, NEW w \in Worker, job[w] # NoTrigger, Finish(w)
  PROVE  /\ job[w] \in Trigger /\ job[w] \in InHand
         /\ InHand' = InHand \ {job[w]}
         /\ \A v \in Worker : job'[v] = IF v = w THEN NoTrigger ELSE job[v]
<1>1. \A v \in Worker : job'[v] = IF v = w THEN NoTrigger ELSE job[v]
  BY DEF Finish, TypeOK
<1>2. \A v \in Worker : v # w => job[v] # job[w]
  BY DEF OnePlace
<1>3. QED
  BY <1>1, <1>2 DEF InHand, TypeOK

\* Only the entry of the trigger that was let go leaves the map.
LEMMA EntryRemoved ==
  ASSUME DistinctIds, TypeOK, MapIsTrue, NEW u \in InHand, u \in Trigger
  PROVE  \A t \in Trigger, n \in Nat :
            <<n, t>> \in Without(idOf[u]) <=> t \in InHand \ {u} /\ n = idOf[t]
<1>1. \A t \in InHand : t \in Arrived /\ idOf[t] = GivenId[t]
  BY DEF MapIsTrue
<1>2. \A t \in InHand : idOf[t] = idOf[u] => t = u
  BY <1>1 DEF DistinctIds, Arrived
<1>3. ASSUME NEW t \in Trigger, NEW n \in Nat
      PROVE  <<n, t>> \in Without(idOf[u]) <=> t \in InHand \ {u} /\ n = idOf[t]
  BY <1>2 DEF Without, MapIsTrue
<1>4. QED
  BY <1>3

LEMMA EnqueueKeepsInv ==
  ASSUME DistinctIds, WorkerInv, TypeOK', NEW t \in Trigger, Enqueue(t)
  PROVE  WorkerInv'
<1> USE DEF WorkerInv
<1>1. t \notin Arrived /\ Arrived' = Arrived \cup {t} /\ idOf'[t] = GivenId[t]
      /\ \A u \in Trigger \ {t} : idOf'[u] = idOf[u]
  BY DEF Enqueue, NewId, DistinctIds, Arrived, TypeOK
<1>2. t \notin Waiting \cup processed \cup InHand
  BY <1>1 DEF MapIsTrue
<1>3. Waiting' = Waiting \cup {t} /\ NoRepetition'
  BY <1>2, PutBack DEF Enqueue, OnePlace, NoRepetition
<1>4. InHand' = InHand
  BY DEF Enqueue, InHand
<1>5. MapIsTrue'
  BY <1>1, <1>2, <1>3, <1>4 DEF Enqueue, MapIsTrue
<1>6. OnePlace'
  BY <1>2, <1>3, TriggerAssumption DEF Enqueue, OnePlace, NoRepetition, InHand
<1>7. NothingLost'
  BY <1>1, <1>3 DEF Enqueue, NothingLost
<1>8. QED
  BY <1>5, <1>6, <1>7

LEMMA ReserveKeepsInv ==
  ASSUME DistinctIds, WorkerInv, TypeOK', NEW w \in Worker, Reserve(w)
  PROVE  WorkerInv'
<1> USE DEF WorkerInv
<1> DEFINE t == Head(pendingTriggers)
<1>1. t \in Waiting /\ Waiting' = Waiting \ {t} /\ NoRepetition'
  BY TakenOut DEF Reserve, OnePlace, NoRepetition
<1>2. t \in Trigger /\ t \in Arrived /\ t \notin processed /\ t \notin InHand
  BY <1>1 DEF MapIsTrue, OnePlace, InHand, Arrived
<1>3. job[w] = NoTrigger /\ \A v \in Worker : job'[v] = IF v = w THEN t ELSE job[v]
  BY DEF Reserve, TypeOK
<1>4. InHand' = InHand \cup {t}
  BY <1>2, <1>3, TriggerAssumption DEF InHand
<1>5. \A u \in InHand : u \in Arrived /\ idOf[u] # idOf[t]
  BY <1>2 DEF MapIsTrue, DistinctIds, Arrived
<1>6. inFlight' = Without(idOf[t]) \cup {<<idOf[t], t>>}
  BY DEF Reserve
<1>7. ASSUME NEW u \in Trigger, NEW n \in Nat
      PROVE  <<n, u>> \in inFlight' <=> u \in InHand' /\ n = idOf[u]
  BY <1>2, <1>4, <1>5, <1>6, <1>7 DEF Without, MapIsTrue
<1>8. MapIsTrue'
  BY <1>1, <1>2, <1>4, <1>7 DEF Reserve, MapIsTrue, Arrived
<1>9. OnePlace'
  <2>1. \A v \in Worker : job[v] # t
    BY <1>2, TriggerAssumption DEF InHand
  <2>2. QED
    BY <1>1, <1>2, <1>3, <2>1 DEF Reserve, OnePlace, NoRepetition
<1>10. NothingLost'
  <2>1. Arrived' = Arrived /\ processed' = processed
    BY DEF Reserve, Arrived
  <2>2. ASSUME NEW u \in Arrived, NEW v \in Worker, job[v] = u
        PROVE  \E x \in Worker : job'[x] = u
    <3>1. v # w
      BY <1>3, <2>2, TriggerAssumption DEF Arrived
    <3>2. QED
      BY <1>3, <2>2, <3>1
  <2>3. job'[w] = t
    BY <1>3
  <2>4. QED
    BY <1>1, <2>1, <2>2, <2>3 DEF NothingLost
<1>11. QED
  BY <1>8, <1>9, <1>10

LEMMA AcknowledgeKeepsInv ==
  ASSUME DistinctIds, WorkerInv, TypeOK', NEW w \in Worker, Acknowledge(w)
  PROVE  WorkerInv'
<1> USE DEF WorkerInv
<1> DEFINE t == job[w]
<1>1. t # NoTrigger
  BY DEF Acknowledge, TypeOK
<1>2. /\ t \in Trigger /\ t \in InHand /\ InHand' = InHand \ {t}
      /\ \A v \in Worker : job'[v] = IF v = w THEN NoTrigger ELSE job[v]
  BY <1>1, LetGo DEF Acknowledge
<1>3. Waiting' = Waiting /\ processed' = processed \cup {t} /\ Arrived' = Arrived
  BY DEF Acknowledge, Waiting, Arrived
<1>4. MapIsTrue'
  BY <1>2, <1>3, EntryRemoved DEF Acknowledge, MapIsTrue
<1>5. OnePlace'
  <2>1. \A v \in Worker : job'[v] # t
    BY <1>1, <1>2 DEF OnePlace
  <2>2. t \notin Waiting /\ NoTrigger \notin Waiting' \cup processed'
    BY <1>2, <1>3, TriggerAssumption DEF OnePlace, MapIsTrue, Arrived
  <2>3. NoRepetition'
    BY DEF Acknowledge, OnePlace, NoRepetition
  <2>4. \A v \in Worker : job'[v] \notin Waiting' \cup processed'
    BY <1>2, <1>3, <2>1, <2>2 DEF OnePlace
  <2>5. \A u, v \in Worker : job'[u] = job'[v] /\ job'[u] # NoTrigger => u = v
    BY <1>2 DEF OnePlace
  <2>6. QED
    BY <1>3, <2>2, <2>3, <2>4, <2>5 DEF OnePlace, NoRepetition
<1>6. NothingLost'
  BY <1>2, <1>3 DEF NothingLost
<1>7. QED
  BY <1>4, <1>5, <1>6

LEMMA ReleaseKeepsInv ==
  ASSUME DistinctIds, WorkerInv, TypeOK', NEW w \in Worker, Release(w)
  PROVE  WorkerInv'
<1> USE DEF WorkerInv
<1> DEFINE t == job[w]
<1>1. t # NoTrigger
  BY DEF Release, TypeOK
<1>2. /\ t \in Trigger /\ t \in InHand /\ InHand' = InHand \ {t}
      /\ \A v \in Worker : job'[v] = IF v = w THEN NoTrigger ELSE job[v]
  BY <1>1, LetGo DEF Release
<1>3. \A u \in Trigger : <<idOf[t], u>> \in inFlight <=> u = t
  <2>1. idOf[t] \in Nat
    BY <1>2 DEF TypeOK
  <2>2. \A u \in InHand : u \in Arrived /\ idOf[u] = GivenId[u]
    BY DEF MapIsTrue
  <2>3. QED
    BY <1>2, <2>1, <2>2 DEF MapIsTrue, DistinctIds, Arrived
<1>4. pendingTriggers' = Append(pendingTriggers, t) /\ inFlight' = Without(idOf[t])
  BY <1>2, <1>3 DEF Release
<1>5. t \notin Waiting \cup processed
  BY DEF OnePlace
<1>6. Waiting' = Waiting \cup {t} /\ NoRepetition'
  BY <1>2, <1>4, <1>5, PutBack DEF OnePlace, NoRepetition
<1>7. Arrived' = Arrived /\ processed' = processed
  BY DEF Release, Arrived
<1>8. MapIsTrue'
  BY <1>2, <1>4, <1>6, <1>7, EntryRemoved DEF Release, MapIsTrue
<1>9. OnePlace'
  <2>1. \A v \in Worker : job'[v] # t
    BY <1>1, <1>2 DEF OnePlace
  <2>2. NoTrigger \notin Waiting' \cup processed'
    BY <1>2, <1>6, <1>7, TriggerAssumption DEF MapIsTrue, Arrived
  <2>3. \A v \in Worker : job'[v] \notin Waiting' \cup processed'
    BY <1>2, <1>6, <1>7, <2>1, <2>2 DEF OnePlace
  <2>4. \A u, v \in Worker : job'[u] = job'[v] /\ job'[u] # NoTrigger => u = v
    BY <1>2 DEF OnePlace
  <2>5. Waiting' \cap processed' = {}
    BY <1>5, <1>6, <1>7 DEF OnePlace
  <2>6. QED
    BY <1>6, <2>3, <2>4, <2>5 DEF OnePlace, NoRepetition
<1>10. NothingLost'
  BY <1>2, <1>6, <1>7 DEF NothingLost
<1>11. QED
  BY <1>8, <1>9, <1>10

LEMMA NextWorkerInv ==
  ASSUME DistinctIds, WorkerInv, TypeOK', [Next]_vars PROVE WorkerInv'
<1>1. ASSUME NEW w \in Worker, Poll(w) PROVE WorkerInv'
  BY <1>1 DEF Poll, queue, WorkerInv, MapIsTrue, OnePlace, NothingLost,
              Arrived, Waiting, InHand
<1>2. CASE UNCHANGED vars
  BY <1>2 DEF vars, queue, WorkerInv, MapIsTrue, OnePlace, NothingLost,
              Arrived, Waiting, InHand
<1>3. QED
  BY <1>1, <1>2, EnqueueKeepsInv, ReserveKeepsInv, AcknowledgeKeepsInv, ReleaseKeepsInv
     DEF Next, WorkerStep

LEMMA WorkerInvariant == ASSUME DistinctIds PROVE Spec => []WorkerInv
<1>1. Init => WorkerInv
  BY InitWorkerInv
<1>2. WorkerInv /\ TypeOK' /\ [Next]_vars => WorkerInv'
  BY NextWorkerInv
<1>3. QED
  BY <1>1, <1>2, TypeCorrect, PTL DEF Spec

\* With ids of their own, no trigger that arrived is lost: whatever polls reject and
\* however workers overlap, it is waiting, in the hands of a worker, or processed.
THEOREM NothingLostHolds == ASSUME DistinctIds PROVE Spec => []NothingLost
<1>1. WorkerInv => NothingLost
  BY DEF WorkerInv
<1>2. QED
  BY <1>1, WorkerInvariant, PTL

\* With ids of their own, triggers are in one place at a time: no two workers poll
\* for one, and none is polled for again once it is processed.
THEOREM OnePlaceHolds == ASSUME DistinctIds PROVE Spec => []OnePlace
<1>1. WorkerInv => OnePlace
  BY DEF WorkerInv
<1>2. QED
  BY <1>1, WorkerInvariant, PTL
=============================================================================
