----------------------- MODULE SubscriberDeliveryProofs -----------------------
(***************************************************************************)
(* Proofs about SubscriberDelivery for any events, subscribers, policies,  *)
(* replays and faults.                                                     *)
(***************************************************************************)
EXTENDS SubscriberDelivery, WellFoundedInduction, TLAPS

-----------------------------------------------------------------------------
(* The failure a replay is at                                              *)

\* Every non-empty set of positions has a first one.
LEMMA FirstExists ==
  ASSUME NEW T \in SUBSET Nat, T # {}
  PROVE  \E x \in T : \A y \in T : x <= y
<1>1. IsWellFoundedOn(OpToRel(<, Nat), Nat)
  BY NatLessThanWellFounded
<1>2. \A x, y \in Nat : <<x, y>> \in OpToRel(<, Nat) <=> x < y
  BY DEF OpToRel
<1>3. PICK less : IsWellFoundedOn(less, Nat) /\ \A x, y \in Nat : <<x, y>> \in less <=> x < y
  BY <1>1, <1>2
<1>4. PICK x \in T : \A y \in T : ~ (<<y, x>> \in less)
  <2>1. IsWellFoundedOn(less, Nat) /\ T \subseteq Nat /\ T # {}
    BY <1>3
  <2>2. QED
    BY <2>1, WFMin, Zenon
<1>5. \A y \in T : ~ (y < x)
  BY <1>3, <1>4
<1>6. QED
  BY <1>5

\* A replay that has something to do is at one of the failures it listed.
LEMMA ItemIsListed ==
  ASSUME NEW p \in Replayer, todo[p] \subseteq DOMAIN store, store \in Seq(Failure),
         todo[p] # {}
  PROVE  Item(p) \in todo[p]
<1>1. todo[p] \in SUBSET Nat
  OBVIOUS
<1>2. \E x \in todo[p] : \A y \in todo[p] : x <= y
  BY <1>1, FirstExists
<1>3. QED
  BY <1>2 DEF Item

-----------------------------------------------------------------------------
(* What a step does to the store                                           *)

\* What becomes of one failure: it is due, or resolved, or tried once more.
Elapsed(f)  == [f EXCEPT !.next = "now"]
Resolved(f) == [f EXCEPT !.resolved = TRUE, !.next = "never"]
Retried(f)  ==
    LET deadLettered == Exhausted(f.subscriber, f.retryCount + 1)
    IN  [f EXCEPT !.retryCount = @ + 1,
                  !.next = IF deadLettered THEN "never" ELSE "later",
                  !.deadLettered = deadLettered]

Fate(f, g) ==
    \/ g = f \/ g = Resolved(f) \/ g = Retried(f)
    \/ f.next = "later" /\ g = Elapsed(f)

\* Failures are never taken out of the store, each one keeps its event and its
\* subscriber, and one that is added is new.
StoreStep ==
    /\ store' \in Seq(Failure)
    /\ DOMAIN store \subseteq DOMAIN store'
    /\ \A i \in DOMAIN store : Fate(store[i], store'[i])
    /\ \A i \in DOMAIN store' \ DOMAIN store :
          \E e \in Delivery, x \in Subscriber : store'[i] = NewFailure(e, x)

LEMMA FatesAreFailures ==
  ASSUME NEW f \in Failure
  PROVE  /\ Elapsed(f) \in Failure /\ Resolved(f) \in Failure /\ Retried(f) \in Failure
         /\ \A g : Fate(f, g) => g \in Failure /\ g.event = f.event
                                  /\ g.subscriber = f.subscriber
<1>1. Elapsed(f) \in Failure /\ Resolved(f) \in Failure
  BY DEF Failure, Elapsed, Resolved
<1>2. Exhausted(f.subscriber, f.retryCount + 1) \in BOOLEAN
  BY PolicyAssumption DEF Failure, Exhausted
<1>3. Retried(f) \in Failure
  <2>1. PICK b \in BOOLEAN : b = Exhausted(f.subscriber, f.retryCount + 1)
    BY <1>2
  <2>2. Retried(f) = [f EXCEPT !.retryCount = @ + 1, !.next = IF b THEN "never" ELSE "later",
                               !.deadLettered = b]
    BY <2>1 DEF Retried
  <2>3. f.retryCount + 1 \in Nat
    BY DEF Failure
  <2>4. CASE b = TRUE
    BY <2>2, <2>3, <2>4 DEF Failure
  <2>5. CASE b = FALSE
    BY <2>2, <2>3, <2>5 DEF Failure
  <2>6. QED
    BY <2>4, <2>5
<1>4. ASSUME NEW g, Fate(f, g)
      PROVE  g \in Failure /\ g.event = f.event /\ g.subscriber = f.subscriber
  <2>1. /\ Elapsed(f).event = f.event /\ Elapsed(f).subscriber = f.subscriber
        /\ Resolved(f).event = f.event /\ Resolved(f).subscriber = f.subscriber
        /\ Retried(f).event = f.event /\ Retried(f).subscriber = f.subscriber
    BY DEF Failure, Elapsed, Resolved, Retried
  <2>2. QED
    BY <1>1, <1>3, <1>4, <2>1 DEF Fate
<1>5. QED
  BY <1>1, <1>3, <1>4

LEMMA NewFailureIsOne ==
  ASSUME NEW e \in Delivery, NEW x \in Subscriber
  PROVE  NewFailure(e, x) \in Failure
BY PolicyAssumption DEF NewFailure, Failure

\* Changing a failure keeps the others.
LEMMA StoreUpdated ==
  ASSUME NEW s \in Seq(Failure), NEW i \in DOMAIN s, NEW f \in Failure
  PROVE  /\ [s EXCEPT ![i] = f] \in Seq(Failure)
         /\ DOMAIN [s EXCEPT ![i] = f] = DOMAIN s
         /\ \A j \in DOMAIN s : [s EXCEPT ![i] = f][j] = IF j = i THEN f ELSE s[j]
OBVIOUS

LEMMA StoreExtended ==
  ASSUME NEW s \in Seq(Failure), NEW f \in Failure
  PROVE  /\ Append(s, f) \in Seq(Failure)
         /\ DOMAIN Append(s, f) = DOMAIN s \cup {Len(s) + 1}
         /\ Len(s) + 1 \notin DOMAIN s
         /\ Append(s, f)[Len(s) + 1] = f
         /\ \A j \in DOMAIN s : Append(s, f)[j] = s[j]
OBVIOUS

LEMMA UpdateIsStoreStep ==
  ASSUME store \in Seq(Failure), NEW i \in DOMAIN store, NEW f,
         Fate(store[i], f), store' = [store EXCEPT ![i] = f]
  PROVE  StoreStep
<1>1. store[i] \in Failure
  OBVIOUS
<1>2. f \in Failure
  BY <1>1, FatesAreFailures
<1>3. QED
  BY <1>2, StoreUpdated DEF StoreStep, Fate

LEMMA AppendIsStoreStep ==
  ASSUME store \in Seq(Failure), NEW e \in Delivery, NEW x \in Subscriber,
         store' = Append(store, NewFailure(e, x))
  PROVE  StoreStep
BY NewFailureIsOne, StoreExtended DEF StoreStep, Fate

LEMMA NoStoreStep ==
  ASSUME store \in Seq(Failure), UNCHANGED store PROVE StoreStep
BY DEF StoreStep, Fate

-----------------------------------------------------------------------------
(* Types                                                                   *)

\* A fan-out that records or audits is at a subscriber, a replay at work at a
\* failure of its list.
AtWork ==
    /\ \A e \in Delivery : stage[e] \in {"record", "audit"} => AtSubscriber(e)
    /\ \A p \in Replayer : pc[p] # "idle" => todo[p] # {}

TypeInv == TypeOK /\ AtWork

LEMMA InitTypes == Init => TypeInv
<1>1. Len(FanOut) \in Nat
  BY SubscriberAssumption
<1>2. QED
  BY <1>1, BoundAssumption DEF Init, TypeInv, TypeOK, AtWork

LEMMA ItemInStore ==
  ASSUME TypeInv, NEW p \in Replayer, pc[p] # "idle"
  PROVE  Item(p) \in todo[p] /\ Item(p) \in DOMAIN store /\ store[Item(p)] \in Failure
<1>1. Item(p) \in todo[p]
  BY ItemIsListed DEF TypeInv, TypeOK, AtWork
<1>2. todo[p] \subseteq DOMAIN store /\ store \in Seq(Failure)
  BY DEF TypeInv, TypeOK
<1>3. QED
  BY <1>1, <1>2

\* Each action's effect on the store.
LEMMA ActionsOnStore ==
  ASSUME TypeInv
  PROVE  /\ \A e \in Delivery : RecordFailure(e) => StoreStep
         /\ \A i \in DOMAIN store : RetryDelayElapses(i) => StoreStep
         /\ \A p \in Replayer : Resolve(p) => StoreStep
         /\ \A p \in Replayer : Retry(p) => StoreStep
<1>1. store \in Seq(Failure)
  BY DEF TypeInv, TypeOK
<1>2. ASSUME NEW e \in Delivery, RecordFailure(e) PROVE StoreStep
  <2>1. FanOut[at[e]] \in Subscriber
    BY <1>2, SubscriberAssumption DEF RecordFailure, TypeInv, TypeOK, AtWork, AtSubscriber
  <2>2. QED
    BY <1>1, <1>2, <2>1, AppendIsStoreStep, NoStoreStep DEF RecordFailure
<1>3. ASSUME NEW i \in DOMAIN store, RetryDelayElapses(i) PROVE StoreStep
  <2>1. store' = [store EXCEPT ![i] = Elapsed(store[i])]
    BY <1>1, <1>3 DEF RetryDelayElapses, Elapsed
  <2>2. Fate(store[i], Elapsed(store[i]))
    BY <1>3 DEF RetryDelayElapses, Fate
  <2>3. QED
    BY <1>1, <2>1, <2>2, UpdateIsStoreStep
<1>4. ASSUME NEW p \in Replayer, Resolve(p) PROVE StoreStep
  <2>1. Item(p) \in DOMAIN store
    BY <1>4, ItemInStore DEF Resolve
  <2>2. CASE UNCHANGED store
    BY <1>1, <2>2, NoStoreStep
  <2>3. CASE MarkResolved(Item(p))
    <3>1. store' = [store EXCEPT ![Item(p)] = Resolved(store[Item(p)])]
      BY <1>1, <2>1, <2>3 DEF MarkResolved, Resolved
    <3>2. QED
      BY <1>1, <2>1, <3>1, UpdateIsStoreStep DEF Fate
  <2>4. QED
    BY <1>4, <2>2, <2>3 DEF Resolve
<1>5. ASSUME NEW p \in Replayer, Retry(p) PROVE StoreStep
  <2> DEFINE f == store[Item(p)]
  <2>1. Item(p) \in DOMAIN store
    BY <1>5, ItemInStore DEF Retry
  <2>2. CASE UNCHANGED store
    BY <1>1, <2>2, NoStoreStep
  <2>3. CASE MarkRetried(Item(p), Exhausted(f.subscriber, f.retryCount + 1))
    <3>1. store' = [store EXCEPT ![Item(p)] = Retried(f)]
      BY <1>1, <2>1, <2>3 DEF MarkRetried, Retried
    <3>2. QED
      BY <1>1, <2>1, <3>1, UpdateIsStoreStep DEF Fate
  <2>4. QED
    BY <1>5, <2>2, <2>3 DEF Retry
<1>6. QED
  BY <1>2, <1>3, <1>4, <1>5

LEMMA EveryStepOnStore ==
  ASSUME TypeInv, [Next]_vars PROVE StoreStep
<1>1. store \in Seq(Failure)
  BY DEF TypeInv, TypeOK
<1>2. ASSUME NEW e \in Delivery, Handle(e) \/ AuditFanOut(e) PROVE StoreStep
  BY <1>1, <1>2, NoStoreStep DEF Handle, AuditFanOut
<1>3. ASSUME NEW p \in Replayer, List(p) \/ HandleAgain(p) \/ AuditReplay(p)
      PROVE  StoreStep
  BY <1>1, <1>3, NoStoreStep DEF List, HandleAgain, AuditReplay
<1>4. CASE UNCHANGED vars
  BY <1>1, <1>4, NoStoreStep DEF vars
<1>5. QED
  BY <1>2, <1>3, <1>4, ActionsOnStore DEF Next, FanOutStep, ReplayStep

\* Going to the next failure, or on to the next subscriber, keeps the types.
LEMMA AdvanceKeepsType ==
  ASSUME TypeInv, StoreStep, NEW p \in Replayer, Advance(p)
  PROVE  /\ todo' \in [Replayer -> SUBSET DOMAIN store']
         /\ pc' \in [Replayer -> {"idle", "handle", "resolve", "retry", "audit"}]
         /\ \A q \in Replayer : pc'[q] # "idle" => todo'[q] # {}
<1> DEFINE rest == todo[p] \ {Item(p)}
<1>1. /\ todo \in [Replayer -> SUBSET DOMAIN store]
      /\ pc \in [Replayer -> {"idle", "handle", "resolve", "retry", "audit"}]
      /\ \A q \in Replayer : pc[q] # "idle" => todo[q] # {}
      /\ DOMAIN store \subseteq DOMAIN store'
  BY DEF TypeInv, TypeOK, AtWork, StoreStep
<1>2. /\ todo' = [todo EXCEPT ![p] = rest]
      /\ pc' = [pc EXCEPT ![p] = IF rest = {} THEN "idle" ELSE "handle"]
  BY DEF Advance, Goto
<1>3. rest \in SUBSET DOMAIN store'
  BY <1>1
<1> HIDE DEF rest
<1>4. QED
  BY <1>1, <1>2, <1>3

LEMMA GoOnKeepsType ==
  ASSUME TypeInv, NEW e \in Delivery, AtSubscriber(e), GoOn(e)
  PROVE  /\ at' \in [Delivery -> 1..(Len(FanOut) + 1)]
         /\ stage' \in [Delivery -> {"handle", "record", "audit", "stopped"}]
         /\ \A d \in Delivery : stage'[d] \in {"record", "audit"} => at'[d] <= Len(FanOut)
<1>1. Len(FanOut) \in Nat
  BY SubscriberAssumption
<1>2. QED
  BY <1>1 DEF TypeInv, TypeOK, AtWork, AtSubscriber, GoOn

FanOutTypes ==
    /\ at \in [Delivery -> 1..(Len(FanOut) + 1)]
    /\ stage \in [Delivery -> {"handle", "record", "audit", "stopped"}]
    /\ \A e \in Delivery : stage[e] \in {"record", "audit"} => AtSubscriber(e)

ReplayTypes ==
    /\ pc \in [Replayer -> {"idle", "handle", "resolve", "retry", "audit"}]
    /\ todo \in [Replayer -> SUBSET DOMAIN store]
    /\ \A p \in Replayer : pc[p] # "idle" => todo[p] # {}

LogTypes ==
    /\ handled \subseteq Delivery \X Subscriber
    /\ audited \subseteq DOMAIN store
    /\ faults \in 0..MaxFaults

LEMMA TypeParts == TypeInv <=> FanOutTypes /\ ReplayTypes /\ LogTypes /\ store \in Seq(Failure)
BY DEF TypeInv, TypeOK, AtWork, FanOutTypes, ReplayTypes, LogTypes

\* Every step keeps the types.
LEMMA NextTypes == TypeInv /\ [Next]_vars => TypeInv'
<1> SUFFICES ASSUME TypeInv, [Next]_vars PROVE TypeInv'
  OBVIOUS
<1>1. StoreStep /\ store' \in Seq(Failure) /\ DOMAIN store \subseteq DOMAIN store'
  BY EveryStepOnStore DEF StoreStep
<1>2. FanOutTypes /\ ReplayTypes /\ LogTypes
  BY TypeParts
<1>3. \A n \in 0..MaxFaults : n < MaxFaults => n + 1 \in 0..MaxFaults
  BY BoundAssumption
<1>4. SUFFICES FanOutTypes' /\ ReplayTypes' /\ LogTypes'
  BY <1>1 DEF FanOutTypes, ReplayTypes, LogTypes, TypeInv, TypeOK, AtWork
<1>5. ASSUME NEW e \in Delivery, Handle(e) PROVE FanOutTypes' /\ ReplayTypes' /\ LogTypes'
  <2>1. FanOut[at[e]] \in Subscriber
    BY <1>2, <1>5, SubscriberAssumption DEF Handle, FanOutTypes, AtSubscriber
  <2>2. FanOutTypes'
    BY <1>2, <1>5, GoOnKeepsType DEF Handle, FanOutTypes, AtSubscriber
  <2>3. QED
    BY <1>2, <1>5, <2>1, <2>2 DEF Handle, ReplayTypes, LogTypes, replay
<1>6. ASSUME NEW e \in Delivery, RecordFailure(e)
      PROVE  FanOutTypes' /\ ReplayTypes' /\ LogTypes'
  <2>1. FanOutTypes'
    BY <1>2, <1>6, GoOnKeepsType DEF RecordFailure, FanOutTypes, AtSubscriber
  <2>2. ReplayTypes'
    BY <1>1, <1>2, <1>6 DEF RecordFailure, ReplayTypes, replay
  <2>3. LogTypes'
    BY <1>1, <1>2, <1>3, <1>6 DEF RecordFailure, LogTypes, Fault
  <2>4. QED
    BY <2>1, <2>2, <2>3
<1>7. ASSUME NEW e \in Delivery, AuditFanOut(e)
      PROVE  FanOutTypes' /\ ReplayTypes' /\ LogTypes'
  <2>1. FanOutTypes'
    BY <1>2, <1>7, GoOnKeepsType DEF AuditFanOut, FanOutTypes, AtSubscriber
  <2>2. QED
    BY <1>2, <1>7, <2>1 DEF AuditFanOut, ReplayTypes, LogTypes, replay
<1>8. ASSUME NEW i \in DOMAIN store, RetryDelayElapses(i)
      PROVE  FanOutTypes' /\ ReplayTypes' /\ LogTypes'
  BY <1>1, <1>2, <1>8
     DEF RetryDelayElapses, FanOutTypes, ReplayTypes, LogTypes, fanOut, replay, AtSubscriber
<1>9. ASSUME NEW p \in Replayer, List(p) PROVE FanOutTypes' /\ ReplayTypes' /\ LogTypes'
  <2>1. Listed \subseteq DOMAIN store
    BY DEF Listed
  <2>2. ReplayTypes'
    BY <1>2, <1>9, <2>1 DEF List, Goto, ReplayTypes
  <2>3. QED
    BY <1>2, <1>9, <2>2 DEF List, FanOutTypes, LogTypes, fanOut, AtSubscriber
<1>10. ASSUME NEW p \in Replayer, HandleAgain(p)
       PROVE  FanOutTypes' /\ ReplayTypes' /\ LogTypes'
  <2>1. store[Item(p)] \in Failure
    BY <1>10, ItemInStore DEF HandleAgain
  <2>2. <<store[Item(p)].event, store[Item(p)].subscriber>> \in Delivery \X Subscriber
    BY <2>1 DEF Failure
  <2>3. ReplayTypes'
    BY <1>2, <1>10 DEF HandleAgain, Goto, ReplayTypes
  <2>4. QED
    BY <1>2, <1>10, <2>2, <2>3 DEF HandleAgain, FanOutTypes, LogTypes, fanOut, AtSubscriber
<1>11. ASSUME NEW p \in Replayer, Resolve(p)
       PROVE  FanOutTypes' /\ ReplayTypes' /\ LogTypes'
  <2>1. ReplayTypes'
    BY <1>1, <1>2, <1>11, AdvanceKeepsType DEF Resolve, Goto, ReplayTypes
  <2>2. LogTypes'
    BY <1>1, <1>2, <1>3, <1>11 DEF Resolve, LogTypes, Fault
  <2>3. QED
    BY <1>2, <1>11, <2>1, <2>2 DEF Resolve, FanOutTypes, fanOut, AtSubscriber
<1>12. ASSUME NEW p \in Replayer, Retry(p)
       PROVE  FanOutTypes' /\ ReplayTypes' /\ LogTypes'
  <2>1. ASSUME Advance(p) PROVE ReplayTypes'
    BY <1>1, <2>1, AdvanceKeepsType DEF ReplayTypes
  <2>2. ASSUME UNCHANGED todo /\ Goto(p, "audit") PROVE ReplayTypes'
    BY <1>1, <1>2, <1>12, <2>2 DEF Retry, Goto, ReplayTypes
  <2>3. ASSUME Goto(p, "idle") /\ todo' = [todo EXCEPT ![p] = {}] PROVE ReplayTypes'
    BY <1>1, <1>2, <2>3 DEF Goto, ReplayTypes
  <2>4. ReplayTypes'
    BY <1>12, <2>1, <2>2, <2>3 DEF Retry
  <2>5. LogTypes'
    BY <1>1, <1>2, <1>3, <1>12 DEF Retry, LogTypes, Fault
  <2>6. QED
    BY <1>2, <1>12, <2>4, <2>5 DEF Retry, FanOutTypes, fanOut, AtSubscriber
<1>13. ASSUME NEW p \in Replayer, AuditReplay(p)
       PROVE  FanOutTypes' /\ ReplayTypes' /\ LogTypes'
  <2>1. Item(p) \in DOMAIN store
    BY <1>13, ItemInStore DEF AuditReplay
  <2>2. ReplayTypes'
    BY <1>1, <1>13, AdvanceKeepsType DEF AuditReplay, ReplayTypes
  <2>3. QED
    BY <1>2, <1>13, <2>1, <2>2 DEF AuditReplay, FanOutTypes, LogTypes, fanOut, AtSubscriber
<1>14. CASE UNCHANGED vars
  BY <1>2, <1>14 DEF vars, fanOut, replay, FanOutTypes, ReplayTypes, LogTypes, AtSubscriber
<1>15. QED
  BY <1>5, <1>6, <1>7, <1>8, <1>9, <1>10, <1>11, <1>12, <1>13, <1>14
     DEF Next, FanOutStep, ReplayStep

\* Every reachable state of fan-outs, store and replays is well typed; a replay is
\* always at a failure that the store has.
THEOREM TypeCorrect == Spec => []TypeOK
<1>1. TypeInv => TypeOK
  BY DEF TypeInv
<1>2. QED
  BY <1>1, InitTypes, NextTypes, PTL DEF Spec

LEMMA TypeInvariant == Spec => []TypeInv
BY InitTypes, NextTypes, PTL DEF Spec

-----------------------------------------------------------------------------
(* Dead-lettered exactly when exhausted                                    *)

\* One failure, whatever becomes of it: tried once more it is given up if that was
\* the last attempt, and otherwise what was given up stays so.
LEMMA FateKeepsPolicy ==
  ASSUME NEW f \in Failure, NEW g, Fate(f, g),
         f.deadLettered <=> Exhausted(f.subscriber, f.retryCount),
         f.deadLettered => f.next = "never"
  PROVE  /\ g.deadLettered <=> Exhausted(g.subscriber, g.retryCount)
         /\ g.deadLettered => g.next = "never"
<1>1. CASE g = f
  BY <1>1
<1>2. CASE g = Resolved(f)
  BY <1>2 DEF Resolved, Failure
<1>3. CASE g = Retried(f)
  <2>1. /\ g.subscriber = f.subscriber /\ g.retryCount = f.retryCount + 1
        /\ g.deadLettered = Exhausted(f.subscriber, f.retryCount + 1)
        /\ g.next = IF Exhausted(f.subscriber, f.retryCount + 1) THEN "never" ELSE "later"
    BY <1>3 DEF Retried, Failure
  <2>2. QED
    BY <2>1
<1>4. CASE f.next = "later" /\ g = Elapsed(f)
  BY <1>4 DEF Elapsed, Failure
<1>5. QED
  BY <1>1, <1>2, <1>3, <1>4 DEF Fate

LEMMA NewFailureKeepsPolicy ==
  ASSUME NEW e \in Delivery, NEW x \in Subscriber
  PROVE  LET f == NewFailure(e, x) IN
         /\ f.deadLettered <=> Exhausted(f.subscriber, f.retryCount)
         /\ f.deadLettered => f.next = "never"
BY PolicyAssumption DEF NewFailure, Exhausted

\* For any policies, and however replays overlap and the store rejects: a failure is
\* given up at exactly the attempt that its subscriber's policy names.
THEOREM DeadLetteredWhenExhaustedHolds == Spec => []DeadLetteredWhenExhausted
<1>1. Init => DeadLetteredWhenExhausted
  BY DEF Init, DeadLetteredWhenExhausted
<1>2. ASSUME TypeInv, DeadLetteredWhenExhausted, [Next]_vars
      PROVE  DeadLetteredWhenExhausted'
  <2>1. StoreStep /\ store \in Seq(Failure)
    BY <1>2, EveryStepOnStore DEF TypeInv, TypeOK
  <2>2. SUFFICES ASSUME NEW i \in DOMAIN store'
                 PROVE  /\ store'[i].deadLettered
                              <=> Exhausted(store'[i].subscriber, store'[i].retryCount)
                        /\ store'[i].deadLettered => store'[i].next = "never"
    BY DEF DeadLetteredWhenExhausted, Exhausted
  <2>3. CASE i \in DOMAIN store
    <3>1. store[i] \in Failure /\ Fate(store[i], store'[i])
      BY <2>1, <2>3 DEF StoreStep
    <3>2. QED
      BY <1>2, <2>3, <3>1, FateKeepsPolicy DEF DeadLetteredWhenExhausted
  <2>4. CASE i \notin DOMAIN store
    BY <2>1, <2>4, NewFailureKeepsPolicy DEF StoreStep
  <2>5. QED
    BY <2>3, <2>4
<1>3. QED
  BY <1>1, <1>2, TypeInvariant, PTL DEF Spec

-----------------------------------------------------------------------------
(* No subscriber forgotten                                                 *)

\* A subscriber that the fan-out has gone past got the event or has a failure.
Kept(e, x) ==
    \/ <<e, x>> \in handled
    \/ \E i \in DOMAIN store : store[i].event = e /\ store[i].subscriber = x

PassedAreKept ==
    \A e \in Delivery :
        /\ \A n \in 1..(at[e] - 1) : Kept(e, FanOut[n])
        /\ stage[e] = "audit" => Kept(e, FanOut[at[e]])

\* A failure that nobody will replay was given up, or its subscriber got the event.
LeftAreHandled ==
    \A i \in DOMAIN store :
        /\ store[i].resolved => <<store[i].event, store[i].subscriber>> \in handled
        /\ store[i].next = "never" => store[i].deadLettered \/ store[i].resolved

ResolvedNextIsHandled ==
    \A p \in Replayer : pc[p] = "resolve" =>
        <<store[Item(p)].event, store[Item(p)].subscriber>> \in handled

ForgottenInv ==
    TypeInv /\ PassedAreKept /\ LeftAreHandled /\ ResolvedNextIsHandled

\* Nothing is unsaid: an event that was handled stays so, a failure stays in the
\* store with its event and its subscriber.
LEMMA NothingUnsaid ==
  ASSUME TypeInv, [Next]_vars
  PROVE  /\ handled \subseteq handled'
         /\ \A i \in DOMAIN store :
               /\ i \in DOMAIN store' /\ store'[i].event = store[i].event
               /\ store'[i].subscriber = store[i].subscriber
         /\ \A e, x : Kept(e, x) => Kept(e, x)'
<1>1. handled \subseteq handled'
  BY DEF Next, FanOutStep, ReplayStep, Handle, RecordFailure, AuditFanOut,
         RetryDelayElapses, List, HandleAgain, Resolve, Retry, AuditReplay, vars
<1>2. ASSUME NEW i \in DOMAIN store
      PROVE  /\ i \in DOMAIN store' /\ store'[i].event = store[i].event
             /\ store'[i].subscriber = store[i].subscriber
  <2>1. StoreStep /\ store[i] \in Failure
    BY EveryStepOnStore DEF TypeInv, TypeOK
  <2>2. QED
    BY <2>1, FatesAreFailures DEF StoreStep
<1>3. QED
  BY <1>1, <1>2 DEF Kept

\* Only a replay that has had its failure handled marks it as resolved.
LEMMA ResolvedByReplay ==
  ASSUME TypeInv, [Next]_vars, NEW i \in DOMAIN store,
         store'[i].resolved # store[i].resolved
  PROVE  \E p \in Replayer : pc[p] = "resolve" /\ i = Item(p)
<1>1. store \in Seq(Failure) /\ store[i] \in Failure
  BY DEF TypeInv, TypeOK
<1>2. ASSUME NEW p \in Replayer, Resolve(p)
      PROVE  \E q \in Replayer : pc[q] = "resolve" /\ i = Item(q)
  BY <1>1, <1>2 DEF Resolve, MarkResolved
<1>3. ASSUME NEW p \in Replayer, Retry(p) PROVE FALSE
  <2>1. store[Item(p)] \in Failure /\ Item(p) \in DOMAIN store
    BY <1>3, ItemInStore DEF Retry
  <2> DEFINE f == store[Item(p)]
             g == Retried(f)
  <2>2. g \in Failure
    BY <2>1, FatesAreFailures
  <2>3. g.resolved = f.resolved
    BY <2>1 DEF Retried, Failure
  <2>4. UNCHANGED store \/ store' = [store EXCEPT ![Item(p)] = g]
    BY <1>1, <1>3, <2>1 DEF Retry, MarkRetried, Retried
  <2> HIDE DEF g
  <2>5. store'[i].resolved = store[i].resolved
    BY <1>1, <2>1, <2>2, <2>3, <2>4, StoreUpdated
  <2>6. QED
    BY <2>5
<1>4. ASSUME NEW e \in Delivery, RecordFailure(e) PROVE FALSE
  BY <1>1, <1>4 DEF RecordFailure
<1>5. ASSUME NEW j \in DOMAIN store, RetryDelayElapses(j) PROVE FALSE
  <2> DEFINE g == Elapsed(store[j])
  <2>1. store[j] \in Failure
    BY <1>1
  <2>2. g \in Failure /\ g.resolved = store[j].resolved
    BY <2>1, FatesAreFailures DEF Elapsed, Failure
  <2>3. store' = [store EXCEPT ![j] = g]
    BY <1>1, <1>5 DEF RetryDelayElapses, Elapsed
  <2> HIDE DEF g
  <2>4. store'[i].resolved = store[i].resolved
    BY <1>1, <2>2, <2>3, StoreUpdated
  <2>5. QED
    BY <2>4
<1>6. UNCHANGED store => FALSE
  OBVIOUS
<1>7. QED
  BY <1>2, <1>3, <1>4, <1>5, <1>6
     DEF Next, FanOutStep, ReplayStep, Handle, AuditFanOut, List, HandleAgain, AuditReplay, vars

\* A replay about to resolve was so before, or has just had its failure handled.
LEMMA AboutToResolve ==
  ASSUME TypeInv, [Next]_vars, NEW p \in Replayer, pc'[p] = "resolve"
  PROVE  /\ todo'[p] = todo[p] /\ pc[p] # "idle"
         /\ \/ pc[p] = "resolve"
            \/ <<store[Item(p)].event, store[Item(p)].subscriber>> \in handled'
<1>1. pc \in [Replayer -> {"idle", "handle", "resolve", "retry", "audit"}]
      /\ todo \in [Replayer -> SUBSET DOMAIN store]
  BY DEF TypeInv, TypeOK
<1>2. ASSUME NEW q \in Replayer, ReplayStep(q), q # p
      PROVE  pc'[p] = pc[p] /\ todo'[p] = todo[p]
  BY <1>1, <1>2 DEF ReplayStep, List, HandleAgain, Resolve, Retry, AuditReplay, Advance, Goto
<1>3. ASSUME ReplayStep(p)
      PROVE  HandleAgain(p) /\ <<store[Item(p)].event, store[Item(p)].subscriber>> \in handled'
  BY <1>1, <1>3 DEF ReplayStep, List, HandleAgain, Resolve, Retry, AuditReplay, Advance, Goto
<1>4. ASSUME NEW e \in Delivery, FanOutStep(e) PROVE UNCHANGED <<pc, todo>>
  BY <1>4 DEF FanOutStep, Handle, RecordFailure, AuditFanOut, replay
<1>5. ASSUME NEW i \in DOMAIN store, RetryDelayElapses(i) PROVE UNCHANGED <<pc, todo>>
  BY <1>5 DEF RetryDelayElapses, replay
<1>6. CASE UNCHANGED vars
  BY <1>6 DEF vars, replay
<1>7. QED
  BY <1>2, <1>3, <1>4, <1>5, <1>6 DEF Next, HandleAgain

LEMMA NextForgottenInv == ForgottenInv /\ [Next]_vars => ForgottenInv'
<1> SUFFICES ASSUME ForgottenInv, [Next]_vars PROVE ForgottenInv'
  OBVIOUS
<1>1. TypeInv /\ TypeInv'
  BY NextTypes DEF ForgottenInv
<1>2. StoreStep /\ store \in Seq(Failure)
  BY <1>1, EveryStepOnStore DEF TypeInv, TypeOK
<1>3. \A e, x : Kept(e, x) => Kept(e, x)'
  BY <1>1, NothingUnsaid
<1>4. PassedAreKept'
  <2>1. ASSUME NEW e \in Delivery, Handle(e) \/ RecordFailure(e) \/ AuditFanOut(e)
        PROVE  PassedAreKept'
    <3>1. /\ at \in [Delivery -> 1..(Len(FanOut) + 1)] /\ Len(FanOut) \in Nat
          /\ stage \in [Delivery -> {"handle", "record", "audit", "stopped"}]
      BY <1>1, SubscriberAssumption DEF TypeInv, TypeOK
    <3>2. \A d \in Delivery \ {e} : at'[d] = at[d] /\ stage'[d] = stage[d]
      BY <2>1, <3>1 DEF Handle, RecordFailure, AuditFanOut, GoOn
    <3>3. PICK n \in Nat : n = at[e]
      BY <3>1
    <3>4. PICK x : x = FanOut[n]
      OBVIOUS
    <3>5. \/ at'[e] = n /\ (stage'[e] = "audit" => Kept(e, x)')
          \/ at'[e] = n + 1 /\ stage'[e] # "audit" /\ Kept(e, x)'
      <4>1. CASE Handle(e)
        <5>1. CASE handled' = handled \cup {<<e, FanOut[at[e]]>>} /\ GoOn(e)
          <6>1. Kept(e, x)'
            BY <3>3, <3>4, <5>1 DEF Kept
          <6>2. QED
            BY <3>1, <3>3, <5>1, <6>1 DEF GoOn
        <5>2. CASE stage' = [stage EXCEPT ![e] = "record"] /\ UNCHANGED <<at, handled>>
          BY <3>1, <3>3, <5>2
        <5>3. QED
          BY <4>1, <5>1, <5>2 DEF Handle
      <4>2. CASE RecordFailure(e)
        <5>1. CASE store' = Append(store, NewFailure(e, FanOut[at[e]]))
          <6>1. /\ Len(store) + 1 \in DOMAIN store'
                /\ store'[Len(store) + 1] = NewFailure(e, x)
            BY <1>2, <3>3, <3>4, <5>1
          <6>2. Kept(e, x)'
            BY <6>1 DEF Kept, NewFailure
          <6>3. at'[e] = n \/ (at'[e] = n + 1 /\ stage'[e] # "audit")
            BY <4>2, <3>1, <3>3 DEF RecordFailure, GoOn
          <6>4. QED
            BY <6>2, <6>3
        <5>2. CASE UNCHANGED store /\ stage' = [stage EXCEPT ![e] = "stopped"] /\ UNCHANGED at
          BY <5>2, <3>1, <3>3
        <5>3. QED
          BY <4>2, <5>1, <5>2 DEF RecordFailure
      <4>3. CASE AuditFanOut(e)
        <5>1. Kept(e, x)
          BY <4>3, <3>3, <3>4 DEF AuditFanOut, ForgottenInv, PassedAreKept
        <5>2. Kept(e, x)'
          BY <5>1, <1>3
        <5>3. QED
          BY <4>3, <3>1, <3>3, <5>2 DEF AuditFanOut, GoOn
      <4>4. QED
        BY <2>1, <4>1, <4>2, <4>3
    <3>6. ASSUME NEW d \in Delivery, NEW m \in 1..(at'[d] - 1)
          PROVE  Kept(d, FanOut[m])'
      <4>1. PICK y : y = FanOut[m]
        OBVIOUS
      <4>2. m \in 1..(at[d] - 1) => Kept(d, y)'
        BY <1>3, <4>1 DEF ForgottenInv, PassedAreKept
      <4>3. m \in 1..(at[d] - 1) \/ (d = e /\ m = n /\ Kept(e, x)')
        BY <3>1, <3>2, <3>3, <3>5
      <4>4. Kept(d, y)'
        BY <4>1, <4>2, <4>3, <3>4
      <4>5. QED
        BY <4>1, <4>4 DEF Kept
    <3>7. ASSUME NEW d \in Delivery, stage'[d] = "audit"
          PROVE  Kept(d, FanOut[at[d]])'
      <4>1. PICK y : y = FanOut[at'[d]]
        OBVIOUS
      <4>2. CASE d = e
        <5>1. y = x /\ Kept(e, x)'
          BY <3>3, <3>4, <3>5, <3>7, <4>1, <4>2
        <5>2. QED
          BY <4>1, <4>2, <5>1 DEF Kept
      <4>3. CASE d # e
        <5>1. Kept(d, y)
          BY <3>2, <3>7, <4>1, <4>3 DEF ForgottenInv, PassedAreKept
        <5>2. Kept(d, y)'
          BY <5>1, <1>3
        <5>3. QED
          BY <4>1, <5>2 DEF Kept
      <4>4. QED
        BY <4>2, <4>3
    <3>8. QED
      BY <3>6, <3>7 DEF PassedAreKept
  <2>2. ASSUME UNCHANGED fanOut PROVE PassedAreKept'
    <3>1. at' = at /\ stage' = stage
      BY <2>2 DEF fanOut
    <3>2. ASSUME NEW d \in Delivery, NEW y, Kept(d, y) PROVE Kept(d, y)'
      BY <1>3, <3>2
    <3>3. ASSUME NEW d \in Delivery, NEW m \in 1..(at[d] - 1)
          PROVE  Kept(d, FanOut[m])'
      BY <3>2, <3>3 DEF ForgottenInv, PassedAreKept
    <3>4. ASSUME NEW d \in Delivery, stage[d] = "audit"
          PROVE  Kept(d, FanOut[at[d]])'
      <4>1. PICK y : y = FanOut[at[d]]
        OBVIOUS
      <4>2. Kept(d, y)'
        BY <3>2, <3>4, <4>1 DEF ForgottenInv, PassedAreKept
      <4>3. QED
        BY <3>1, <4>1, <4>2 DEF Kept
    <3>5. QED
      BY <3>1, <3>3, <3>4 DEF PassedAreKept
  <2>3. QED
    BY <2>1, <2>2 DEF Next, FanOutStep, ReplayStep, RetryDelayElapses, List, HandleAgain,
                      Resolve, Retry, AuditReplay, vars
<1>5. LeftAreHandled'
  <2>1. SUFFICES ASSUME NEW i \in DOMAIN store'
                 PROVE  /\ store'[i].resolved =>
                              <<store'[i].event, store'[i].subscriber>> \in handled'
                        /\ store'[i].next = "never" =>
                              store'[i].deadLettered \/ store'[i].resolved
    BY DEF LeftAreHandled
  <2>2. CASE i \in DOMAIN store
    <3>1. store[i] \in Failure /\ Fate(store[i], store'[i])
      BY <1>2, <2>2 DEF StoreStep
    <3>2. store'[i].resolved => <<store[i].event, store[i].subscriber>> \in handled'
      BY <1>1, <2>2, NothingUnsaid, ResolvedByReplay
         DEF ForgottenInv, LeftAreHandled, ResolvedNextIsHandled
    <3>3. store'[i].next = "never" => store'[i].deadLettered \/ store'[i].resolved
      BY <2>2, <3>1 DEF Fate, Resolved, Retried, Elapsed, Failure, ForgottenInv, LeftAreHandled
    <3>4. QED
      BY <1>1, <2>2, <3>2, <3>3, NothingUnsaid
  <2>3. CASE i \notin DOMAIN store
    <3>1. PICK e \in Delivery, x \in Subscriber : store'[i] = NewFailure(e, x)
      BY <1>2, <2>1, <2>3 DEF StoreStep
    <3>2. store'[i].resolved = FALSE
      BY <3>1 DEF NewFailure
    <3>3. /\ store'[i].next = IF MaxAttempts[x] <= 1 THEN "never" ELSE "later"
          /\ store'[i].subscriber = x /\ store'[i].retryCount = 1
      BY <3>1 DEF NewFailure
    <3>4. store'[i].deadLettered <=> Exhausted(x, 1)
      BY <3>1, <3>3, NewFailureKeepsPolicy
    <3>5. store'[i].next = "never" => Exhausted(x, 1)
      BY <3>3, PolicyAssumption DEF Exhausted
    <3>6. QED
      BY <3>2, <3>4, <3>5
  <2>4. QED
    BY <2>2, <2>3
<1>6. ResolvedNextIsHandled'
  <2>1. SUFFICES ASSUME NEW p \in Replayer, pc'[p] = "resolve"
                 PROVE  <<store'[Item(p)'].event, store'[Item(p)'].subscriber>> \in handled'
    BY DEF ResolvedNextIsHandled
  <2>2. /\ todo'[p] = todo[p] /\ pc[p] # "idle"
        /\ <<store[Item(p)].event, store[Item(p)].subscriber>> \in handled'
    BY <1>1, <2>1, AboutToResolve, NothingUnsaid DEF ForgottenInv, ResolvedNextIsHandled
  <2>3. Item(p)' = Item(p)
    BY <2>2 DEF Item
  <2>4. Item(p) \in DOMAIN store
    BY <1>1, <2>2, ItemInStore
  <2>5. QED
    BY <1>1, <2>2, <2>3, <2>4, NothingUnsaid
<1>7. QED
  BY <1>1, <1>4, <1>5, <1>6 DEF ForgottenInv

\* For any fan-outs and replays: whoever the fan-out has gone past handled the event,
\* or is owed it by a failure that will be replayed or has been given up.
THEOREM NothingForgottenHolds == Spec => []NothingForgotten
<1>1. Init => ForgottenInv
  BY InitTypes DEF Init, ForgottenInv, PassedAreKept, LeftAreHandled, ResolvedNextIsHandled
<1>2. ForgottenInv => NothingForgotten
  <2> SUFFICES ASSUME ForgottenInv, NEW e \in Delivery, NEW n \in 1..(at[e] - 1),
                      <<e, FanOut[n]>> \notin handled
               PROVE  \E i \in DOMAIN store :
                        /\ store[i].event = e /\ store[i].subscriber = FanOut[n]
                        /\ store[i].deadLettered \/ (store[i].next # "never" /\ ~store[i].resolved)
    BY DEF NothingForgotten
  <2>1. PICK i \in DOMAIN store : store[i].event = e /\ store[i].subscriber = FanOut[n]
    <3>1. Kept(e, FanOut[n])
      BY DEF ForgottenInv, PassedAreKept
    <3>2. QED
      BY <3>1 DEF Kept
  <2>2. ~store[i].resolved
    BY <2>1 DEF ForgottenInv, LeftAreHandled
  <2>3. store[i].deadLettered \/ store[i].next # "never"
    BY <2>2 DEF ForgottenInv, LeftAreHandled
  <2>4. QED
    BY <2>1, <2>2, <2>3
<1>3. QED
  BY <1>1, <1>2, NextForgottenInv, PTL DEF Spec

-----------------------------------------------------------------------------
(* What is settled is left alone                                           *)

\* A replay that has not got a failure in hand does not touch it, and takes it up
\* only when it lists it; a delay that passes changes nothing but when it is due.
LEMMA OutOfHand ==
  ASSUME TypeInv, [Next]_vars, NEW i \in DOMAIN store,
         \A p \in Replayer : i \notin todo[p]
  PROVE  /\ store'[i] = store[i] \/ store'[i] = Elapsed(store[i])
         /\ \A p \in Replayer : i \in todo'[p] => i \in Listed
<1>1. /\ store \in Seq(Failure) /\ todo \in [Replayer -> SUBSET DOMAIN store]
  BY DEF TypeInv, TypeOK
<1>2. ASSUME NEW p \in Replayer, pc[p] # "idle"
      PROVE  Item(p) # i /\ Item(p) \in DOMAIN store
  BY <1>2, ItemInStore
<1>3. store'[i] = store[i] \/ store'[i] = Elapsed(store[i])
  <2>1. ASSUME NEW e \in Delivery, FanOutStep(e) PROVE store'[i] = store[i]
    BY <1>1, <2>1 DEF FanOutStep, Handle, RecordFailure, AuditFanOut
  <2>2. ASSUME NEW j \in DOMAIN store, RetryDelayElapses(j)
        PROVE  store'[i] = store[i] \/ store'[i] = Elapsed(store[i])
    BY <1>1, <2>2 DEF RetryDelayElapses, Elapsed
  <2>3. ASSUME NEW p \in Replayer, ReplayStep(p) PROVE store'[i] = store[i]
    BY <1>1, <1>2, <2>3 DEF ReplayStep, List, HandleAgain, Resolve, Retry, AuditReplay,
                            MarkResolved, MarkRetried
  <2>4. QED
    BY <2>1, <2>2, <2>3 DEF Next, vars
<1>4. ASSUME NEW p \in Replayer PROVE i \in todo'[p] => i \in Listed
  <2>1. ASSUME NEW q \in Replayer, ReplayStep(q) PROVE i \in todo'[p] => i \in Listed
    BY <1>1, <2>1 DEF ReplayStep, List, HandleAgain, Resolve, Retry, AuditReplay, Advance
  <2>2. UNCHANGED todo => (i \in todo'[p] => i \in Listed)
    OBVIOUS
  <2>3. QED
    BY <2>1, <2>2 DEF Next, FanOutStep, Handle, RecordFailure, AuditFanOut,
                      RetryDelayElapses, replay, vars
<1>5. QED
  BY <1>3, <1>4

\* For any replays that overlap: what was resolved or given up, and is in nobody's
\* hands, keeps its attempts and its fate, and no replay takes it up again.
THEOREM SettledIsLeftAloneHolds == Spec => SettledIsLeftAlone
<1>1. ASSUME TypeInv, [Next]_vars, NEW i \in DOMAIN store,
             store[i].resolved \/ store[i].deadLettered,
             \A p \in Replayer : i \notin todo[p]
      PROVE  /\ store'[i] = [store[i] EXCEPT !.next = store'[i].next]
             /\ \A p \in Replayer : i \notin todo'[p]
  <2>1. store[i] \in Failure
    BY <1>1 DEF TypeInv, TypeOK
  <2>2. store'[i] = [store[i] EXCEPT !.next = store'[i].next]
    <3>1. CASE store'[i] = store[i]
      BY <2>1, <3>1 DEF Failure
    <3>2. CASE store'[i] = Elapsed(store[i])
      <4>1. store'[i].next = "now"
        BY <2>1, <3>2 DEF Elapsed, Failure
      <4>2. QED
        BY <3>2, <4>1 DEF Elapsed
    <3>3. QED
      BY <1>1, <3>1, <3>2, OutOfHand
  <2>3. i \notin Listed
    BY <1>1 DEF Listed, Replayable
  <2>4. QED
    BY <1>1, <2>2, <2>3, OutOfHand
<1>2. TypeInv /\ [Next]_vars =>
        [\A i \in DOMAIN store :
            /\ store[i].resolved \/ store[i].deadLettered
            /\ \A p \in Replayer : i \notin todo[p]
            => /\ store'[i] = [store[i] EXCEPT !.next = store'[i].next]
               /\ \A p \in Replayer : i \notin todo'[p]]_vars
  BY <1>1
<1>3. QED
  BY <1>2, TypeInvariant, PTL DEF Spec, SettledIsLeftAlone

-----------------------------------------------------------------------------
(* Dead letters are audited                                                *)

\* The fan-out that recorded failure i is about to append its entry,
FanOutAudits(i) ==
    /\ stage[store[i].event] = "audit"
    /\ store[i].subscriber = FanOut[at[store[i].event]]

\* or a replay is.
ReplayAudits(i) == \E p \in Replayer : pc[p] = "audit" /\ Item(p) = i

EntryOwed(i) == i \in audited \/ FanOutAudits(i) \/ ReplayAudits(i)

\* The subscribers that are given up at the first attempt,
AtOnce(x) == MaxAttempts[x] <= 1

\* and those whose giving up is recorded.
Recorded(x) == x \in Known \/ AtOnce(x)

\* A failure with a right to an entry.
Due(i) == store[i].deadLettered /\ Recorded(store[i].subscriber)

EntriesOwed == \A i \in DOMAIN store : Due(i) => EntryOwed(i)

\* No entry is there, or about to be, without its dead letter.
EntriesEarned ==
    /\ \A i \in audited : Due(i)
    /\ \A p \in Replayer : pc[p] = "audit" => Due(Item(p))

\* Attempts are counted from one.  What is given up at the first one is never listed,
\* and a fan-out appends an entry only for that.
FirstAttempts ==
    /\ \A i \in DOMAIN store :
          /\ store[i].retryCount >= 1
          /\ AtOnce(store[i].subscriber) => store[i].retryCount = 1
    /\ \A p \in Replayer : \A i \in todo[p] : ~AtOnce(store[i].subscriber)
    /\ \A e \in Delivery : stage[e] = "audit" => AtOnce(FanOut[at[e]])

AuditInv == EntriesOwed /\ EntriesEarned /\ FirstAttempts

LEMMA StoredFailure ==
  ASSUME TypeInv, NEW i \in DOMAIN store
  PROVE  store[i] \in Failure /\ store[i].event \in Delivery
<1>1. store[i] \in Failure
  BY DEF TypeInv, TypeOK
<1>2. QED
  BY <1>1 DEF Failure

\* Given up at the first attempt is given up when it is stored.
LEMMA AtOnceIsDeadLettered ==
  ASSUME TypeInv, DeadLetteredWhenExhausted, FirstAttempts, NEW i \in DOMAIN store,
         AtOnce(store[i].subscriber)
  PROVE  store[i].deadLettered /\ store[i].next = "never"
<1>1. store[i].subscriber \in Subscriber /\ store[i].retryCount = 1
  BY StoredFailure DEF FirstAttempts, Failure
<1>2. Exhausted(store[i].subscriber, store[i].retryCount)
  BY <1>1 DEF AtOnce, Exhausted
<1>3. QED
  BY <1>2 DEF DeadLetteredWhenExhausted

\* One failure, whatever becomes of it.
LEMMA FateKeepsCount ==
  ASSUME NEW f \in Failure, NEW g, Fate(f, g),
         f.deadLettered <=> Exhausted(f.subscriber, f.retryCount)
  PROVE  /\ f.retryCount >= 1 => g.retryCount >= 1
         /\ f.deadLettered => g.deadLettered
<1>1. CASE g = f \/ g = Resolved(f) \/ g = Elapsed(f)
  BY <1>1 DEF Resolved, Elapsed, Failure
<1>2. CASE g = Retried(f)
  <2>1. /\ g.retryCount = f.retryCount + 1 /\ f.retryCount \in Nat
        /\ g.deadLettered = Exhausted(f.subscriber, f.retryCount + 1)
        /\ MaxAttempts[f.subscriber] \in Nat
    BY <1>2, PolicyAssumption DEF Retried, Failure
  <2>2. Exhausted(f.subscriber, f.retryCount) => Exhausted(f.subscriber, f.retryCount + 1)
    BY <2>1 DEF Exhausted
  <2>3. f.retryCount >= 1 => g.retryCount >= 1
    BY <2>1
  <2>4. QED
    BY <2>1, <2>2, <2>3
<1>3. QED
  BY <1>1, <1>2 DEF Fate

LEMMA FirstAttemptsNext ==
  ASSUME TypeInv, DeadLetteredWhenExhausted, FirstAttempts, [Next]_vars
  PROVE  FirstAttempts'
<1>1. /\ StoreStep /\ store \in Seq(Failure) /\ todo \in [Replayer -> SUBSET DOMAIN store]
      /\ stage \in [Delivery -> {"handle", "record", "audit", "stopped"}]
      /\ at \in [Delivery -> 1..(Len(FanOut) + 1)]
  BY EveryStepOnStore DEF TypeInv, TypeOK
<1>2. ASSUME NEW i \in DOMAIN store
      PROVE  store'[i].subscriber = store[i].subscriber /\ store'[i].retryCount >= 1
  <2>1. store[i] \in Failure /\ Fate(store[i], store'[i])
    BY <1>1 DEF StoreStep
  <2>2. store[i].deadLettered <=> Exhausted(store[i].subscriber, store[i].retryCount)
    BY DEF DeadLetteredWhenExhausted
  <2>3. QED
    BY <2>1, <2>2, FatesAreFailures, FateKeepsCount DEF FirstAttempts
<1>3. ASSUME NEW i \in DOMAIN store, AtOnce(store[i].subscriber)
      PROVE  store'[i].retryCount = 1 /\ \A p \in Replayer : i \notin todo'[p]
  <2>1. \A p \in Replayer : i \notin todo[p]
    BY <1>3 DEF FirstAttempts
  <2>2. store[i] \in Failure /\ store[i].retryCount = 1
    BY <1>1, <1>3 DEF FirstAttempts
  <2>3. store'[i].retryCount = 1
    BY <2>1, <2>2, OutOfHand DEF Elapsed, Failure
  <2>4. i \notin Listed
    BY <1>3, AtOnceIsDeadLettered DEF Listed, Replayable
  <2>5. QED
    BY <2>1, <2>3, <2>4, OutOfHand
<1>4. ASSUME NEW i \in DOMAIN store' \ DOMAIN store PROVE store'[i].retryCount = 1
  <2>1. PICK e \in Delivery, x \in Subscriber : store'[i] = NewFailure(e, x)
    BY <1>1 DEF StoreStep
  <2>2. QED
    BY <2>1 DEF NewFailure
<1>5. \A i \in DOMAIN store' :
         /\ store'[i].retryCount >= 1
         /\ AtOnce(store'[i].subscriber) => store'[i].retryCount = 1
  BY <1>2, <1>3, <1>4
<1>6. ASSUME NEW p \in Replayer, NEW i \in todo'[p] PROVE ~AtOnce(store'[i].subscriber)
  <2>1. i \in DOMAIN store
    <3>1. ASSUME NEW q \in Replayer, ReplayStep(q)
          PROVE  todo'[p] \subseteq todo[p] \cup DOMAIN store
      BY <1>1, <3>1 DEF ReplayStep, List, Listed, HandleAgain, Resolve, Retry, AuditReplay, Advance
    <3>2. (\E q \in Replayer : ReplayStep(q)) \/ UNCHANGED todo
      BY DEF Next, vars, FanOutStep, Handle, RecordFailure, AuditFanOut, RetryDelayElapses, replay
    <3>3. QED
      BY <1>1, <3>1, <3>2
  <2>2. QED
    BY <1>2, <1>3, <1>6, <2>1
<1>7. ASSUME NEW e \in Delivery, stage'[e] = "audit" PROVE AtOnce(FanOut[at'[e]])
  <2>1. CASE stage'[e] = stage[e] /\ at'[e] = at[e]
    BY <1>7, <2>1 DEF FirstAttempts
  <2>2. ASSUME NEW d \in Delivery, FanOutStep(d), d # e
        PROVE  stage'[e] = stage[e] /\ at'[e] = at[e]
    BY <1>1, <2>2 DEF FanOutStep, Handle, RecordFailure, AuditFanOut, GoOn
  <2>3. CASE Handle(e) \/ AuditFanOut(e)
    BY <1>1, <1>7, <2>3 DEF Handle, AuditFanOut, GoOn
  <2>4. CASE RecordFailure(e)
    BY <1>1, <1>7, <2>4 DEF RecordFailure, GoOn, AtOnce
  <2>5. CASE UNCHANGED fanOut
    BY <2>1, <2>5 DEF fanOut
  <2>6. QED
    BY <2>1, <2>2, <2>3, <2>4, <2>5
       DEF Next, vars, FanOutStep, RetryDelayElapses, ReplayStep, List, HandleAgain,
           Resolve, Retry, AuditReplay
<1>8. QED
  BY <1>5, <1>6, <1>7 DEF FirstAttempts, AtOnce

LEMMA FanOutOwes ==
  ASSUME TypeInv, EntriesOwed, NEW e \in Delivery, FanOutStep(e)
  PROVE  EntriesOwed'
<1>1. /\ store \in Seq(Failure)
      /\ stage \in [Delivery -> {"handle", "record", "audit", "stopped"}]
      /\ at \in [Delivery -> 1..(Len(FanOut) + 1)]
  BY DEF TypeInv, TypeOK
<1>2. \A i : ReplayAudits(i) => ReplayAudits(i)'
  BY DEF FanOutStep, Handle, RecordFailure, AuditFanOut, replay, ReplayAudits, Item
<1>3. \A d \in Delivery \ {e} : at'[d] = at[d] /\ stage'[d] = stage[d]
  BY <1>1 DEF FanOutStep, Handle, RecordFailure, AuditFanOut, GoOn
<1>4. CASE Handle(e)
  <2>1. ASSUME NEW i \in DOMAIN store, EntryOwed(i) PROVE EntryOwed(i)'
    BY <1>2, <1>3, <1>4, <2>1, StoredFailure DEF Handle, EntryOwed, FanOutAudits
  <2>2. QED
    BY <1>4, <2>1 DEF Handle, EntriesOwed, Due
<1>5. CASE RecordFailure(e)
  <2>1. ASSUME NEW i \in DOMAIN store, i \in DOMAIN store', store'[i] = store[i],
               Due(i)
        PROVE  EntryOwed(i)'
    <3>1. store[i].event \in Delivery
      BY StoredFailure
    <3>2. EntryOwed(i)
      BY <2>1 DEF EntriesOwed
    <3>3. stage[e] # "audit" /\ audited' = audited
      BY <1>5 DEF RecordFailure
    <3>4. QED
      BY <1>2, <1>3, <2>1, <3>1, <3>2, <3>3 DEF EntryOwed, FanOutAudits
  <2>2. CASE UNCHANGED store
    BY <2>1, <2>2 DEF EntriesOwed, Due
  <2>3. CASE store' = Append(store, NewFailure(e, FanOut[at[e]]))
    <3>1. /\ DOMAIN store' = DOMAIN store \cup {Len(store) + 1}
          /\ \A i \in DOMAIN store : store'[i] = store[i]
          /\ store'[Len(store) + 1] = NewFailure(e, FanOut[at[e]])
      BY <1>1, <2>3
    <3>2. PICK i : i = Len(store) + 1
      OBVIOUS
    <3>3. /\ store'[i].event = e /\ store'[i].subscriber = FanOut[at[e]]
          /\ store'[i].deadLettered = (MaxAttempts[FanOut[at[e]]] <= 1)
      BY <3>1, <3>2 DEF NewFailure
    <3>4. ASSUME store'[i].deadLettered PROVE FanOutAudits(i)'
      <4>1. store' # store
        BY <1>1, <2>3
      <4>2. stage' = [stage EXCEPT ![e] = "audit"] /\ UNCHANGED at
        BY <1>5, <3>3, <3>4, <4>1 DEF RecordFailure
      <4>3. QED
        BY <1>1, <3>3, <4>2 DEF FanOutAudits
    <3>5. QED
      BY <2>1, <3>1, <3>2, <3>4 DEF EntriesOwed, EntryOwed, Due
  <2>4. QED
    BY <1>5, <2>2, <2>3 DEF RecordFailure
<1>6. CASE AuditFanOut(e)
  <2>1. ASSUME NEW i \in DOMAIN store, Due(i)
        PROVE  EntryOwed(i)'
    <3>1. store[i].event \in Delivery /\ EntryOwed(i)
      BY <2>1, StoredFailure DEF EntriesOwed
    <3>2. CASE i \in audited \/ ReplayAudits(i)
      BY <1>2, <1>6, <3>2 DEF AuditFanOut, EntryOwed
    <3>3. CASE FanOutAudits(i) /\ store[i].event = e
      BY <1>6, <3>3 DEF AuditFanOut, EntryOwed, FanOutAudits
    <3>4. CASE FanOutAudits(i) /\ store[i].event # e
      BY <1>3, <1>6, <3>1, <3>4 DEF AuditFanOut, EntryOwed, FanOutAudits
    <3>5. QED
      BY <3>1, <3>2, <3>3, <3>4 DEF EntryOwed
  <2>2. QED
    BY <1>6, <2>1 DEF AuditFanOut, EntriesOwed, Due
<1>7. QED
  BY <1>4, <1>5, <1>6 DEF FanOutStep

\* A replay that is not the one to step keeps its place.
LEMMA OtherReplaysStay ==
  ASSUME TypeInv, NEW p \in Replayer, ReplayStep(p), NEW q \in Replayer \ {p}
  PROVE  pc'[q] = pc[q] /\ Item(q)' = Item(q)
<1>1. /\ pc \in [Replayer -> {"idle", "handle", "resolve", "retry", "audit"}]
      /\ todo \in [Replayer -> SUBSET DOMAIN store]
  BY DEF TypeInv, TypeOK
<1>2. pc'[q] = pc[q] /\ todo'[q] = todo[q]
  BY <1>1 DEF ReplayStep, List, HandleAgain, Resolve, Retry, AuditReplay, Advance, Goto
<1>3. QED
  BY <1>2 DEF Item

LEMMA ReplayOwes ==
  ASSUME TypeInv, EntriesOwed, FirstAttempts, NEW p \in Replayer, ReplayStep(p)
  PROVE  EntriesOwed'
<1>1. store \in Seq(Failure) /\ StoreStep
      /\ pc \in [Replayer -> {"idle", "handle", "resolve", "retry", "audit"}]
  BY EveryStepOnStore DEF TypeInv, TypeOK, Next
<1>2. DOMAIN store' = DOMAIN store /\ UNCHANGED fanOut
  BY <1>1 DEF ReplayStep, List, HandleAgain, Resolve, Retry, AuditReplay,
              MarkResolved, MarkRetried
<1>3. audited \subseteq audited'
  BY DEF ReplayStep, List, HandleAgain, Resolve, Retry, AuditReplay
<1>4. SUFFICES ASSUME NEW i \in DOMAIN store,
                      store'[i].deadLettered, Recorded(store'[i].subscriber)
               PROVE  EntryOwed(i)'
  BY <1>2 DEF EntriesOwed, Due, Recorded, AtOnce
<1>5. /\ store[i] \in Failure
      /\ store'[i].event = store[i].event /\ store'[i].subscriber = store[i].subscriber
  BY <1>1, FatesAreFailures DEF StoreStep
<1>6. CASE store[i].deadLettered
  <2>1. EntryOwed(i)
    BY <1>4, <1>5, <1>6 DEF EntriesOwed, Due
  <2>2. CASE i \in audited
    BY <1>3, <2>2 DEF EntryOwed
  <2>3. CASE FanOutAudits(i)
    BY <1>2, <1>5, <2>3 DEF EntryOwed, FanOutAudits, fanOut
  <2>4. ASSUME NEW q \in Replayer, pc[q] = "audit", Item(q) = i PROVE EntryOwed(i)'
    <3>1. CASE q = p
      <4>1. AuditReplay(p)
        BY <2>4, <3>1 DEF ReplayStep, List, HandleAgain, Resolve, Retry
      <4>2. QED
        BY <2>4, <3>1, <4>1 DEF AuditReplay, EntryOwed
    <3>2. CASE q # p
      BY <2>4, <3>2, OtherReplaysStay DEF EntryOwed, ReplayAudits
    <3>3. QED
      BY <3>1, <3>2
  <2>5. QED
    BY <2>1, <2>2, <2>3, <2>4 DEF EntryOwed, ReplayAudits
<1>7. CASE ~store[i].deadLettered
  <2>1. store'[i] # store[i]
    BY <1>4, <1>7
  <2>2. ~Resolve(p)
    <3>1. SUFFICES ASSUME Resolve(p) PROVE FALSE
      OBVIOUS
    <3>2. store[Item(p)] \in Failure /\ Item(p) \in DOMAIN store
      BY <3>1, ItemInStore DEF Resolve
    <3> DEFINE g == Resolved(store[Item(p)])
    <3>3. g \in Failure /\ g.deadLettered = store[Item(p)].deadLettered
      BY <3>2, FatesAreFailures DEF Resolved, Failure
    <3>4. store' = [store EXCEPT ![Item(p)] = g]
      BY <1>1, <2>1, <3>1, <3>2 DEF Resolve, MarkResolved, Resolved
    <3> HIDE DEF g
    <3>5. store'[i].deadLettered = store[i].deadLettered
      BY <1>1, <3>2, <3>3, <3>4, StoreUpdated
    <3>6. QED
      BY <1>4, <1>7, <3>5
  <2>3. Retry(p) /\ store' # store
    BY <2>1, <2>2 DEF ReplayStep, List, HandleAgain, AuditReplay
  <2> DEFINE f == store[Item(p)]
             deadLettered == Exhausted(f.subscriber, f.retryCount + 1)
  <2>4. Item(p) \in DOMAIN store
    BY <2>3, ItemInStore DEF Retry
  <2>5. store' = [store EXCEPT ![Item(p)] = Retried(f)]
    BY <1>1, <2>3, <2>4 DEF Retry, MarkRetried, Retried
  <2>6. i = Item(p) /\ store'[i] = Retried(f)
    BY <1>1, <2>1, <2>4, <2>5
  <2>7. deadLettered /\ f.subscriber \in Known
    <3>1. Retried(f).deadLettered = Exhausted(f.subscriber, f.retryCount + 1)
      BY <1>5, <2>6 DEF Retried, Failure
    <3>2. Item(p) \in todo[p]
      BY <2>3, ItemInStore DEF Retry
    <3>3. ~AtOnce(f.subscriber)
      BY <3>2 DEF FirstAttempts
    <3>4. QED
      BY <1>4, <1>5, <2>6, <3>1, <3>3 DEF Recorded
  <2>8. pc' = [pc EXCEPT ![p] = "audit"] /\ UNCHANGED todo
    BY <2>3, <2>7 DEF Retry, Goto
  <2>9. pc'[p] = "audit" /\ Item(p)' = i
    BY <1>1, <2>6, <2>8 DEF Item
  <2>10. QED
    BY <2>9 DEF EntryOwed, ReplayAudits
<1>8. QED
  BY <1>6, <1>7

LEMMA TimeOwes ==
  ASSUME TypeInv, EntriesOwed, NEW j \in DOMAIN store, RetryDelayElapses(j)
  PROVE  EntriesOwed'
<1>1. store \in Seq(Failure) /\ store' = [store EXCEPT ![j].next = "now"]
      /\ UNCHANGED <<fanOut, audited, replay>>
  BY DEF TypeInv, TypeOK, RetryDelayElapses
<1>2. DOMAIN store' = DOMAIN store
  BY <1>1
<1>3. \A i \in DOMAIN store : /\ store'[i].deadLettered = store[i].deadLettered
                              /\ store'[i].subscriber = store[i].subscriber
                              /\ store'[i].event = store[i].event
  BY <1>1 DEF Failure
<1>4. \A i \in DOMAIN store : EntryOwed(i) => EntryOwed(i)'
  BY <1>1, <1>3 DEF EntryOwed, FanOutAudits, ReplayAudits, Item, fanOut, replay
<1>5. QED
  BY <1>2, <1>3, <1>4 DEF EntriesOwed, Due, Recorded, AtOnce

\* What is due stays due.
LEMMA DueStays ==
  ASSUME TypeInv, DeadLetteredWhenExhausted, [Next]_vars, NEW i \in DOMAIN store, Due(i)
  PROVE  Due(i)'
<1>1. store[i] \in Failure /\ Fate(store[i], store'[i])
  BY EveryStepOnStore, StoredFailure DEF StoreStep
<1>2. store[i].deadLettered <=> Exhausted(store[i].subscriber, store[i].retryCount)
  BY DEF DeadLetteredWhenExhausted
<1>3. store'[i].deadLettered /\ store'[i].subscriber = store[i].subscriber
  BY <1>1, <1>2, FatesAreFailures, FateKeepsCount DEF Due
<1>4. QED
  BY <1>3 DEF Due, Recorded, AtOnce

\* Entries are appended by the fan-out that has given a failure up at once, and by the
\* replay that has given up a failure of a subscriber it knows.
LEMMA EntriesEarnedNext ==
  ASSUME TypeInv, DeadLetteredWhenExhausted, AuditInv, [Next]_vars
  PROVE  EntriesEarned'
<1>1. /\ store \in Seq(Failure) /\ audited \subseteq DOMAIN store
      /\ pc \in [Replayer -> {"idle", "handle", "resolve", "retry", "audit"}]
      /\ \A p \in Replayer : pc[p] = "audit" => Item(p) \in DOMAIN store
  BY ItemInStore DEF TypeInv, TypeOK
<1>2. \A i \in audited : Due(i)'
  BY <1>1, DueStays DEF AuditInv, EntriesEarned
<1>3. \A p \in Replayer : pc[p] = "audit" => Due(Item(p)) /\ Item(p) \in DOMAIN store
  BY <1>1 DEF AuditInv, EntriesEarned
<1>4. ASSUME NEW i \in audited' PROVE Due(i)'
  <2>1. CASE i \in audited
    BY <1>2, <2>1
  <2>2. ASSUME NEW e \in Delivery, AuditFanOut(e), i \notin audited PROVE Due(i)'
    <3>1. i \in DOMAIN store /\ store[i].subscriber = FanOut[at[e]] /\ stage[e] = "audit"
      BY <1>4, <2>2 DEF AuditFanOut
    <3>2. AtOnce(store[i].subscriber)
      BY <3>1 DEF AuditInv, FirstAttempts
    <3>3. Due(i)
      BY <3>1, <3>2, AtOnceIsDeadLettered DEF AuditInv, Due, Recorded
    <3>4. QED
      BY <3>1, <3>3, DueStays
  <2>3. ASSUME NEW p \in Replayer, AuditReplay(p), i \notin audited PROVE Due(i)'
    <3>1. i = Item(p) /\ pc[p] = "audit"
      BY <1>4, <2>3 DEF AuditReplay
    <3>2. QED
      BY <1>3, <3>1, DueStays
  <2>4. CASE UNCHANGED audited
    BY <1>4, <2>1, <2>4
  <2>5. QED
    BY <2>1, <2>2, <2>3, <2>4
       DEF Next, vars, FanOutStep, Handle, RecordFailure, RetryDelayElapses, ReplayStep,
           List, HandleAgain, Resolve, Retry
<1>5. ASSUME NEW p \in Replayer, pc'[p] = "audit" PROVE Due(Item(p))'
  <2>1. ASSUME pc[p] = "audit", Item(p)' = Item(p) PROVE Due(Item(p))'
    <3>1. PICK i \in DOMAIN store : i = Item(p) /\ Due(i)
      BY <1>3, <2>1
    <3>2. Due(i)' /\ i = Item(p)'
      BY <2>1, <3>1, DueStays
    <3>3. QED
      BY <3>2 DEF Due
  <2>2. ASSUME NEW q \in Replayer, ReplayStep(q), q # p PROVE Due(Item(p))'
    BY <1>5, <2>1, <2>2, OtherReplaysStay
  <2>3. CASE UNCHANGED replay
    BY <1>5, <2>1, <2>3 DEF replay, Item
  <2>4. CASE ReplayStep(p)
    <3>1. Retry(p)
      BY <1>1, <1>5, <2>4 DEF ReplayStep, List, HandleAgain, Resolve, Retry, AuditReplay,
                              Advance, Goto
    <3> DEFINE i == Item(p)
               f == store[i]
    <3>2. i \in DOMAIN store /\ f \in Failure
      BY <3>1, ItemInStore DEF Retry
    <3>3. /\ MarkRetried(i, Exhausted(f.subscriber, f.retryCount + 1))
          /\ Exhausted(f.subscriber, f.retryCount + 1) /\ f.subscriber \in Known
          /\ UNCHANGED todo
      BY <1>1, <1>5, <3>1 DEF Retry, Advance, Goto
    <3>4. store' = [store EXCEPT ![i] = Retried(f)]
      BY <1>1, <3>2, <3>3 DEF MarkRetried, Retried
    <3>5. store'[i].deadLettered /\ store'[i].subscriber = f.subscriber
      BY <1>1, <3>2, <3>3, <3>4 DEF Retried, Failure
    <3>6. Item(p)' = i
      BY <3>3 DEF Item
    <3>7. QED
      BY <3>3, <3>5, <3>6 DEF Due, Recorded
  <2>5. QED
    BY <2>2, <2>3, <2>4 DEF Next, vars, FanOutStep, Handle, RecordFailure, AuditFanOut,
                            RetryDelayElapses
<1>6. QED
  BY <1>4, <1>5 DEF EntriesEarned

\* Whatever the store rejects and however replays overlap: when nobody is at work any
\* more, the audit log has the dead letters of the subscribers that replays are given
\* and those given up at the first attempt; no other dead letter, and nothing else.
THEOREM DeadLettersAreAuditedHolds == Spec => []DeadLettersAreAudited
<1>1. Init => AuditInv
  BY DEF Init, AuditInv, EntriesOwed, EntriesEarned, FirstAttempts
<1>2. ASSUME TypeInv, DeadLetteredWhenExhausted, AuditInv, [Next]_vars PROVE AuditInv'
  <2>1. EntriesOwed'
    <3>1. CASE UNCHANGED vars
      BY <1>2, <3>1 DEF vars, fanOut, replay, AuditInv, EntriesOwed, EntryOwed, FanOutAudits,
                        ReplayAudits, Item, Due
    <3>2. QED
      BY <1>2, <3>1, FanOutOwes, ReplayOwes, TimeOwes DEF Next, AuditInv
  <2>2. QED
    BY <1>2, <2>1, EntriesEarnedNext, FirstAttemptsNext DEF AuditInv
<1>3. TypeInv /\ DeadLetteredWhenExhausted /\ AuditInv => DeadLettersAreAudited
  <2>1. SUFFICES ASSUME TypeInv, DeadLetteredWhenExhausted, AuditInv,
                        \A e \in Delivery : ~AtSubscriber(e) \/ stage[e] = "stopped",
                        \A p \in Replayer : pc[p] = "idle",
                        NEW i \in DOMAIN store
                 PROVE  i \in audited <=>
                            /\ store[i].deadLettered
                            /\ store[i].subscriber \in Known \/ store[i].retryCount = 1
    BY DEF DeadLettersAreAudited
  <2>2. store[i] \in Failure /\ store[i].event \in Delivery
    BY <2>1, StoredFailure
  <2>3. ~FanOutAudits(i) /\ ~ReplayAudits(i)
    BY <2>1, <2>2 DEF FanOutAudits, ReplayAudits, TypeInv, AtWork
  <2>4. i \in audited <=> Due(i)
    BY <2>1, <2>3 DEF AuditInv, EntriesOwed, EntriesEarned, EntryOwed
  <2>5. store[i].deadLettered => (AtOnce(store[i].subscriber) <=> store[i].retryCount = 1)
    BY <2>1, <2>2 DEF DeadLetteredWhenExhausted, AuditInv, FirstAttempts, AtOnce, Exhausted
  <2>6. QED
    BY <2>4, <2>5 DEF Due, Recorded
<1>4. QED
  BY <1>1, <1>2, <1>3, TypeInvariant, DeadLetteredWhenExhaustedHolds, PTL DEF Spec
===============================================================================
