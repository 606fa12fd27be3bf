-------------------------- MODULE OrderJourneyProofs --------------------------
(***************************************************************************)
(* Proofs about OrderJourney for any requests, keys, customers,            *)
(* dispatchers, subscribers, policies, replays and faults.                 *)
(*                                                                         *)
(* The first part says of the journey's fan-outs and replays what          *)
(* SubscriberDeliveryProofs says of SubscriberDelivery alone: the theorems *)
(* of an instantiated module cannot be cited, so its invariant of the      *)
(* failure store is proved again over the journey's variables.  The second *)
(* part follows an order from its payment to the read model.               *)
(***************************************************************************)
EXTENDS OrderJourney, WellFoundedInduction, TLAPS

SubscribersStep == Subscribers!Next \/ UNCHANGED subscribers

-----------------------------------------------------------------------------
(* The failure a replay is at                                              *)

\* Every non-empty set of positions has a first one.
LEMMA FirstExists ==
  ASSUME NEW T \in SUBSET Nat, T # {}
  PROVE  \E x \in T : \A y \in T : x <= y
<1>1. IsWellFoundedOn(OpToRel(<, Nat), Nat)
  BY NatLessThanWellFounded
<1>2. \A x, y \in Nat : <<x, y>> \in OpToRel(<, Nat) <=> x < y
  BY DEF OpToRel
<1>3. PICK less : IsWellFoundedOn(less, Nat) /\ \A x, y \in Nat : <<x, y>> \in less <=> x < y
  BY <1>1, <1>2
<1>4. PICK x \in T : \A y \in T : ~ (<<y, x>> \in less)
  <2>1. IsWellFoundedOn(less, Nat) /\ T \subseteq Nat /\ T # {}
    BY <1>3
  <2>2. QED
    BY <2>1, WFMin, Zenon
<1>5. \A y \in T : ~ (y < x)
  BY <1>3, <1>4
<1>6. QED
  BY <1>5

\* A replay that has something to do is at one of the failures it listed.
LEMMA ItemIsListed ==
  ASSUME NEW p \in Replayer, replayTodo[p] \subseteq DOMAIN store,
         store \in Seq(Subscribers!Failure), replayTodo[p] # {}
  PROVE  Subscribers!Item(p) \in replayTodo[p]
<1>1. replayTodo[p] \in SUBSET Nat
  OBVIOUS
<1>2. \E x \in replayTodo[p] : \A y \in replayTodo[p] : x <= y
  BY <1>1, FirstExists
<1>3. QED
  BY <1>2 DEF Subscribers!Item

\* What it hands over again, and to whom.
ItemOf(p) ==
    <<store[Subscribers!Item(p)].event, store[Subscribers!Item(p)].subscriber>>

-----------------------------------------------------------------------------
(* What a step does to the store                                           *)

\* What becomes of one failure: it is due, or resolved, or tried once more.
Elapsed(f)  == [f EXCEPT !.next = "now"]
Resolved(f) == [f EXCEPT !.resolved = TRUE, !.next = "never"]
Retried(f)  ==
    LET givenUp == Subscribers!Exhausted(f.subscriber, f.retryCount + 1)
    IN  [f EXCEPT !.retryCount = @ + 1,
                  !.next = IF givenUp THEN "never" ELSE "later",
                  !.deadLettered = givenUp]

Fate(f, g) ==
    \/ g = f \/ g = Resolved(f) \/ g = Retried(f)
    \/ f.next = "later" /\ g = Elapsed(f)

\* Failures are never taken out of the store, each one keeps its event and its
\* subscriber, and one that is added is new.
StoreStep ==
    /\ store' \in Seq(Subscribers!Failure)
    /\ DOMAIN store \subseteq DOMAIN store'
    /\ \A i \in DOMAIN store : Fate(store[i], store'[i])
    /\ \A i \in DOMAIN store' \ DOMAIN store :
          \E e \in Delivery, x \in Subscriber : store'[i] = Subscribers!NewFailure(e, x)

LEMMA FatesAreFailures ==
  ASSUME NEW f \in Subscribers!Failure
  PROVE  /\ Elapsed(f) \in Subscribers!Failure /\ Resolved(f) \in Subscribers!Failure
         /\ Retried(f) \in Subscribers!Failure
         /\ \A g : Fate(f, g) => g \in Subscribers!Failure /\ g.event = f.event
                                  /\ g.subscriber = f.subscriber
<1>1. Elapsed(f) \in Subscribers!Failure /\ Resolved(f) \in Subscribers!Failure
  BY DEF Subscribers!Failure, Elapsed, Resolved
<1>2. Subscribers!Exhausted(f.subscriber, f.retryCount + 1) \in BOOLEAN
  BY FanOutAssumption DEF Subscribers!Failure, Subscribers!Exhausted
<1>3. Retried(f) \in Subscribers!Failure
  <2>1. PICK b \in BOOLEAN : b = Subscribers!Exhausted(f.subscriber, f.retryCount + 1)
    BY <1>2
  <2>2. Retried(f) = [f EXCEPT !.retryCount = @ + 1, !.next = IF b THEN "never" ELSE "later",
                               !.deadLettered = b]
    BY <2>1 DEF Retried
  <2>3. f.retryCount + 1 \in Nat
    BY DEF Subscribers!Failure
  <2>4. CASE b = TRUE
    BY <2>2, <2>3, <2>4 DEF Subscribers!Failure
  <2>5. CASE b = FALSE
    BY <2>2, <2>3, <2>5 DEF Subscribers!Failure
  <2>6. QED
    BY <2>4, <2>5
<1>4. ASSUME NEW g, Fate(f, g)
      PROVE  g \in Subscribers!Failure /\ g.event = f.event /\ g.subscriber = f.subscriber
  <2>1. /\ Elapsed(f).event = f.event /\ Elapsed(f).subscriber = f.subscriber
        /\ Resolved(f).event = f.event /\ Resolved(f).subscriber = f.subscriber
        /\ Retried(f).event = f.event /\ Retried(f).subscriber = f.subscriber
    BY DEF Subscribers!Failure, Elapsed, Resolved, Retried
  <2>2. QED
    BY <1>1, <1>3, <1>4, <2>1 DEF Fate
<1>5. QED
  BY <1>1, <1>3, <1>4

LEMMA NewFailureIsOne ==
  ASSUME NEW e \in Delivery, NEW x \in Subscriber
  PROVE  Subscribers!NewFailure(e, x) \in Subscribers!Failure
BY FanOutAssumption DEF Subscribers!NewFailure, Subscribers!Failure

\* Changing a failure keeps the others.
LEMMA StoreUpdated ==
  ASSUME NEW s \in Seq(Subscribers!Failure), NEW i \in DOMAIN s, NEW f \in Subscribers!Failure
  PROVE  /\ [s EXCEPT ![i] = f] \in Seq(Subscribers!Failure)
         /\ DOMAIN [s EXCEPT ![i] = f] = DOMAIN s
         /\ \A j \in DOMAIN s : [s EXCEPT ![i] = f][j] = IF j = i THEN f ELSE s[j]
OBVIOUS

LEMMA StoreExtended ==
  ASSUME NEW s \in Seq(Subscribers!Failure), NEW f \in Subscribers!Failure
  PROVE  /\ Append(s, f) \in Seq(Subscribers!Failure)
         /\ DOMAIN Append(s, f) = DOMAIN s \cup {Len(s) + 1}
         /\ Len(s) + 1 \notin DOMAIN s
         /\ Append(s, f)[Len(s) + 1] = f
         /\ \A j \in DOMAIN s : Append(s, f)[j] = s[j]
OBVIOUS

LEMMA UpdateIsStoreStep ==
  ASSUME store \in Seq(Subscribers!Failure), NEW i \in DOMAIN store, NEW f,
         Fate(store[i], f), store' = [store EXCEPT ![i] = f]
  PROVE  StoreStep
<1>1. store[i] \in Subscribers!Failure
  OBVIOUS
<1>2. f \in Subscribers!Failure
  BY <1>1, FatesAreFailures
<1>3. QED
  BY <1>2, StoreUpdated DEF StoreStep, Fate

LEMMA AppendIsStoreStep ==
  ASSUME store \in Seq(Subscribers!Failure), NEW e \in Delivery, NEW x \in Subscriber,
         store' = Append(store, Subscribers!NewFailure(e, x))
  PROVE  StoreStep
BY NewFailureIsOne, StoreExtended DEF StoreStep, Fate

LEMMA NoStoreStep ==
  ASSUME store \in Seq(Subscribers!Failure), UNCHANGED store PROVE StoreStep
BY DEF StoreStep, Fate

-----------------------------------------------------------------------------
(* Types                                                                   *)

\* A fan-out that records or audits is at a subscriber, a replay at work at a
\* failure of its list.
AtWork ==
    /\ \A e \in Delivery : stage[e] \in {"record", "audit"} => Subscribers!AtSubscriber(e)
    /\ \A p \in Replayer : replayPc[p] # "idle" => replayTodo[p] # {}

FanOutTypeInv == Subscribers!TypeOK /\ AtWork

LEMMA InitTypes == Subscribers!Init => FanOutTypeInv
<1>1. Len(FanOut) \in Nat
  BY FanOutAssumption
<1>2. QED
  BY <1>1, FanOutAssumption DEF Subscribers!Init, FanOutTypeInv, Subscribers!TypeOK, AtWork

LEMMA ItemInStore ==
  ASSUME FanOutTypeInv, NEW p \in Replayer, replayPc[p] # "idle"
  PROVE  /\ Subscribers!Item(p) \in replayTodo[p] /\ Subscribers!Item(p) \in DOMAIN store
         /\ store[Subscribers!Item(p)] \in Subscribers!Failure
<1>1. Subscribers!Item(p) \in replayTodo[p]
  BY ItemIsListed DEF FanOutTypeInv, Subscribers!TypeOK, AtWork
<1>2. replayTodo[p] \subseteq DOMAIN store /\ store \in Seq(Subscribers!Failure)
  BY DEF FanOutTypeInv, Subscribers!TypeOK
<1>3. QED
  BY <1>1, <1>2

\* Each action's effect on the store.
LEMMA ActionsOnStore ==
  ASSUME FanOutTypeInv
  PROVE  /\ \A e \in Delivery : Subscribers!RecordFailure(e) => StoreStep
         /\ \A i \in DOMAIN store : Subscribers!RetryDelayElapses(i) => StoreStep
         /\ \A p \in Replayer : Subscribers!Resolve(p) => StoreStep
         /\ \A p \in Replayer : Subscribers!Retry(p) => StoreStep
<1>1. store \in Seq(Subscribers!Failure)
  BY DEF FanOutTypeInv, Subscribers!TypeOK
<1>2. ASSUME NEW e \in Delivery, Subscribers!RecordFailure(e) PROVE StoreStep
  <2>1. FanOut[at[e]] \in Subscriber
    BY <1>2, FanOutAssumption DEF Subscribers!RecordFailure, FanOutTypeInv,
                                  Subscribers!TypeOK, AtWork, Subscribers!AtSubscriber
  <2>2. QED
    BY <1>1, <1>2, <2>1, AppendIsStoreStep, NoStoreStep DEF Subscribers!RecordFailure
<1>3. ASSUME NEW i \in DOMAIN store, Subscribers!RetryDelayElapses(i) PROVE StoreStep
  <2>1. store' = [store EXCEPT ![i] = Elapsed(store[i])]
    BY <1>1, <1>3 DEF Subscribers!RetryDelayElapses, Elapsed
  <2>2. Fate(store[i], Elapsed(store[i]))
    BY <1>3 DEF Subscribers!RetryDelayElapses, Fate
  <2>3. QED
    BY <1>1, <2>1, <2>2, UpdateIsStoreStep
<1>4. ASSUME NEW p \in Replayer, Subscribers!Resolve(p) PROVE StoreStep
  <2>1. Subscribers!Item(p) \in DOMAIN store
    BY <1>4, ItemInStore DEF Subscribers!Resolve
  <2>2. CASE UNCHANGED store
    BY <1>1, <2>2, NoStoreStep
  <2>3. CASE Subscribers!MarkResolved(Subscribers!Item(p))
    <3>1. store' = [store EXCEPT ![Subscribers!Item(p)] = Resolved(store[Subscribers!Item(p)])]
      BY <1>1, <2>1, <2>3 DEF Subscribers!MarkResolved, Resolved
    <3>2. QED
      BY <1>1, <2>1, <3>1, UpdateIsStoreStep DEF Fate
  <2>4. QED
    BY <1>4, <2>2, <2>3 DEF Subscribers!Resolve
<1>5. ASSUME NEW p \in Replayer, Subscribers!Retry(p) PROVE StoreStep
  <2> DEFINE f == store[Subscribers!Item(p)]
  <2>1. Subscribers!Item(p) \in DOMAIN store
    BY <1>5, ItemInStore DEF Subscribers!Retry
  <2>2. CASE UNCHANGED store
    BY <1>1, <2>2, NoStoreStep
  <2>3. CASE Subscribers!MarkRetried(Subscribers!Item(p),
                                    Subscribers!Exhausted(f.subscriber, f.retryCount + 1))
    <3>1. store' = [store EXCEPT ![Subscribers!Item(p)] = Retried(f)]
      BY <1>1, <2>1, <2>3 DEF Subscribers!MarkRetried, Retried
    <3>2. QED
      BY <1>1, <2>1, <3>1, UpdateIsStoreStep DEF Fate
  <2>4. QED
    BY <1>5, <2>2, <2>3 DEF Subscribers!Retry
<1>6. QED
  BY <1>2, <1>3, <1>4, <1>5

LEMMA EveryStepOnStore ==
  ASSUME FanOutTypeInv, SubscribersStep PROVE StoreStep
<1>1. store \in Seq(Subscribers!Failure)
  BY DEF FanOutTypeInv, Subscribers!TypeOK
<1>2. ASSUME NEW e \in Delivery, Subscribers!Handle(e) \/ Subscribers!AuditFanOut(e)
      PROVE  StoreStep
  BY <1>1, <1>2, NoStoreStep DEF Subscribers!Handle, Subscribers!AuditFanOut
<1>3. ASSUME NEW p \in Replayer, \/ Subscribers!List(p) \/ Subscribers!HandleAgain(p)
                                 \/ Subscribers!AuditReplay(p)
      PROVE  StoreStep
  BY <1>1, <1>3, NoStoreStep DEF Subscribers!List, Subscribers!HandleAgain,
                                 Subscribers!AuditReplay
<1>4. CASE UNCHANGED subscribers
  BY <1>1, <1>4, NoStoreStep DEF subscribers
<1>5. QED
  BY <1>2, <1>3, <1>4, ActionsOnStore DEF SubscribersStep, Subscribers!Next,
                                          Subscribers!FanOutStep, Subscribers!ReplayStep

\* Going to the next failure, or on to the next subscriber, keeps the types.
LEMMA AdvanceKeepsType ==
  ASSUME FanOutTypeInv, StoreStep, NEW p \in Replayer, Subscribers!Advance(p)
  PROVE  /\ replayTodo' \in [Replayer -> SUBSET DOMAIN store']
         /\ replayPc' \in [Replayer -> {"idle", "handle", "resolve", "retry", "audit"}]
         /\ \A q \in Replayer : replayPc'[q] # "idle" => replayTodo'[q] # {}
<1> DEFINE rest == replayTodo[p] \ {Subscribers!Item(p)}
<1>1. /\ replayTodo \in [Replayer -> SUBSET DOMAIN store]
      /\ replayPc \in [Replayer -> {"idle", "handle", "resolve", "retry", "audit"}]
      /\ \A q \in Replayer : replayPc[q] # "idle" => replayTodo[q] # {}
      /\ DOMAIN store \subseteq DOMAIN store'
  BY DEF FanOutTypeInv, Subscribers!TypeOK, AtWork, StoreStep
<1>2. /\ replayTodo' = [replayTodo EXCEPT ![p] = rest]
      /\ replayPc' = [replayPc EXCEPT ![p] = IF rest = {} THEN "idle" ELSE "handle"]
  BY DEF Subscribers!Advance, Subscribers!Goto
<1>3. rest \in SUBSET DOMAIN store'
  BY <1>1
<1> HIDE DEF rest
<1>4. QED
  BY <1>1, <1>2, <1>3

LEMMA GoOnKeepsType ==
  ASSUME FanOutTypeInv, NEW e \in Delivery, Subscribers!AtSubscriber(e), Subscribers!GoOn(e)
  PROVE  /\ at' \in [Delivery -> 1..(Len(FanOut) + 1)]
         /\ stage' \in [Delivery -> {"handle", "record", "audit", "stopped"}]
         /\ \A d \in Delivery : stage'[d] \in {"record", "audit"} => at'[d] <= Len(FanOut)
<1>1. Len(FanOut) \in Nat
  BY FanOutAssumption
<1>2. QED
  BY <1>1 DEF FanOutTypeInv, Subscribers!TypeOK, AtWork, Subscribers!AtSubscriber,
              Subscribers!GoOn

FanOutTypes ==
    /\ at \in [Delivery -> 1..(Len(FanOut) + 1)]
    /\ stage \in [Delivery -> {"handle", "record", "audit", "stopped"}]
    /\ \A e \in Delivery : stage[e] \in {"record", "audit"} => Subscribers!AtSubscriber(e)

ReplayTypes ==
    /\ replayPc \in [Replayer -> {"idle", "handle", "resolve", "retry", "audit"}]
    /\ replayTodo \in [Replayer -> SUBSET DOMAIN store]
    /\ \A p \in Replayer : replayPc[p] # "idle" => replayTodo[p] # {}

LogTypes ==
    /\ handled \subseteq Delivery \X Subscriber
    /\ audited \subseteq DOMAIN store
    /\ faults \in 0..MaxFaults

LEMMA TypeParts ==
    FanOutTypeInv <=>
        FanOutTypes /\ ReplayTypes /\ LogTypes /\ store \in Seq(Subscribers!Failure)
BY DEF FanOutTypeInv, Subscribers!TypeOK, AtWork, FanOutTypes, ReplayTypes, LogTypes

\* Every step keeps the types.
LEMMA NextTypes == FanOutTypeInv /\ SubscribersStep => FanOutTypeInv'
<1> SUFFICES ASSUME FanOutTypeInv, SubscribersStep PROVE FanOutTypeInv'
  OBVIOUS
<1>1. StoreStep /\ store' \in Seq(Subscribers!Failure) /\ DOMAIN store \subseteq DOMAIN store'
  BY EveryStepOnStore DEF StoreStep
<1>2. FanOutTypes /\ ReplayTypes /\ LogTypes
  BY TypeParts
<1>3. \A n \in 0..MaxFaults : n < MaxFaults => n + 1 \in 0..MaxFaults
  BY FanOutAssumption
<1>4. SUFFICES FanOutTypes' /\ ReplayTypes' /\ LogTypes'
  BY <1>1 DEF FanOutTypes, ReplayTypes, LogTypes, FanOutTypeInv, Subscribers!TypeOK, AtWork
<1>5. ASSUME NEW e \in Delivery, Subscribers!Handle(e)
      PROVE  FanOutTypes' /\ ReplayTypes' /\ LogTypes'
  <2>1. FanOut[at[e]] \in Subscriber
    BY <1>2, <1>5, FanOutAssumption DEF Subscribers!Handle, FanOutTypes,
                                        Subscribers!AtSubscriber
  <2>2. FanOutTypes'
    BY <1>2, <1>5, GoOnKeepsType DEF Subscribers!Handle, FanOutTypes,
                                     Subscribers!AtSubscriber
  <2>3. QED
    BY <1>2, <1>5, <2>1, <2>2 DEF Subscribers!Handle, ReplayTypes, LogTypes,
                                  Subscribers!replay
<1>6. ASSUME NEW e \in Delivery, Subscribers!RecordFailure(e)
      PROVE  FanOutTypes' /\ ReplayTypes' /\ LogTypes'
  <2>1. FanOutTypes'
    BY <1>2, <1>6, GoOnKeepsType DEF Subscribers!RecordFailure, FanOutTypes,
                                     Subscribers!AtSubscriber
  <2>2. ReplayTypes'
    BY <1>1, <1>2, <1>6 DEF Subscribers!RecordFailure, ReplayTypes, Subscribers!replay
  <2>3. LogTypes'
    BY <1>1, <1>2, <1>3, <1>6 DEF Subscribers!RecordFailure, LogTypes, Subscribers!Fault
  <2>4. QED
    BY <2>1, <2>2, <2>3
<1>7. ASSUME NEW e \in Delivery, Subscribers!AuditFanOut(e)
      PROVE  FanOutTypes' /\ ReplayTypes' /\ LogTypes'
  <2>1. FanOutTypes'
    BY <1>2, <1>7, GoOnKeepsType DEF Subscribers!AuditFanOut, FanOutTypes,
                                     Subscribers!AtSubscriber
  <2>2. QED
    BY <1>2, <1>7, <2>1 DEF Subscribers!AuditFanOut, ReplayTypes, LogTypes,
                            Subscribers!replay
<1>8. ASSUME NEW i \in DOMAIN store, Subscribers!RetryDelayElapses(i)
      PROVE  FanOutTypes' /\ ReplayTypes' /\ LogTypes'
  BY <1>1, <1>2, <1>8
     DEF Subscribers!RetryDelayElapses, FanOutTypes, ReplayTypes, LogTypes,
         Subscribers!fanOut, Subscribers!replay, Subscribers!AtSubscriber
<1>9. ASSUME NEW p \in Replayer, Subscribers!List(p)
      PROVE  FanOutTypes' /\ ReplayTypes' /\ LogTypes'
  <2>1. Subscribers!Listed \subseteq DOMAIN store
    BY DEF Subscribers!Listed
  <2>2. ReplayTypes'
    BY <1>2, <1>9, <2>1 DEF Subscribers!List, Subscribers!Goto, ReplayTypes
  <2>3. QED
    BY <1>2, <1>9, <2>2 DEF Subscribers!List, FanOutTypes, LogTypes, Subscribers!fanOut,
                            Subscribers!AtSubscriber
<1>10. ASSUME NEW p \in Replayer, Subscribers!HandleAgain(p)
       PROVE  FanOutTypes' /\ ReplayTypes' /\ LogTypes'
  <2>1. store[Subscribers!Item(p)] \in Subscribers!Failure
    BY <1>10, ItemInStore DEF Subscribers!HandleAgain
  <2>2. ItemOf(p) \in Delivery \X Subscriber
    BY <2>1 DEF Subscribers!Failure, ItemOf
  <2>3. ReplayTypes'
    BY <1>2, <1>10 DEF Subscribers!HandleAgain, Subscribers!Goto, ReplayTypes
  <2>4. QED
    BY <1>2, <1>10, <2>2, <2>3 DEF Subscribers!HandleAgain, FanOutTypes, LogTypes,
                                   Subscribers!fanOut, ItemOf, Subscribers!AtSubscriber
<1>11. ASSUME NEW p \in Replayer, Subscribers!Resolve(p)
       PROVE  FanOutTypes' /\ ReplayTypes' /\ LogTypes'
  <2>1. ReplayTypes'
    BY <1>1, <1>2, <1>11, AdvanceKeepsType DEF Subscribers!Resolve, Subscribers!Goto,
                                               ReplayTypes
  <2>2. LogTypes'
    BY <1>1, <1>2, <1>3, <1>11 DEF Subscribers!Resolve, LogTypes, Subscribers!Fault
  <2>3. QED
    BY <1>2, <1>11, <2>1, <2>2 DEF Subscribers!Resolve, FanOutTypes, Subscribers!fanOut,
                                   Subscribers!AtSubscriber
<1>12. ASSUME NEW p \in Replayer, Subscribers!Retry(p)
       PROVE  FanOutTypes' /\ ReplayTypes' /\ LogTypes'
  <2>1. ASSUME Subscribers!Advance(p) PROVE ReplayTypes'
    BY <1>1, <2>1, AdvanceKeepsType DEF ReplayTypes
  <2>2. ASSUME UNCHANGED replayTodo /\ Subscribers!Goto(p, "audit") PROVE ReplayTypes'
    BY <1>1, <1>2, <1>12, <2>2 DEF Subscribers!Retry, Subscribers!Goto, ReplayTypes
  <2>3. ASSUME Subscribers!Goto(p, "idle") /\ replayTodo' = [replayTodo EXCEPT ![p] = {}]
        PROVE  ReplayTypes'
    BY <1>1, <1>2, <2>3 DEF Subscribers!Goto, ReplayTypes
  <2>4. ReplayTypes'
    BY <1>12, <2>1, <2>2, <2>3 DEF Subscribers!Retry
  <2>5. LogTypes'
    BY <1>1, <1>2, <1>3, <1>12 DEF Subscribers!Retry, LogTypes, Subscribers!Fault
  <2>6. QED
    BY <1>2, <1>12, <2>4, <2>5 DEF Subscribers!Retry, FanOutTypes, Subscribers!fanOut,
                                   Subscribers!AtSubscriber
<1>13. ASSUME NEW p \in Replayer, Subscribers!AuditReplay(p)
       PROVE  FanOutTypes' /\ ReplayTypes' /\ LogTypes'
  <2>1. Subscribers!Item(p) \in DOMAIN store
    BY <1>13, ItemInStore DEF Subscribers!AuditReplay
  <2>2. ReplayTypes'
    BY <1>1, <1>13, AdvanceKeepsType DEF Subscribers!AuditReplay, ReplayTypes
  <2>3. QED
    BY <1>2, <1>13, <2>1, <2>2 DEF Subscribers!AuditReplay, FanOutTypes, LogTypes,
                                   Subscribers!fanOut, Subscribers!AtSubscriber
<1>14. CASE UNCHANGED subscribers
  BY <1>2, <1>14 DEF subscribers, Subscribers!fanOut, Subscribers!replay, FanOutTypes,
                     ReplayTypes, LogTypes, Subscribers!AtSubscriber
<1>15. QED
  BY <1>5, <1>6, <1>7, <1>8, <1>9, <1>10, <1>11, <1>12, <1>13, <1>14
     DEF SubscribersStep, Subscribers!Next, Subscribers!FanOutStep, Subscribers!ReplayStep



LEMMA NewFailureKeepsPolicy ==
  ASSUME NEW e \in Delivery, NEW x \in Subscriber
  PROVE  LET f == Subscribers!NewFailure(e, x) IN
         /\ f.deadLettered <=> Subscribers!Exhausted(f.subscriber, f.retryCount)
         /\ f.deadLettered => f.next = "never"
BY FanOutAssumption DEF Subscribers!NewFailure, Subscribers!Exhausted

\* For any policies, and however replays overlap and the store rejects: a failure is
-----------------------------------------------------------------------------
(* No subscriber forgotten                                                 *)

\* A subscriber that the fan-out has gone past got the event or has a failure.
Kept(e, x) ==
    \/ <<e, x>> \in handled
    \/ \E i \in DOMAIN store : store[i].event = e /\ store[i].subscriber = x

PassedAreKept ==
    \A e \in Delivery :
        /\ \A n \in 1..(at[e] - 1) : Kept(e, FanOut[n])
        /\ stage[e] = "audit" => Kept(e, FanOut[at[e]])

\* A failure that nobody will replay was given up, or its subscriber got the event.
LeftAreHandled ==
    \A i \in DOMAIN store :
        /\ store[i].resolved => <<store[i].event, store[i].subscriber>> \in handled
        /\ store[i].next = "never" => store[i].deadLettered \/ store[i].resolved

ResolvedNextIsHandled ==
    \A p \in Replayer : replayPc[p] = "resolve" =>
        ItemOf(p) \in handled

ForgottenInv ==
    FanOutTypeInv /\ PassedAreKept /\ LeftAreHandled /\ ResolvedNextIsHandled

\* Nothing is unsaid: an event that was handled stays so, a failure stays in the
\* store with its event and its subscriber.
LEMMA NothingUnsaid ==
  ASSUME FanOutTypeInv, SubscribersStep
  PROVE  /\ handled \subseteq handled'
         /\ \A i \in DOMAIN store :
               /\ i \in DOMAIN store' /\ store'[i].event = store[i].event
               /\ store'[i].subscriber = store[i].subscriber
         /\ \A e, x : Kept(e, x) => Kept(e, x)'
<1>1. handled \subseteq handled'
  BY DEF SubscribersStep, Subscribers!Next, Subscribers!FanOutStep,
         Subscribers!ReplayStep, Subscribers!Handle, Subscribers!RecordFailure,
         Subscribers!AuditFanOut,
         Subscribers!RetryDelayElapses, Subscribers!List, Subscribers!HandleAgain,
         Subscribers!Resolve, Subscribers!Retry, Subscribers!AuditReplay, subscribers
<1>2. ASSUME NEW i \in DOMAIN store
      PROVE  /\ i \in DOMAIN store' /\ store'[i].event = store[i].event
             /\ store'[i].subscriber = store[i].subscriber
  <2>1. StoreStep /\ store[i] \in Subscribers!Failure
    BY EveryStepOnStore DEF FanOutTypeInv, Subscribers!TypeOK
  <2>2. QED
    BY <2>1, FatesAreFailures DEF StoreStep
<1>3. QED
  BY <1>1, <1>2 DEF Kept

\* Only a replay that has had its failure handled marks it as resolved.
LEMMA ResolvedByReplay ==
  ASSUME FanOutTypeInv, SubscribersStep, NEW i \in DOMAIN store,
         store'[i].resolved # store[i].resolved
  PROVE  \E p \in Replayer : replayPc[p] = "resolve" /\ i = Subscribers!Item(p)
<1>1. store \in Seq(Subscribers!Failure) /\ store[i] \in Subscribers!Failure
  BY DEF FanOutTypeInv, Subscribers!TypeOK
<1>2. ASSUME NEW p \in Replayer, Subscribers!Resolve(p)
      PROVE  \E q \in Replayer : replayPc[q] = "resolve" /\ i = Subscribers!Item(q)
  BY <1>1, <1>2 DEF Subscribers!Resolve, Subscribers!MarkResolved
<1>3. ASSUME NEW p \in Replayer, Subscribers!Retry(p) PROVE FALSE
  <2>1. /\ store[Subscribers!Item(p)] \in Subscribers!Failure
        /\ Subscribers!Item(p) \in DOMAIN store
    BY <1>3, ItemInStore DEF Subscribers!Retry
  <2> DEFINE f == store[Subscribers!Item(p)]
             g == Retried(f)
  <2>2. g \in Subscribers!Failure
    BY <2>1, FatesAreFailures
  <2>3. g.resolved = f.resolved
    BY <2>1 DEF Retried, Subscribers!Failure
  <2>4. UNCHANGED store \/ store' = [store EXCEPT ![Subscribers!Item(p)] = g]
    BY <1>1, <1>3, <2>1 DEF Subscribers!Retry, Subscribers!MarkRetried, Retried
  <2> HIDE DEF g
  <2>5. store'[i].resolved = store[i].resolved
    BY <1>1, <2>1, <2>2, <2>3, <2>4, StoreUpdated
  <2>6. QED
    BY <2>5
<1>4. ASSUME NEW e \in Delivery, Subscribers!RecordFailure(e) PROVE FALSE
  BY <1>1, <1>4 DEF Subscribers!RecordFailure
<1>5. ASSUME NEW j \in DOMAIN store, Subscribers!RetryDelayElapses(j) PROVE FALSE
  <2> DEFINE g == Elapsed(store[j])
  <2>1. store[j] \in Subscribers!Failure
    BY <1>1
  <2>2. g \in Subscribers!Failure /\ g.resolved = store[j].resolved
    BY <2>1, FatesAreFailures DEF Elapsed, Subscribers!Failure
  <2>3. store' = [store EXCEPT ![j] = g]
    BY <1>1, <1>5 DEF Subscribers!RetryDelayElapses, Elapsed
  <2> HIDE DEF g
  <2>4. store'[i].resolved = store[i].resolved
    BY <1>1, <2>2, <2>3, StoreUpdated
  <2>5. QED
    BY <2>4
<1>6. UNCHANGED store => FALSE
  OBVIOUS
<1>7. QED
  BY <1>2, <1>3, <1>4, <1>5, <1>6
     DEF SubscribersStep, Subscribers!Next, Subscribers!FanOutStep,
         Subscribers!ReplayStep, Subscribers!Handle, Subscribers!AuditFanOut,
         Subscribers!List, Subscribers!HandleAgain, Subscribers!AuditReplay, subscribers

\* A replay about to resolve was so before, or has just had its failure handled.
LEMMA AboutToResolve ==
  ASSUME FanOutTypeInv, SubscribersStep, NEW p \in Replayer, replayPc'[p] = "resolve"
  PROVE  /\ replayTodo'[p] = replayTodo[p] /\ replayPc[p] # "idle"
         /\ \/ replayPc[p] = "resolve"
            \/ ItemOf(p) \in handled'
<1>1. replayPc \in [Replayer -> {"idle", "handle", "resolve", "retry", "audit"}]
      /\ replayTodo \in [Replayer -> SUBSET DOMAIN store]
  BY DEF FanOutTypeInv, Subscribers!TypeOK
<1>2. ASSUME NEW q \in Replayer, Subscribers!ReplayStep(q), q # p
      PROVE  replayPc'[p] = replayPc[p] /\ replayTodo'[p] = replayTodo[p]
  BY <1>1, <1>2 DEF Subscribers!ReplayStep, Subscribers!List, Subscribers!HandleAgain,
                    Subscribers!Resolve, Subscribers!Retry, Subscribers!AuditReplay,
                    Subscribers!Advance, Subscribers!Goto
<1>3. ASSUME Subscribers!ReplayStep(p)
      PROVE  Subscribers!HandleAgain(p) /\ ItemOf(p) \in handled'
  BY <1>1, <1>3 DEF Subscribers!ReplayStep, Subscribers!List, Subscribers!HandleAgain,
                    Subscribers!Resolve, Subscribers!Retry, Subscribers!AuditReplay,
                    Subscribers!Advance, Subscribers!Goto, ItemOf
<1>4. ASSUME NEW e \in Delivery, Subscribers!FanOutStep(e)
      PROVE  UNCHANGED <<replayPc, replayTodo>>
  BY <1>4 DEF Subscribers!FanOutStep, Subscribers!Handle, Subscribers!RecordFailure,
              Subscribers!AuditFanOut, Subscribers!replay
<1>5. ASSUME NEW i \in DOMAIN store, Subscribers!RetryDelayElapses(i)
      PROVE  UNCHANGED <<replayPc, replayTodo>>
  BY <1>5 DEF Subscribers!RetryDelayElapses, Subscribers!replay
<1>6. CASE UNCHANGED subscribers
  BY <1>6 DEF subscribers, Subscribers!replay
<1>7. QED
  BY <1>2, <1>3, <1>4, <1>5, <1>6 DEF SubscribersStep, Subscribers!Next,
                                      Subscribers!HandleAgain

LEMMA NextForgottenInv == ForgottenInv /\ SubscribersStep => ForgottenInv'
<1> SUFFICES ASSUME ForgottenInv, SubscribersStep PROVE ForgottenInv'
  OBVIOUS
<1>1. FanOutTypeInv /\ FanOutTypeInv'
  BY NextTypes DEF ForgottenInv
<1>2. StoreStep /\ store \in Seq(Subscribers!Failure)
  BY <1>1, EveryStepOnStore DEF FanOutTypeInv, Subscribers!TypeOK
<1>3. \A e, x : Kept(e, x) => Kept(e, x)'
  BY <1>1, NothingUnsaid
<1>4. PassedAreKept'
  <2>1. ASSUME NEW e \in Delivery, \/ Subscribers!Handle(e) \/ Subscribers!RecordFailure(e)
                                   \/ Subscribers!AuditFanOut(e)
        PROVE  PassedAreKept'
    <3>1. /\ at \in [Delivery -> 1..(Len(FanOut) + 1)] /\ Len(FanOut) \in Nat
          /\ stage \in [Delivery -> {"handle", "record", "audit", "stopped"}]
      BY <1>1, FanOutAssumption DEF FanOutTypeInv, Subscribers!TypeOK
    <3>2. \A d \in Delivery \ {e} : at'[d] = at[d] /\ stage'[d] = stage[d]
      BY <2>1, <3>1 DEF Subscribers!Handle, Subscribers!RecordFailure,
                        Subscribers!AuditFanOut, Subscribers!GoOn
    <3>3. PICK n \in Nat : n = at[e]
      BY <3>1
    <3>4. PICK x : x = FanOut[n]
      OBVIOUS
    <3>5. \/ at'[e] = n /\ (stage'[e] = "audit" => Kept(e, x)')
          \/ at'[e] = n + 1 /\ stage'[e] # "audit" /\ Kept(e, x)'
      <4>1. CASE Subscribers!Handle(e)
        <5>1. CASE handled' = handled \cup {<<e, FanOut[at[e]]>>} /\ Subscribers!GoOn(e)
          <6>1. Kept(e, x)'
            BY <3>3, <3>4, <5>1 DEF Kept
          <6>2. QED
            BY <3>1, <3>3, <5>1, <6>1 DEF Subscribers!GoOn
        <5>2. CASE stage' = [stage EXCEPT ![e] = "record"] /\ UNCHANGED <<at, handled>>
          BY <3>1, <3>3, <5>2
        <5>3. QED
          BY <4>1, <5>1, <5>2 DEF Subscribers!Handle
      <4>2. CASE Subscribers!RecordFailure(e)
        <5>1. CASE store' = Append(store, Subscribers!NewFailure(e, FanOut[at[e]]))
          <6>1. /\ Len(store) + 1 \in DOMAIN store'
                /\ store'[Len(store) + 1] = Subscribers!NewFailure(e, x)
            BY <1>2, <3>3, <3>4, <5>1
          <6>2. Kept(e, x)'
            BY <6>1 DEF Kept, Subscribers!NewFailure
          <6>3. at'[e] = n \/ (at'[e] = n + 1 /\ stage'[e] # "audit")
            BY <4>2, <3>1, <3>3 DEF Subscribers!RecordFailure, Subscribers!GoOn
          <6>4. QED
            BY <6>2, <6>3
        <5>2. CASE UNCHANGED store /\ stage' = [stage EXCEPT ![e] = "stopped"] /\ UNCHANGED at
          BY <5>2, <3>1, <3>3
        <5>3. QED
          BY <4>2, <5>1, <5>2 DEF Subscribers!RecordFailure
      <4>3. CASE Subscribers!AuditFanOut(e)
        <5>1. Kept(e, x)
          BY <4>3, <3>3, <3>4 DEF Subscribers!AuditFanOut, ForgottenInv, PassedAreKept
        <5>2. Kept(e, x)'
          BY <5>1, <1>3
        <5>3. QED
          BY <4>3, <3>1, <3>3, <5>2 DEF Subscribers!AuditFanOut, Subscribers!GoOn
      <4>4. QED
        BY <2>1, <4>1, <4>2, <4>3
    <3>6. ASSUME NEW d \in Delivery, NEW m \in 1..(at'[d] - 1)
          PROVE  Kept(d, FanOut[m])'
      <4>1. PICK y : y = FanOut[m]
        OBVIOUS
      <4>2. m \in 1..(at[d] - 1) => Kept(d, y)'
        BY <1>3, <4>1 DEF ForgottenInv, PassedAreKept
      <4>3. m \in 1..(at[d] - 1) \/ (d = e /\ m = n /\ Kept(e, x)')
        BY <3>1, <3>2, <3>3, <3>5
      <4>4. Kept(d, y)'
        BY <4>1, <4>2, <4>3, <3>4
      <4>5. QED
        BY <4>1, <4>4 DEF Kept
    <3>7. ASSUME NEW d \in Delivery, stage'[d] = "audit"
          PROVE  Kept(d, FanOut[at[d]])'
      <4>1. PICK y : y = FanOut[at'[d]]
        OBVIOUS
      <4>2. CASE d = e
        <5>1. y = x /\ Kept(e, x)'
          BY <3>3, <3>4, <3>5, <3>7, <4>1, <4>2
        <5>2. QED
          BY <4>1, <4>2, <5>1 DEF Kept
      <4>3. CASE d # e
        <5>1. Kept(d, y)
          BY <3>2, <3>7, <4>1, <4>3 DEF ForgottenInv, PassedAreKept
        <5>2. Kept(d, y)'
          BY <5>1, <1>3
        <5>3. QED
          BY <4>1, <5>2 DEF Kept
      <4>4. QED
        BY <4>2, <4>3
    <3>8. QED
      BY <3>6, <3>7 DEF PassedAreKept
  <2>2. ASSUME UNCHANGED Subscribers!fanOut PROVE PassedAreKept'
    <3>1. at' = at /\ stage' = stage
      BY <2>2 DEF Subscribers!fanOut
    <3>2. ASSUME NEW d \in Delivery, NEW y, Kept(d, y) PROVE Kept(d, y)'
      BY <1>3, <3>2
    <3>3. ASSUME NEW d \in Delivery, NEW m \in 1..(at[d] - 1)
          PROVE  Kept(d, FanOut[m])'
      BY <3>2, <3>3 DEF ForgottenInv, PassedAreKept
    <3>4. ASSUME NEW d \in Delivery, stage[d] = "audit"
          PROVE  Kept(d, FanOut[at[d]])'
      <4>1. PICK y : y = FanOut[at[d]]
        OBVIOUS
      <4>2. Kept(d, y)'
        BY <3>2, <3>4, <4>1 DEF ForgottenInv, PassedAreKept
      <4>3. QED
        BY <3>1, <4>1, <4>2 DEF Kept
    <3>5. QED
      BY <3>1, <3>3, <3>4 DEF PassedAreKept
  <2>3. QED
    BY <2>1, <2>2 DEF SubscribersStep, Subscribers!Next, Subscribers!FanOutStep,
                      Subscribers!ReplayStep, Subscribers!RetryDelayElapses,
                      Subscribers!List, Subscribers!HandleAgain,
                      Subscribers!Resolve, Subscribers!Retry, Subscribers!AuditReplay,
                      subscribers, Subscribers!fanOut
<1>5. LeftAreHandled'
  <2>1. SUFFICES ASSUME NEW i \in DOMAIN store'
                 PROVE  /\ store'[i].resolved =>
                              <<store'[i].event, store'[i].subscriber>> \in handled'
                        /\ store'[i].next = "never" =>
                              store'[i].deadLettered \/ store'[i].resolved
    BY DEF LeftAreHandled
  <2>2. CASE i \in DOMAIN store
    <3>1. store[i] \in Subscribers!Failure /\ Fate(store[i], store'[i])
      BY <1>2, <2>2 DEF StoreStep
    <3>2. store'[i].resolved => <<store[i].event, store[i].subscriber>> \in handled'
      BY <1>1, <2>2, NothingUnsaid, ResolvedByReplay
         DEF ForgottenInv, LeftAreHandled, ResolvedNextIsHandled, ItemOf
    <3>3. store'[i].next = "never" => store'[i].deadLettered \/ store'[i].resolved
      BY <2>2, <3>1 DEF Fate, Resolved, Retried, Elapsed, Subscribers!Failure,
                        ForgottenInv, LeftAreHandled
    <3>4. QED
      BY <1>1, <2>2, <3>2, <3>3, NothingUnsaid
  <2>3. CASE i \notin DOMAIN store
    <3>1. PICK e \in Delivery, x \in Subscriber : store'[i] = Subscribers!NewFailure(e, x)
      BY <1>2, <2>1, <2>3 DEF StoreStep
    <3>2. store'[i].resolved = FALSE
      BY <3>1 DEF Subscribers!NewFailure
    <3>3. /\ store'[i].next = IF Policy[x] <= 1 THEN "never" ELSE "later"
          /\ store'[i].subscriber = x /\ store'[i].retryCount = 1
      BY <3>1 DEF Subscribers!NewFailure
    <3>4. store'[i].deadLettered <=> Subscribers!Exhausted(x, 1)
      BY <3>1, <3>3, NewFailureKeepsPolicy
    <3>5. store'[i].next = "never" => Subscribers!Exhausted(x, 1)
      BY <3>3, FanOutAssumption DEF Subscribers!Exhausted
    <3>6. QED
      BY <3>2, <3>4, <3>5
  <2>4. QED
    BY <2>2, <2>3
<1>6. ResolvedNextIsHandled'
  <2>1. SUFFICES ASSUME NEW p \in Replayer, replayPc'[p] = "resolve"
                 PROVE  ItemOf(p)' \in handled'
    BY DEF ResolvedNextIsHandled
  <2>2. /\ replayTodo'[p] = replayTodo[p] /\ replayPc[p] # "idle"
        /\ ItemOf(p) \in handled'
    BY <1>1, <2>1, AboutToResolve, NothingUnsaid DEF ForgottenInv, ResolvedNextIsHandled
  <2>3. Subscribers!Item(p)' = Subscribers!Item(p)
    BY <2>2 DEF Subscribers!Item
  <2>4. Subscribers!Item(p) \in DOMAIN store
    BY <1>1, <2>2, ItemInStore
  <2>5. QED
    BY <1>1, <2>2, <2>3, <2>4, NothingUnsaid DEF ItemOf
<1>7. QED
  BY <1>1, <1>4, <1>5, <1>6 DEF ForgottenInv

\* For any fan-outs and replays: whoever the fan-out has gone past handled the event,
-----------------------------------------------------------------------------
(* Orders and dispatchers                                                  *)

Holding == {"recordFailure", "acknowledge", "recordAckFailure", "notify"}

OrderTypes ==
    /\ paid \subseteq Request /\ stored \subseteq Request
    /\ announced \subseteq Request /\ published \subseteq Request
    /\ holder \in [Key -> Request \cup {NoOrder}]
    /\ retryCount \in [Request -> Nat]
    /\ pc \in [Dispatcher -> {"idle", "publish"} \cup Holding]
    /\ todo \in [Dispatcher -> SUBSET Request]
    /\ msg \in [Dispatcher -> Request \cup {NoOrder}]
    /\ delivered \in [Request -> [1..1 -> Nat]]

\* An order is announced when it is stored, it is paid for by then, and with clients
\* that wait it holds its key.
PlacedInOrder ==
    /\ announced = stored /\ stored \subseteq paid
    /\ waiting => \A r \in stored : KeyOf[r] \in Key => holder[KeyOf[r]] = r

\* What a dispatcher has in hand is announced; it acknowledges what the broker has
\* accepted, and notifies of what is published.
DispatchedInOrder ==
    /\ \A d \in Dispatcher :
          /\ todo[d] \subseteq announced
          /\ pc[d] \in Holding => msg[d] \in announced
          /\ pc[d] \in Holding \ {"recordFailure"} => delivered[msg[d]][1] > 0
          /\ pc[d] = "notify" => msg[d] \in published
    /\ \A r \in published : r \in announced /\ delivered[r][1] > 0

OrderInv == OrderTypes /\ PlacedInOrder /\ DispatchedInOrder

LEMMA InitOrderInv == Init => OrderInv
BY DEF Init, Placement!PlacementInit, Outbox!Init, Outbox!Event, OrderInv, OrderTypes,
       PlacedInOrder, DispatchedInOrder, Holding

LEMMA PlacingKeepsOrder ==
  ASSUME OrderInv, NEW r \in Request, PlaceOrderStep(r) PROVE OrderInv'
<1>1. /\ UNCHANGED <<waiting, pc, todo, msg, delivered, published, retryCount>>
      /\ announced \subseteq announced' /\ paid \subseteq paid'
  BY DEF PlaceOrderStep, Placement!Pay, Placement!PayInVain, Placement!Place,
         outbox, dispatchers
<1>2. OrderTypes'
  <2>1. /\ paid' \subseteq Request /\ stored' \subseteq Request /\ announced' \subseteq Request
    BY DEF OrderInv, OrderTypes, PlaceOrderStep, Placement!Pay, Placement!PayInVain,
           Placement!Place
  <2>2. holder' \in [Key -> Request \cup {NoOrder}]
    BY DEF OrderInv, OrderTypes, PlaceOrderStep, Placement!Pay, Placement!PayInVain,
           Placement!Place
  <2>3. QED
    BY <1>1, <2>1, <2>2 DEF OrderInv, OrderTypes
<1>3. PlacedInOrder'
  <2>1. CASE Placement!Place(r)
    <3>1. /\ r \in paid \ stored /\ UNCHANGED paid
          /\ stored' = stored \cup {r} /\ announced' = announced \cup {r}
          /\ holder' = [k \in Key |-> IF k = KeyOf[r] THEN r ELSE holder[k]]
          /\ waiting /\ KeyOf[r] \in Key => holder[KeyOf[r]] = NoOrder
      BY <2>1 DEF Placement!Place, Placement!Open, Placement!Keyed
    <3>2. ASSUME waiting, NEW s \in stored, KeyOf[s] \in Key PROVE holder'[KeyOf[s]] = s
      <4>1. holder[KeyOf[s]] = s /\ s # NoOrder
        BY <3>2, CallerAssumption DEF OrderInv, OrderTypes, PlacedInOrder
      <4>2. KeyOf[s] # KeyOf[r]
        BY <3>1, <3>2, <4>1
      <4>3. QED
        BY <3>1, <3>2, <4>1, <4>2
    <3>3. QED
      BY <1>1, <3>1, <3>2 DEF OrderInv, PlacedInOrder
  <2>2. CASE Placement!Pay(r) \/ Placement!PayInVain(r)
    BY <1>1, <2>2 DEF Placement!Pay, Placement!PayInVain, OrderInv, PlacedInOrder
  <2>3. QED
    BY <2>1, <2>2 DEF PlaceOrderStep
<1>4. DispatchedInOrder'
  BY <1>1 DEF OrderInv, DispatchedInOrder
<1>5. QED
  BY <1>2, <1>3, <1>4 DEF OrderInv

\* What the broker accepts of an order's event.
LEMMA DeliverGrows ==
  ASSUME OrderTypes, NEW r \in Request, NEW n \in 0..1, Outbox!Deliver(r, n)
  PROVE  /\ delivered' \in [Request -> [1..1 -> Nat]]
         /\ \A s \in Request : delivered[s][1] > 0 => delivered'[s][1] > 0
         /\ n = 1 => delivered'[r][1] > 0
<1>1. delivered' = [delivered EXCEPT ![r] =
                      [e \in 1..1 |-> IF e <= n THEN delivered[r][e] + 1
                                                ELSE delivered[r][e]]]
  BY DEF Outbox!Deliver, Outbox!Event
<1>2. delivered \in [Request -> [1..1 -> Nat]]
  BY DEF OrderTypes
<1>3. \A s \in Request : delivered[s][1] \in Nat
  BY <1>2
<1>4. \A s \in Request \ {r} : delivered'[s] = delivered[s]
  BY <1>1, <1>2
<1>5. delivered'[r][1] = IF 1 <= n THEN delivered[r][1] + 1 ELSE delivered[r][1]
  BY <1>1, <1>2
<1>6. delivered' \in [Request -> [1..1 -> Nat]]
  BY <1>1, <1>2
<1>7. QED
  BY <1>3, <1>4, <1>5, <1>6

\* What a dispatcher does, up to the fan-out and after it.
OutboxStep(d) == DispatchStep(d) \/ FanOutReturns(d) \/ FanOutRejects(d)

LEMMA DispatchingKeepsTypes ==
  ASSUME OrderInv, NEW d \in Dispatcher, OutboxStep(d) PROVE OrderTypes'
<1> USE DEF OrderInv, OrderTypes, DispatchedInOrder, Holding
<1>1. UNCHANGED <<waiting, paid, stored, announced, holder>>
  BY DEF OutboxStep, DispatchStep, FanOutReturns, FanOutRejects, placement,
         Outbox!ListPending, Outbox!Publish, Outbox!RecordFailure, Outbox!Acknowledge,
         Outbox!RecordAckFailure, Outbox!NotifyAll, Outbox!SubscriberThrows,
         Outbox!MarkAsFailed, Outbox!columns
<1>2. CASE Outbox!ListPending(d)
  <2>1. PICK B \in SUBSET Outbox!Pending : todo' = [todo EXCEPT ![d] = B]
    BY <1>2 DEF Outbox!ListPending
  <2>2. B \in SUBSET Request
    BY <2>1 DEF Outbox!Pending
  <2>3. QED
    BY <1>1, <1>2, <2>1, <2>2 DEF Outbox!ListPending, Outbox!columns
<1>3. CASE Outbox!Publish(d)
  <2>1. PICK m \in todo[d] : Outbox!PublishTo(d, m)
    BY <1>3 DEF Outbox!Publish
  <2>2. PICK n \in 0..1 : Outbox!Deliver(m, n)
    BY <2>1 DEF Outbox!PublishTo
  <2>3. delivered' \in [Request -> [1..1 -> Nat]]
    BY <2>1, <2>2, DeliverGrows
  <2>4. QED
    BY <1>1, <1>3, <2>1, <2>3 DEF Outbox!Publish, Outbox!PublishTo, Outbox!columns
<1>4. CASE Outbox!RecordFailure(d) \/ Outbox!RecordAckFailure(d)
  <2>1. /\ msg[d] \in Request
        /\ retryCount' = [retryCount EXCEPT ![msg[d]] = @ + 1]
        /\ UNCHANGED <<published, todo, delivered>>
    BY <1>4 DEF Outbox!RecordFailure, Outbox!RecordAckFailure, Outbox!MarkAsFailed
  <2>2. /\ pc' = [pc EXCEPT ![d] = IF todo[d] = {} THEN "idle" ELSE "publish"]
        /\ msg' = [msg EXCEPT ![d] = NoOrder]
    BY <1>4 DEF Outbox!RecordFailure, Outbox!RecordAckFailure, Outbox!NextMessage
  <2>3. retryCount' \in [Request -> Nat]
    BY <2>1
  <2>4. QED
    BY <1>1, <2>1, <2>2, <2>3
<1>5. CASE Outbox!Acknowledge(d)
  BY <1>1, <1>5 DEF Outbox!Acknowledge, Outbox!MarkAsPublished
<1>6. CASE Outbox!NotifyAll(d) \/ Outbox!SubscriberThrows(d)
  BY <1>1, <1>6 DEF Outbox!NotifyAll, Outbox!SubscriberThrows, Outbox!NextMessage,
                    Outbox!Quit, Outbox!columns
<1>7. QED
  BY <1>2, <1>3, <1>4, <1>5, <1>6 DEF OutboxStep, DispatchStep, FanOutReturns, FanOutRejects

\* Acknowledging needs what publishing has got.
LEMMA DispatchingKeepsOrder ==
  ASSUME OrderInv, NEW d \in Dispatcher, OutboxStep(d) PROVE DispatchedInOrder'
<1> USE DEF OrderInv, OrderTypes, DispatchedInOrder, Holding
<1>1. announced' = announced
  BY DEF OutboxStep, DispatchStep, FanOutReturns, FanOutRejects,
         Outbox!ListPending, Outbox!Publish, Outbox!RecordFailure, Outbox!Acknowledge,
         Outbox!RecordAckFailure, Outbox!NotifyAll, Outbox!SubscriberThrows,
         Outbox!MarkAsFailed, Outbox!columns
<1>2. \A c \in Dispatcher \ {d} : pc'[c] = pc[c] /\ todo'[c] = todo[c] /\ msg'[c] = msg[c]
  BY DEF OutboxStep, DispatchStep, FanOutReturns, FanOutRejects,
         Outbox!ListPending, Outbox!Publish, Outbox!PublishTo, Outbox!RecordFailure,
         Outbox!Acknowledge, Outbox!RecordAckFailure, Outbox!NotifyAll,
         Outbox!SubscriberThrows, Outbox!NextMessage, Outbox!Quit
<1>3. CASE Outbox!ListPending(d)
  <2>1. PICK B \in SUBSET Outbox!Pending : todo' = [todo EXCEPT ![d] = B]
    BY <1>3 DEF Outbox!ListPending
  <2>2. B \subseteq announced
    BY <2>1 DEF Outbox!Pending
  <2>3. pc'[d] = "publish" /\ todo'[d] = B /\ UNCHANGED <<delivered, published, msg>>
    BY <1>3, <2>1 DEF Outbox!ListPending, Outbox!columns
  <2>4. QED
    BY <1>1, <1>2, <2>2, <2>3
<1>4. CASE Outbox!Publish(d)
  <2>1. PICK m \in todo[d] : Outbox!PublishTo(d, m)
    BY <1>4 DEF Outbox!Publish
  <2>2. /\ todo'[d] = todo[d] \ {m} /\ msg'[d] = m /\ m \in announced /\ m \in Request
        /\ UNCHANGED published
    BY <1>4, <2>1 DEF Outbox!Publish, Outbox!PublishTo, Outbox!columns
  <2>3. \A s \in Request : delivered[s][1] > 0 => delivered'[s][1] > 0
    BY <2>1, <2>2, DeliverGrows DEF Outbox!PublishTo
  <2>4. \/ pc'[d] = "recordFailure"
        \/ pc'[d] = "acknowledge" /\ delivered'[m][1] > 0
    BY <2>1, <2>2, DeliverGrows DEF Outbox!PublishTo
  <2>5. QED
    BY <1>1, <1>2, <2>2, <2>3, <2>4
<1>5. CASE Outbox!Acknowledge(d)
  <2>1. /\ pc[d] = "acknowledge" /\ UNCHANGED <<todo, msg, delivered>>
        /\ published' \subseteq published \cup {msg[d]} /\ published \subseteq published'
        /\ pc'[d] \in {"notify", "recordAckFailure"}
        /\ pc'[d] = "notify" => msg[d] \in published'
    BY <1>5 DEF Outbox!Acknowledge, Outbox!MarkAsPublished
  <2>2. QED
    BY <1>1, <1>2, <2>1
<1>6. CASE \/ Outbox!RecordFailure(d) \/ Outbox!RecordAckFailure(d)
           \/ Outbox!NotifyAll(d) \/ Outbox!SubscriberThrows(d)
  <2>1. /\ UNCHANGED <<delivered, published>>
        /\ todo'[d] \subseteq todo[d] /\ pc'[d] \in {"idle", "publish"}
    BY <1>6 DEF Outbox!RecordFailure, Outbox!RecordAckFailure, Outbox!NotifyAll,
                Outbox!SubscriberThrows, Outbox!NextMessage, Outbox!Quit,
                Outbox!MarkAsFailed, Outbox!columns
  <2>2. QED
    BY <1>1, <1>2, <2>1
<1>7. QED
  BY <1>3, <1>4, <1>5, <1>6 DEF OutboxStep, DispatchStep, FanOutReturns, FanOutRejects

\* Fan-outs, replays and time leave orders and dispatchers alone.
LEMMA ElsewhereKeepsOrder ==
  ASSUME OrderInv,
         UNCHANGED <<placement, announced, published, retryCount, pc, todo, msg, delivered>>
  PROVE  OrderInv'
BY DEF OrderInv, OrderTypes, PlacedInOrder, DispatchedInOrder, placement

LEMMA NextOrderInv == OrderInv /\ [Next]_vars => OrderInv'
<1> SUFFICES ASSUME OrderInv, [Next]_vars PROVE OrderInv'
  OBVIOUS
<1>1. ASSUME NEW r \in Request, PlaceOrderStep(r) PROVE OrderInv'
  BY <1>1, PlacingKeepsOrder
<1>2. ASSUME NEW d \in Dispatcher, OutboxStep(d) PROVE OrderInv'
  <2>1. UNCHANGED <<waiting, paid, stored, announced, holder>>
    BY <1>2
       DEF OutboxStep, DispatchStep, FanOutReturns, FanOutRejects, placement,
           Outbox!ListPending, Outbox!Publish, Outbox!RecordFailure, Outbox!Acknowledge,
           Outbox!RecordAckFailure, Outbox!NotifyAll, Outbox!SubscriberThrows,
           Outbox!MarkAsFailed, Outbox!columns
  <2>2. PlacedInOrder'
    BY <2>1 DEF OrderInv, PlacedInOrder
  <2>3. QED
    BY <1>2, <2>2, DispatchingKeepsTypes, DispatchingKeepsOrder DEF OrderInv
<1>3. ASSUME NEW d \in Dispatcher, FanOutStep(d) PROVE OrderInv'
  BY <1>3, ElsewhereKeepsOrder DEF FanOutStep, outbox, dispatchers
<1>4. ASSUME NEW p \in Replayer, ReplayStep(p) PROVE OrderInv'
  BY <1>4, ElsewhereKeepsOrder DEF ReplayStep, outbox, dispatchers
<1>5. CASE TimePasses
  BY <1>5, ElsewhereKeepsOrder
     DEF TimePasses, Outbox!RetryDelayElapses, outbox, dispatchers
<1>6. CASE UNCHANGED vars
  BY <1>6, ElsewhereKeepsOrder DEF vars, outbox, dispatchers
<1>7. QED
  BY <1>1, <1>2, <1>3, <1>4, <1>5, <1>6 DEF Next, DispatcherRuns, OutboxStep

-----------------------------------------------------------------------------
(* Fan-outs of orders                                                      *)

\* The fan-out of a dispatcher that notifies is that of an order.
LEMMA FanOutIsOfOrder ==
  ASSUME OrderInv, NEW d \in Dispatcher, FanOutStep(d)
  PROVE  msg[d] \in published /\ FanOutOf(d) \in Delivery /\ FanOutOf(d)[2] = msg[d]
BY DEF OrderInv, OrderTypes, DispatchedInOrder, FanOutStep, FanOutOf, Delivery

\* Fan-outs and replays take the steps of SubscriberDelivery, and no others.
LEMMA StepOfSubscribers == OrderInv /\ [Next]_vars => SubscribersStep
<1> SUFFICES ASSUME OrderInv, [Next]_vars PROVE SubscribersStep
  OBVIOUS
<1>1. ASSUME NEW d \in Dispatcher, FanOutStep(d) PROVE SubscribersStep
  BY <1>1, FanOutIsOfOrder DEF FanOutStep, SubscribersStep, Subscribers!Next
<1>2. ASSUME NEW p \in Replayer, ReplayStep(p) PROVE SubscribersStep
  BY <1>2 DEF ReplayStep, SubscribersStep, Subscribers!Next
<1>3. CASE TimePasses
  BY <1>3 DEF TimePasses, SubscribersStep, Subscribers!Next
<1>4. ASSUME NEW d \in Dispatcher, OutboxStep(d) PROVE SubscribersStep
  BY <1>4 DEF OutboxStep, DispatchStep, FanOutReturns, FanOutRejects, SubscribersStep
<1>5. ASSUME NEW r \in Request, PlaceOrderStep(r) PROVE SubscribersStep
  BY <1>5 DEF PlaceOrderStep, SubscribersStep
<1>6. CASE UNCHANGED vars
  BY <1>6 DEF vars, SubscribersStep
<1>7. QED
  BY <1>1, <1>2, <1>3, <1>4, <1>5, <1>6 DEF Next, DispatcherRuns, OutboxStep

\* Only what is published is handled, or fails to be.
HandledInOrder ==
    /\ \A h \in handled : h[1][2] \in published
    /\ \A i \in DOMAIN store : store[i].event[2] \in published

LEMMA PublishedGrows ==
  ASSUME OrderInv, [Next]_vars PROVE published \subseteq published'
BY DEF Next, DispatcherRuns, PlaceOrderStep, DispatchStep, FanOutStep, FanOutReturns,
       FanOutRejects, ReplayStep, TimePasses, Outbox!ListPending, Outbox!Publish,
       Outbox!RecordFailure, Outbox!Acknowledge, Outbox!RecordAckFailure,
       Outbox!NotifyAll, Outbox!SubscriberThrows, Outbox!MarkAsFailed,
       Outbox!MarkAsPublished, Outbox!RetryDelayElapses, Outbox!columns, outbox, vars

LEMMA FanOutHandles ==
  ASSUME FanOutTypeInv, NEW e \in Delivery, Subscribers!FanOutStep(e)
  PROVE  /\ \A h \in handled' \ handled : h[1] = e
         /\ \A i \in DOMAIN store' : \/ i \in DOMAIN store /\ store'[i] = store[i]
                                     \/ store'[i].event = e
<1>1. store \in Seq(Subscribers!Failure)
  BY DEF FanOutTypeInv, Subscribers!TypeOK
<1>2. CASE Subscribers!Handle(e) \/ Subscribers!AuditFanOut(e)
  BY <1>2 DEF Subscribers!Handle, Subscribers!AuditFanOut
<1>3. CASE Subscribers!RecordFailure(e)
  <2>1. PICK x : x = FanOut[at[e]]
    OBVIOUS
  <2>2. UNCHANGED store \/ store' = Append(store, Subscribers!NewFailure(e, x))
    BY <1>3, <2>1 DEF Subscribers!RecordFailure
  <2>3. ASSUME store' = Append(store, Subscribers!NewFailure(e, x)), NEW i \in DOMAIN store'
        PROVE  \/ i \in DOMAIN store /\ store'[i] = store[i]
               \/ store'[i] = Subscribers!NewFailure(e, x)
    BY <1>1, <2>3
  <2>4. Subscribers!NewFailure(e, x).event = e
    BY DEF Subscribers!NewFailure
  <2>5. QED
    BY <1>3, <2>2, <2>3, <2>4 DEF Subscribers!RecordFailure
<1>4. QED
  BY <1>2, <1>3 DEF Subscribers!FanOutStep

LEMMA ReplayHandles ==
  ASSUME FanOutTypeInv, NEW p \in Replayer, Subscribers!ReplayStep(p)
  PROVE  /\ \A h \in handled' \ handled : \E i \in DOMAIN store : h[1] = store[i].event
         /\ DOMAIN store' = DOMAIN store
<1>1. store \in Seq(Subscribers!Failure)
  BY DEF FanOutTypeInv, Subscribers!TypeOK
<1>2. DOMAIN store' = DOMAIN store
  BY <1>1 DEF Subscribers!ReplayStep, Subscribers!List, Subscribers!HandleAgain,
              Subscribers!Resolve, Subscribers!Retry, Subscribers!AuditReplay,
              Subscribers!MarkResolved, Subscribers!MarkRetried
<1>3. ASSUME NEW h \in handled' \ handled
      PROVE  \E i \in DOMAIN store : h[1] = store[i].event
  <2>1. Subscribers!HandleAgain(p)
    BY <1>3 DEF Subscribers!ReplayStep, Subscribers!List, Subscribers!Resolve,
                Subscribers!Retry, Subscribers!AuditReplay
  <2>2. Subscribers!Item(p) \in DOMAIN store
    BY <2>1, ItemInStore DEF Subscribers!HandleAgain
  <2>3. h[1] = store[Subscribers!Item(p)].event
    BY <1>3, <2>1 DEF Subscribers!HandleAgain
  <2>4. QED
    BY <2>2, <2>3
<1>4. QED
  BY <1>2, <1>3

LEMMA NextHandledInOrder ==
  ASSUME OrderInv, FanOutTypeInv, HandledInOrder, [Next]_vars
  PROVE  HandledInOrder'
<1>1. /\ SubscribersStep /\ published \subseteq published'
      /\ \A i \in DOMAIN store : i \in DOMAIN store' /\ store'[i].event = store[i].event
  BY StepOfSubscribers, PublishedGrows, NothingUnsaid
<1>2. CASE UNCHANGED <<handled, store>>
  BY <1>1, <1>2 DEF HandledInOrder
<1>3. ASSUME NEW d \in Dispatcher, FanOutStep(d) PROVE HandledInOrder'
  <2>1. PICK e \in Delivery : e = FanOutOf(d) /\ e[2] \in published
    BY <1>3, FanOutIsOfOrder
  <2>2. /\ \A h \in handled' \ handled : h[1] = e
        /\ \A i \in DOMAIN store' : \/ i \in DOMAIN store /\ store'[i] = store[i]
                                    \/ store'[i].event = e
    BY <1>3, <2>1, FanOutHandles DEF FanOutStep
  <2>3. QED
    BY <1>1, <2>1, <2>2 DEF HandledInOrder
<1>4. ASSUME NEW p \in Replayer, ReplayStep(p) PROVE HandledInOrder'
  <2>1. /\ \A h \in handled' \ handled : \E i \in DOMAIN store : h[1] = store[i].event
        /\ DOMAIN store' = DOMAIN store
    BY <1>4, ReplayHandles DEF ReplayStep
  <2>2. QED
    BY <1>1, <2>1 DEF HandledInOrder
<1>5. ASSUME NEW i \in DOMAIN store, Subscribers!RetryDelayElapses(i) PROVE HandledInOrder'
  <2>1. UNCHANGED handled /\ DOMAIN store' = DOMAIN store
    BY <1>5 DEF Subscribers!RetryDelayElapses
  <2>2. QED
    BY <1>1, <2>1 DEF HandledInOrder
<1>6. QED
  BY <1>2, <1>3, <1>4, <1>5
     DEF Next, DispatcherRuns, PlaceOrderStep, DispatchStep, FanOutReturns, FanOutRejects,
         TimePasses, subscribers, vars

JourneyInv == OrderInv /\ ForgottenInv /\ HandledInOrder

LEMMA InitJourneyInv == Init => JourneyInv
<1> SUFFICES ASSUME Init PROVE JourneyInv
  OBVIOUS
<1>1. Subscribers!Init
  BY DEF Init
<1>2. ForgottenInv
  BY <1>1, InitTypes
     DEF Subscribers!Init, ForgottenInv, PassedAreKept, LeftAreHandled,
         ResolvedNextIsHandled
<1>3. HandledInOrder
  BY <1>1 DEF Subscribers!Init, HandledInOrder
<1>4. QED
  BY <1>2, <1>3, InitOrderInv DEF JourneyInv

LEMMA JourneyInvariant == Spec => []JourneyInv
<1>1. JourneyInv /\ [Next]_vars => JourneyInv'
  BY NextOrderInv, StepOfSubscribers, NextForgottenInv, NextHandledInOrder
     DEF JourneyInv, ForgottenInv
<1>2. QED
  BY <1>1, InitJourneyInv, PTL DEF Spec

\* Whatever a client can read is an order that was paid for, stored and published;
\* and to clients that wait for an answer before they send a key again, the key shows
\* one order at most: for any number of requests, dispatchers and replays, any
\* fan-out and any faults.
THEOREM ShownIsOrderedHolds == Spec => []ShownIsOrdered
<1>1. JourneyInv => ShownIsOrdered
  <2> SUFFICES ASSUME JourneyInv PROVE ShownIsOrdered
    OBVIOUS
  <2>1. ASSUME NEW r \in View
        PROVE  /\ r \in published /\ r \in stored /\ r \in paid
               /\ delivered[r][1] > 0
               /\ waiting /\ KeyOf[r] \in Key => holder[KeyOf[r]] = r
    <3>1. PICK d \in Dispatcher : <<<<d, r>>, Projector>> \in handled
      BY DEF View
    <3>2. <<<<d, r>>, Projector>>[1][2] \in published
      BY <3>1 DEF JourneyInv, HandledInOrder
    <3>3. r \in published
      BY <3>2
    <3>4. QED
      BY <3>3 DEF JourneyInv, OrderInv, PlacedInOrder, DispatchedInOrder
  <2>2. QED
    BY <2>1 DEF ShownIsOrdered
<1>2. QED
  BY <1>1, JourneyInvariant, PTL

\* Whoever may not see an order is answered as if it did not exist, and whoever may
\* is told the truth about it: for any customers, owners and orders.
THEOREM OthersLearnNothingHolds == Spec => []OthersLearnNothing
<1>1. OthersLearnNothing
  <2> SUFFICES ASSUME NEW caller \in Caller, NEW r \in Request
               PROVE  IF MayView(caller, r)
                      THEN GetStatus(caller, r) = IF Found(r) THEN 200 ELSE 404
                      ELSE GetStatus(caller, r) = GetStatus(caller, NoOrder)
    BY DEF OthersLearnNothing
  <2>1. CASE MayView(caller, r)
    <3>1. caller # NoActor /\ caller # OddRole
      BY <2>1, CallerAssumption, OwnerAssumption DEF MayView
    <3>2. QED
      BY <2>1, <3>1 DEF GetStatus, SummaryStatus
  <2>2. CASE ~MayView(caller, r)
    <3>1. ~Found(NoOrder)
      BY CallerAssumption DEF Found, View
    <3>2. SummaryStatus(caller, r) = SummaryStatus(caller, NoOrder)
      BY <2>2, <3>1 DEF SummaryStatus
    <3>3. QED
      BY <2>2, <3>2, CallerAssumption DEF GetStatus
  <2>3. QED
    BY <2>1, <2>2
<1>2. QED
  BY <1>1, PTL

-----------------------------------------------------------------------------
(* Orders are accounted for                                                *)

\* A fan-out that has gone past all its subscribers.
Passed(d, r) == stage[<<d, r>>] = "handle" /\ ~Subscribers!AtSubscriber(<<d, r>>)

Followed(r) ==
    BeingNotified(r) \/ (\E d \in Dispatcher : Passed(d, r)) \/ CutShort(r)

\* A published order is with a dispatcher that notifies, its fan-out is over, or its
\* delivery was cut short.
PublishedAreFollowed == \A r \in published : Followed(r)

\* A fan-out that is over, or that threw, takes no step.
LEMMA OverStaysOver ==
  ASSUME ForgottenInv, [Next]_vars, OrderInv, NEW d \in Dispatcher, NEW r \in Request
  PROVE  /\ Passed(d, r) => Passed(d, r)'
         /\ stage[<<d, r>>] = "stopped" => stage'[<<d, r>>] = "stopped"
<1> DEFINE e == <<d, r>>
<1>1. /\ e \in Delivery
      /\ at \in [Delivery -> 1..(Len(FanOut) + 1)]
      /\ stage \in [Delivery -> {"handle", "record", "audit", "stopped"}]
  BY DEF Delivery, ForgottenInv, FanOutTypeInv, Subscribers!TypeOK
<1> HIDE DEF e
<1>2. CASE UNCHANGED <<at, stage>>
  BY <1>2 DEF Passed, Subscribers!AtSubscriber
<1>3. ASSUME NEW c \in Dispatcher, FanOutStep(c),
             Passed(d, r) \/ stage[e] = "stopped"
      PROVE  at'[e] = at[e] /\ stage'[e] = stage[e]
  <2>1. PICK f \in Delivery : f = FanOutOf(c) /\ Subscribers!FanOutStep(f)
    BY <1>3, FanOutIsOfOrder DEF FanOutStep
  <2>2. f # e
    BY <1>3, <2>1 DEF e, Passed, Subscribers!FanOutStep, Subscribers!Handle,
                      Subscribers!RecordFailure, Subscribers!AuditFanOut
  <2>3. QED
    BY <1>1, <2>1, <2>2 DEF Subscribers!FanOutStep, Subscribers!Handle,
       Subscribers!RecordFailure, Subscribers!AuditFanOut, Subscribers!GoOn
<1>4. ASSUME NEW c \in Dispatcher, FanOutStep(c)
      PROVE  /\ Passed(d, r) => Passed(d, r)'
             /\ stage[e] = "stopped" => stage'[e] = "stopped"
  BY <1>3, <1>4 DEF Passed, e, Subscribers!AtSubscriber
<1>5. ASSUME NEW p \in Replayer, ReplayStep(p) PROVE UNCHANGED <<at, stage>>
  BY <1>5 DEF ReplayStep, Subscribers!ReplayStep, Subscribers!List, Subscribers!HandleAgain,
     Subscribers!Resolve, Subscribers!Retry, Subscribers!AuditReplay, Subscribers!fanOut
<1>6. ASSUME NEW i \in DOMAIN store, Subscribers!RetryDelayElapses(i)
      PROVE  UNCHANGED <<at, stage>>
  BY <1>6 DEF Subscribers!RetryDelayElapses, Subscribers!fanOut
<1>7. UNCHANGED subscribers => UNCHANGED <<at, stage>>
  BY DEF subscribers
<1>8. CASE UNCHANGED vars
  BY <1>2, <1>7, <1>8 DEF vars, e
<1>9. QED
  BY <1>2, <1>4, <1>5, <1>6, <1>7, <1>8
     DEF e, Next, DispatcherRuns, PlaceOrderStep, DispatchStep, FanOutReturns,
         FanOutRejects, TimePasses

\* What the outbox counted stays counted, and what was cut short was.
LEMMA TracesStay ==
  ASSUME OrderInv, [Next]_vars
  PROVE  /\ cut \subseteq cut'
         /\ \A r \in Request : retryCount[r] > 0 => retryCount'[r] > 0
<1>1. CASE UNCHANGED <<cut, retryCount>>
  BY <1>1
<1>2. ASSUME NEW d \in Dispatcher, OutboxStep(d)
      PROVE  /\ cut \subseteq cut'
             /\ \A r \in Request : retryCount[r] > 0 => retryCount'[r] > 0
  <2>1. retryCount \in [Request -> Nat]
    BY DEF OrderInv, OrderTypes
  <2>2. \/ UNCHANGED retryCount
        \/ retryCount' = [retryCount EXCEPT ![msg[d]] = @ + 1]
    BY <1>2 DEF OutboxStep, DispatchStep, FanOutReturns, FanOutRejects,
       Outbox!ListPending, Outbox!Publish, Outbox!RecordFailure, Outbox!Acknowledge,
       Outbox!RecordAckFailure, Outbox!NotifyAll, Outbox!SubscriberThrows,
       Outbox!MarkAsFailed, Outbox!columns
  <2>3. \A r \in Request : retryCount[r] > 0 => retryCount'[r] > 0
    BY <2>1, <2>2
  <2>4. cut \subseteq cut'
    BY <1>2 DEF OutboxStep, DispatchStep, FanOutReturns, FanOutRejects,
       Outbox!ListPending, Outbox!Publish, Outbox!RecordFailure, Outbox!Acknowledge,
       Outbox!RecordAckFailure, Outbox!NotifyAll, Outbox!SubscriberThrows
  <2>5. QED
    BY <2>3, <2>4
<1>3. QED
  BY <1>1, <1>2
     DEF Next, DispatcherRuns, OutboxStep, PlaceOrderStep, FanOutStep, ReplayStep,
         TimePasses, Outbox!RetryDelayElapses, outbox, dispatchers, vars

LEMMA NextPublishedAreFollowed ==
  ASSUME OrderInv, ForgottenInv, PublishedAreFollowed, [Next]_vars
  PROVE  PublishedAreFollowed'
<1>1. /\ published \subseteq Request /\ announced \subseteq Request
      /\ retryCount \in [Request -> Nat]
      /\ pc \in [Dispatcher -> {"idle", "publish"} \cup Holding]
      /\ msg \in [Dispatcher -> Request \cup {NoOrder}]
      /\ published' \subseteq Request
  BY NextOrderInv DEF OrderInv, OrderTypes
<1>2. \A d \in Dispatcher, r \in Request :
        /\ Passed(d, r) => Passed(d, r)'
        /\ stage[<<d, r>>] = "stopped" => stage'[<<d, r>>] = "stopped"
  BY OverStaysOver
<1>3. /\ cut \subseteq cut'
      /\ \A r \in Request : retryCount[r] > 0 => retryCount'[r] > 0
  BY TracesStay
<1>4. CASE UNCHANGED <<pc, msg, published>>
  BY <1>1, <1>2, <1>3, <1>4
     DEF PublishedAreFollowed, Followed, BeingNotified, CutShort
<1>5. ASSUME NEW d \in Dispatcher, OutboxStep(d) PROVE PublishedAreFollowed'
  <2>1. \A c \in Dispatcher \ {d} : pc'[c] = pc[c] /\ msg'[c] = msg[c]
    BY <1>1, <1>5
       DEF OutboxStep, DispatchStep, FanOutReturns, FanOutRejects,
           Outbox!ListPending, Outbox!Publish, Outbox!PublishTo, Outbox!RecordFailure,
           Outbox!Acknowledge, Outbox!RecordAckFailure, Outbox!NotifyAll,
           Outbox!SubscriberThrows, Outbox!NextMessage, Outbox!Quit
  \* What was followed by other means than this dispatcher's hands still is.
  <2>2. ASSUME NEW r \in Request, Followed(r),
               pc[d] \in {"notify", "recordAckFailure"} => msg[d] # r
        PROVE  Followed(r)'
    <3>1. ASSUME NEW c \in Dispatcher, pc[c] \in {"notify", "recordAckFailure"}, msg[c] = r
          PROVE  pc'[c] = pc[c] /\ msg'[c] = r
      BY <2>1, <2>2, <3>1
    <3>2. BeingNotified(r) => BeingNotified(r)'
      BY <3>1 DEF BeingNotified
    <3>3. CutShort(r) => CutShort(r)'
      BY <1>2, <1>3, <3>1 DEF CutShort
    <3>4. QED
      BY <1>2, <2>2, <3>2, <3>3 DEF Followed
  <2>3. CASE Outbox!ListPending(d) \/ Outbox!Publish(d) \/ Outbox!RecordFailure(d)
    <3>1. UNCHANGED published /\ pc[d] \notin {"notify", "recordAckFailure"}
      BY <2>3 DEF Outbox!ListPending, Outbox!Publish, Outbox!RecordFailure,
                  Outbox!MarkAsFailed, Outbox!columns
    <3>2. QED
      BY <1>1, <2>2, <3>1 DEF PublishedAreFollowed
  <2>4. CASE Outbox!Acknowledge(d)
    <3>1. /\ pc[d] = "acknowledge" /\ msg'[d] = msg[d]
          /\ published' \subseteq published \cup {msg[d]}
          /\ \/ pc'[d] = "notify"
             \/ pc'[d] = "recordAckFailure" /\ msg[d] \in cut'
      BY <1>1, <2>4 DEF Outbox!Acknowledge, Outbox!MarkAsPublished
    <3>2. Followed(msg[d])'
      BY <3>1 DEF Followed, BeingNotified, CutShort
    <3>3. QED
      BY <1>1, <2>2, <3>1, <3>2 DEF PublishedAreFollowed
  <2>5. CASE Outbox!RecordAckFailure(d)
    <3>1. /\ pc[d] = "recordAckFailure" /\ UNCHANGED <<published, cut>>
          /\ retryCount' = [retryCount EXCEPT ![msg[d]] = @ + 1]
      BY <2>5 DEF Outbox!RecordAckFailure, Outbox!MarkAsFailed
    <3>2. msg[d] \in Request => retryCount'[msg[d]] > 0
      BY <1>1, <3>1
    <3>3. ASSUME NEW r \in published PROVE Followed(r)'
      <4>1. Followed(r) /\ r \in Request
        BY <1>1 DEF PublishedAreFollowed
      <4>2. CASE msg[d] # r
        BY <2>2, <4>1, <4>2
      <4>3. CASE msg[d] = r
        <5>1. CutShort(r) => CutShort(r)'
          BY <1>3, <3>2, <4>1, <4>3 DEF CutShort
        <5>2. BeingNotified(r) => BeingNotified(r)'
          BY <2>1, <3>1 DEF BeingNotified
        <5>3. QED
          BY <1>2, <4>1, <5>1, <5>2 DEF Followed
      <4>4. QED
        BY <4>2, <4>3
    <3>4. QED
      BY <3>1, <3>3 DEF PublishedAreFollowed
  <2>6. CASE FanOutReturns(d)
    <3>1. /\ pc[d] = "notify" /\ Passed(d, msg[d]) /\ UNCHANGED published
      BY <2>6 DEF FanOutReturns, Outbox!NotifyAll, Outbox!columns, Passed, FanOutOf
    <3>2. ASSUME NEW r \in published PROVE Followed(r)'
      <4>1. CASE msg[d] = r
        BY <1>1, <1>2, <3>1, <4>1 DEF Followed
      <4>2. CASE msg[d] # r
        BY <1>1, <2>2, <4>2 DEF PublishedAreFollowed
      <4>3. QED
        BY <4>1, <4>2
    <3>3. QED
      BY <3>1, <3>2 DEF PublishedAreFollowed
  <2>7. CASE FanOutRejects(d)
    <3>1. /\ pc[d] = "notify" /\ stage[<<d, msg[d]>>] = "stopped"
          /\ msg[d] \in cut' /\ UNCHANGED published
      BY <2>7 DEF FanOutRejects, Outbox!SubscriberThrows, Outbox!columns, FanOutOf
    <3>2. ASSUME NEW r \in published PROVE Followed(r)'
      <4>1. CASE msg[d] = r
        BY <1>1, <1>2, <3>1, <4>1 DEF Followed, CutShort
      <4>2. CASE msg[d] # r
        BY <1>1, <2>2, <4>2 DEF PublishedAreFollowed
      <4>3. QED
        BY <4>1, <4>2
    <3>3. QED
      BY <3>1, <3>2 DEF PublishedAreFollowed
  <2>8. QED
    BY <1>5, <2>3, <2>4, <2>5, <2>6, <2>7 DEF OutboxStep, DispatchStep
<1>6. QED
  BY <1>4, <1>5
     DEF Next, DispatcherRuns, OutboxStep, PlaceOrderStep, FanOutStep, ReplayStep,
         TimePasses, Outbox!RetryDelayElapses, outbox, dispatchers, vars

\* A fan-out that is over has left every subscriber with the event or a failure.
LEMMA PassedIsAccountedFor ==
  ASSUME OrderInv, ForgottenInv, NEW r \in Request \ View, NEW d \in Dispatcher, Passed(d, r)
  PROVE  Owed(r) \/ GivenUp(r)
<1>1. PICK n \in DOMAIN FanOut : FanOut[n] = Projector
  BY ProjectorAssumption
<1>2. /\ <<d, r>> \in Delivery /\ Len(FanOut) \in Nat /\ n \in 1..Len(FanOut)
      /\ at \in [Delivery -> 1..(Len(FanOut) + 1)]
  BY <1>1, FanOutAssumption DEF Delivery, ForgottenInv, FanOutTypeInv, Subscribers!TypeOK
<1>3. n \in 1..(at[<<d, r>>] - 1)
  BY <1>2 DEF Passed, Subscribers!AtSubscriber
<1>4. Kept(<<d, r>>, Projector)
  BY <1>1, <1>2, <1>3 DEF ForgottenInv, PassedAreKept
<1>5. <<<<d, r>>, Projector>> \notin handled
  BY DEF View
<1>6. PICK i \in DOMAIN store :
         store[i].event = <<d, r>> /\ store[i].subscriber = Projector
  BY <1>4, <1>5 DEF Kept
<1>7. FailureOf(i, r)
  BY <1>6 DEF FailureOf
<1>8. ~store[i].resolved
  BY <1>5, <1>6 DEF ForgottenInv, LeftAreHandled
<1>9. store[i].deadLettered \/ store[i].next # "never"
  BY <1>8 DEF ForgottenInv, LeftAreHandled
<1>10. QED
  BY <1>7, <1>8, <1>9 DEF Owed, GivenUp

\* An order that is announced and cannot be read yet is never lost from sight, for
\* any dispatchers, replays, policies and faults: the outbox has it, a dispatcher
\* notifies of it, the failure store has it, or its delivery was cut short.
THEOREM OrdersAccountedForHolds == Spec => []OrdersAccountedFor
<1>1. Init => PublishedAreFollowed
  BY DEF Init, Outbox!Init, PublishedAreFollowed
<1>2. JourneyInv /\ PublishedAreFollowed /\ [Next]_vars => PublishedAreFollowed'
  BY NextPublishedAreFollowed DEF JourneyInv
<1>3. JourneyInv /\ PublishedAreFollowed => OrdersAccountedFor
  <2> SUFFICES ASSUME JourneyInv, PublishedAreFollowed,
                      NEW r \in announced \ View, r \in published
               PROVE  BeingNotified(r) \/ Owed(r) \/ GivenUp(r) \/ CutShort(r)
    BY DEF OrdersAccountedFor
  <2>1. r \in Request \ View
    BY DEF JourneyInv, OrderInv, OrderTypes
  <2>2. Followed(r)
    BY DEF PublishedAreFollowed
  <2>3. QED
    BY <2>1, <2>2, PassedIsAccountedFor DEF Followed, JourneyInv
<1>4. QED
  BY <1>1, <1>2, <1>3, JourneyInvariant, PTL DEF Spec

-----------------------------------------------------------------------------
(* The components in the journey                                           *)

\* The journey lets each component take only the steps of its own module, so that
\* what is said of IdempotentPlacement, OutboxDispatch and SubscriberDelivery (for
\* dispatchers that do not die alone) is true of them here.
THEOREM ComponentsAreKept ==
    Spec => Placement!PlacementSpec /\ Outbox!Spec /\ Subscribers!Spec
<1>1. JourneyInv /\ [Next]_vars => [Placement!PlacementNext]_(Placement!placementVars)
  <2> SUFFICES ASSUME JourneyInv, [Next]_vars
               PROVE  Placement!PlacementNext \/ UNCHANGED Placement!placementVars
    OBVIOUS
  <2>1. ASSUME NEW r \in Request, PlaceOrderStep(r) PROVE Placement!PlacementNext
    BY <2>1 DEF PlaceOrderStep, Placement!PlacementNext
  <2>2. UNCHANGED <<placement, announced>> => UNCHANGED Placement!placementVars
    BY DEF placement, Placement!placementVars
  <2>3. ASSUME NEW d \in Dispatcher, DispatcherRuns(d)
        PROVE  UNCHANGED <<placement, announced>>
    BY <2>3 DEF DispatcherRuns, DispatchStep, FanOutStep, FanOutReturns, FanOutRejects,
       Outbox!ListPending, Outbox!Publish, Outbox!RecordFailure, Outbox!Acknowledge,
       Outbox!RecordAckFailure, Outbox!NotifyAll, Outbox!SubscriberThrows,
       Outbox!MarkAsFailed, Outbox!columns
  <2>4. QED
    BY <2>1, <2>2, <2>3
       DEF Next, ReplayStep, TimePasses, Outbox!RetryDelayElapses, vars
<1>2. JourneyInv /\ [Next]_vars => [Outbox!Next]_(Outbox!vars)
  <2> SUFFICES ASSUME JourneyInv, [Next]_vars
               PROVE  Outbox!Next \/ UNCHANGED Outbox!vars
    OBVIOUS
  <2>1. ASSUME NEW r \in Request, PlaceOrderStep(r)
        PROVE  Outbox!Next \/ UNCHANGED Outbox!vars
    <3>1. CASE Placement!Place(r)
      <4>1. r \notin announced
        BY <3>1 DEF Placement!Place, JourneyInv, OrderInv, PlacedInOrder
      <4>2. Outbox!Save(r)
        BY <2>1, <3>1, <4>1
           DEF PlaceOrderStep, Placement!Place, Outbox!Save, outbox, dispatchers
      <4>3. QED
        BY <4>2 DEF Outbox!Next
    <3>2. CASE Placement!Pay(r) \/ Placement!PayInVain(r)
      BY <2>1, <3>2 DEF PlaceOrderStep, Placement!Pay, Placement!PayInVain,
                        outbox, dispatchers, Outbox!vars, Outbox!columns
    <3>3. QED
      BY <2>1, <3>1, <3>2 DEF PlaceOrderStep
  <2>2. ASSUME NEW d \in Dispatcher, OutboxStep(d) PROVE Outbox!Next
    <3>1. Outbox!Dispatch(d)
      BY <2>2 DEF OutboxStep, DispatchStep, FanOutReturns, FanOutRejects,
                  Outbox!Dispatch, Outbox!Notify
    <3>2. QED
      BY <3>1 DEF Outbox!Next
  <2>3. UNCHANGED <<announced, outbox, dispatchers>> => UNCHANGED Outbox!vars
    BY DEF outbox, dispatchers, Outbox!vars, Outbox!columns
  <2>4. ASSUME NEW r \in Request, Outbox!RetryDelayElapses(r) PROVE Outbox!Next
    BY <2>4 DEF Outbox!Next
  <2>5. QED
    BY <2>1, <2>2, <2>3, <2>4
       DEF Next, DispatcherRuns, OutboxStep, FanOutStep, ReplayStep, TimePasses, vars
<1>3. JourneyInv /\ [Next]_vars => [Subscribers!Next]_(Subscribers!vars)
  <2>1. UNCHANGED subscribers => UNCHANGED Subscribers!vars
    BY DEF subscribers, Subscribers!vars, Subscribers!fanOut, Subscribers!replay
  <2>2. QED
    BY <2>1, StepOfSubscribers DEF JourneyInv, SubscribersStep
<1>4. [Next]_vars => [FALSE]_<<waiting, TRUE, KeyOf>>
  <2>1. ASSUME NEW d \in Dispatcher, DispatcherRuns(d) PROVE UNCHANGED waiting
    BY <2>1 DEF DispatcherRuns, DispatchStep, FanOutStep, FanOutReturns, FanOutRejects, placement
  <2>2. QED
    BY <2>1 DEF Next, PlaceOrderStep, ReplayStep, TimePasses, placement, vars
<1>5. Init => Placement!PlacementInit /\ Outbox!Init /\ Subscribers!Init
  BY DEF Init
<1>6. QED
  BY <1>1, <1>2, <1>3, <1>4, <1>5, JourneyInvariant, PTL
     DEF Spec, Placement!PlacementSpec, Outbox!Spec, Subscribers!Spec
=============================================================================
