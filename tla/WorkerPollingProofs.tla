------------------------- MODULE WorkerPollingProofs -------------------------
(***************************************************************************)
(* Proofs about PollOutbox, and about the worker with its polls, for any   *)
(* messages, triggers, commands, batches and bounds.                       *)
(***************************************************************************)
EXTENDS WorkerPolling, FiniteSetTheorems, TLAPS

-----------------------------------------------------------------------------
(* Types and the poller's hands                                            *)

Holding == {"recordFailure", "acknowledge", "recordAckFailure", "notify"}

\* A dispatcher at rest has nothing in hand; one past publish has a message that it
\* has taken off its batch.  It works on what is not settled, and notifies of what
\* is published.
HandsInv ==
    /\ pc[poller] = "idle" => todo[poller] = {}
    /\ pc[poller] \in {"idle", "publish"} => msg[poller] = NoMessage
    /\ pc[poller] \in Holding => msg[poller] \in Message \ todo[poller]
    /\ pc[poller] = "notify" => msg[poller] \in published
    /\ pc[poller] \in {"recordFailure", "acknowledge"} => msg[poller] \notin Outbox!Settled
    /\ todo[poller] \cap Outbox!Settled = {}

\* A poll at work has a date to start at, and its clock shows the cycle it is in.
ClockInv ==
    /\ stage \in {"next", "list", "deliver", "lookAhead", "resolved"} =>
          command.startAt \in Nat
    /\ stage \in {"list", "deliver", "lookAhead"} =>
          cycle > 0 /\ now = TimeOfCycle(cycle - 1)

PollInv == TypeOK /\ HandsInv /\ ClockInv

LEMMA Products == \A a, b \in Nat : a * b \in Nat
OBVIOUS

LEMMA CommandFields ==
  ASSUME NEW c \in Command
  PROVE  /\ c.startAt \in Nat \cup {BadTime} /\ c.stepSeconds \in Nat /\ c.cycles \in Nat
         /\ c.retryDelaySeconds \in Nat
BY CommandAssumption

LEMMA InitPollInv == Init => PollInv
<1> SUFFICES ASSUME Init PROVE PollInv
  OBVIOUS
<1>1. Outbox!TypeOK
  BY BoundAssumption DEF Init, Outbox!Init, Outbox!TypeOK, Outbox!Event, Due
<1>2. TypeOK
  BY <1>1, TimeAssumption DEF Init, Outbox!Init, TypeOK
<1>3. HandsInv /\ ClockInv
  BY DEF Init, Outbox!Init, HandsInv, ClockInv, Holding
<1>4. QED
  BY <1>2, <1>3 DEF PollInv

\* What the broker accepts is counted.
LEMMA DeliverKeepsType ==
  ASSUME Outbox!TypeOK, NEW m \in Message, NEW n, Outbox!Deliver(m, n)
  PROVE  delivered' \in [Message -> [Outbox!Event -> Nat]]
BY DEF Outbox!TypeOK, Outbox!Deliver

OutboxStep ==
    \/ Outbox!ListPending(poller) \/ Outbox!Publish(poller)
    \/ Outbox!RecordFailure(poller) \/ Outbox!Acknowledge(poller)
    \/ Outbox!RecordAckFailure(poller) \/ Outbox!NotifyAll(poller)
    \/ Outbox!SubscriberThrows(poller) \/ Outbox!Abort(poller)

\* A step of the dispatch keeps the types, and does to the poller's hands what the
\* code does.
LEMMA DispatchKeepsTypes ==
  ASSUME Outbox!TypeOK, HandsInv, OutboxStep
  PROVE  Outbox!TypeOK' /\ HandsInv'
<1> USE DEF Outbox!TypeOK, Outbox!Settled, HandsInv, Holding
<1>1. Due' \subseteq Message
  BY DEF Due
<1>2. ASSUME Outbox!ListPending(poller) PROVE Outbox!TypeOK' /\ HandsInv'
  <2>1. PICK B \in SUBSET Outbox!Pending :
           /\ todo' = [todo EXCEPT ![poller] = B]
           /\ seen' = [seen EXCEPT ![poller] =
                         [m \in Message |-> IF m \in B THEN retryCount[m] ELSE 0]]
    BY <1>2 DEF Outbox!ListPending
  <2>2. B \in SUBSET Message /\ B \cap (published \cup deadLettered) = {}
    BY DEF Outbox!Pending
  <2>3. todo' \in [{poller} -> SUBSET Message] /\ todo'[poller] = B
    BY <2>1, <2>2
  <2>4. seen' \in [{poller} -> [Message -> Nat]]
    BY <2>1
  <2>5. QED
    BY <1>1, <1>2, <2>2, <2>3, <2>4 DEF Outbox!ListPending, Outbox!columns
<1>3. ASSUME Outbox!Publish(poller) PROVE Outbox!TypeOK' /\ HandsInv'
  <2>1. PICK m \in todo[poller] : Outbox!PublishTo(poller, m)
    BY <1>3 DEF Outbox!Publish
  <2>2. m \in Message
    OBVIOUS
  <2>3. delivered' \in [Message -> [Outbox!Event -> Nat]]
    BY <2>1, <2>2, DeliverKeepsType DEF Outbox!PublishTo
  <2>4. Outbox!TypeOK'
    BY <1>1, <1>3, <2>1, <2>2, <2>3 DEF Outbox!Publish, Outbox!PublishTo, Outbox!columns
  <2>5. /\ pc'[poller] \in Holding \ {"notify"} /\ msg'[poller] = m
        /\ todo'[poller] = todo[poller] \ {m}
        /\ UNCHANGED <<published, deadLettered>>
    BY <1>3, <2>1 DEF Outbox!Publish, Outbox!PublishTo, Outbox!columns
  <2>6. QED
    BY <2>2, <2>4, <2>5
<1>4. ASSUME Outbox!RecordFailure(poller) \/ Outbox!RecordAckFailure(poller)
      PROVE  Outbox!TypeOK' /\ HandsInv'
  <2>1. msg[poller] \in Message \ todo[poller]
    BY <1>4 DEF Outbox!RecordFailure, Outbox!RecordAckFailure
  <2>2. Outbox!TypeOK'
    BY <1>1, <1>4, <2>1 DEF Outbox!RecordFailure, Outbox!RecordAckFailure,
       Outbox!MarkAsFailed, Outbox!NextMessage
  <2>3. /\ pc'[poller] = IF todo[poller] = {} THEN "idle" ELSE "publish"
        /\ msg'[poller] = NoMessage /\ UNCHANGED <<todo, published>>
        /\ deadLettered' \subseteq deadLettered \cup {msg[poller]}
    BY <1>4 DEF Outbox!RecordFailure, Outbox!RecordAckFailure,
       Outbox!MarkAsFailed, Outbox!NextMessage
  <2>4. QED
    BY <2>1, <2>2, <2>3
<1>5. ASSUME Outbox!Acknowledge(poller) PROVE Outbox!TypeOK' /\ HandsInv'
  <2>1. /\ pc'[poller] \in {"notify", "recordAckFailure"} /\ UNCHANGED <<todo, msg, deadLettered>>
        /\ published' \subseteq published \cup {msg[poller]}
        /\ pc'[poller] = "notify" => msg[poller] \in published'
        /\ pc[poller] = "acknowledge"
    BY <1>5 DEF Outbox!Acknowledge, Outbox!MarkAsPublished
  <2>2. Outbox!TypeOK'
    BY <1>1, <1>5, <2>1 DEF Outbox!Acknowledge, Outbox!MarkAsPublished
  <2>3. QED
    BY <2>1, <2>2
<1>6. ASSUME Outbox!NotifyAll(poller) PROVE Outbox!TypeOK' /\ HandsInv'
  <2>1. EventCount \in 0..EventCount
    BY BoundAssumption
  <2>2. QED
    BY <1>1, <1>6, <2>1 DEF Outbox!NotifyAll, Outbox!NextMessage, Outbox!columns
<1>7. ASSUME Outbox!SubscriberThrows(poller) PROVE Outbox!TypeOK' /\ HandsInv'
  <2>1. msg[poller] \in Message
    BY <1>7 DEF Outbox!SubscriberThrows
  <2>2. notified' \in [Message -> 0..EventCount]
    BY <1>7, BoundAssumption DEF Outbox!SubscriberThrows
  <2>3. QED
    BY <1>1, <1>7, <2>1, <2>2 DEF Outbox!SubscriberThrows, Outbox!Quit, Outbox!columns
<1>8. ASSUME Outbox!Abort(poller) PROVE Outbox!TypeOK' /\ HandsInv'
  BY <1>1, <1>8, BoundAssumption DEF Outbox!Abort, Outbox!Quit, Outbox!columns
<1>9. QED
  BY <1>2, <1>3, <1>4, <1>5, <1>6, <1>7, <1>8 DEF OutboxStep

\* What the outbox keeps when only the poll moves on.
LEMMA RestKeepsTypes ==
  ASSUME Outbox!TypeOK, HandsInv, UNCHANGED dispatchVars
  PROVE  Outbox!TypeOK' /\ HandsInv'
<1>1. Due' \subseteq Message
  BY DEF Due
<1>2. QED
  BY <1>1 DEF Outbox!TypeOK, Outbox!Settled, HandsInv, dispatchVars

\* Saving an order adds a row and nothing else.
LEMMA SaveKeepsTypes ==
  ASSUME Outbox!TypeOK, HandsInv, NEW m \in Message, Save(m)
  PROVE  Outbox!TypeOK' /\ HandsInv' /\ saved \subseteq saved'
<1>1. Due' \subseteq Message
  BY DEF Due
<1>2. QED
  BY <1>1 DEF Save, Outbox!Save, Outbox!TypeOK, Outbox!Settled, HandsInv

PollStages == {"off", "next", "list", "deliver", "lookAhead", "resolved", "rejected"}

LEMMA NextPollInv == PollInv /\ [Next]_vars => PollInv'
<1> SUFFICES ASSUME PollInv, [Next]_vars PROVE PollInv'
  OBVIOUS
<1>1. /\ Outbox!TypeOK /\ HandsInv /\ ClockInv
      /\ nextAttemptAt \in [Message -> Nat] /\ now \in Nat /\ command \in Command
      /\ cycle \in Nat /\ stage \in PollStages
      /\ (stage = "deliver" <=> pc[poller] # "idle")
      /\ owed \subseteq saved
      /\ lastFailure \in [Message -> [at : Nat, delay : Nat]]
  BY DEF PollInv, TypeOK, PollStages
<1>2. saved \subseteq Message /\ pc \in [{poller} -> {"idle", "publish"} \cup Holding]
  BY <1>1 DEF Outbox!TypeOK, Holding
<1>3. command.stepSeconds \in Nat /\ command.retryDelaySeconds \in Nat
  BY <1>1, CommandFields
<1>4. ASSUME NEW c \in Command, StartPoll(c) PROVE PollInv'
  <2>1. Outbox!TypeOK' /\ HandsInv'
    BY <1>1, <1>4, RestKeepsTypes DEF StartPoll
  <2>2. UNCHANGED <<dispatchVars, times>> /\ command' = c /\ cycle' = 0 /\ stage = "off"
    BY <1>4 DEF StartPoll
  <2>3. stage' \in {"next", "resolved", "rejected"} /\ owed' \subseteq saved
    BY <1>4 DEF StartPoll
  <2>4. TypeOK'
    BY <1>1, <2>1, <2>2, <2>3 DEF TypeOK, dispatchVars, times, PollStages
  <2>5. ClockInv'
    BY <1>4, <2>2, CommandFields DEF StartPoll, ClockInv
  <2>6. QED
    BY <2>1, <2>4, <2>5 DEF PollInv
<1>5. CASE BeginCycle
  <2>1. Outbox!TypeOK' /\ HandsInv'
    BY <1>1, <1>5, RestKeepsTypes DEF BeginCycle
  <2>2. /\ UNCHANGED <<dispatchVars, nextAttemptAt, lastFailure, command, owed>>
        /\ stage = "next" /\ stage' = "list" /\ cycle' = cycle + 1
        /\ now' = command.startAt + cycle * command.stepSeconds
    BY <1>5 DEF BeginCycle, TimeOfCycle
  <2>3. cycle * command.stepSeconds \in Nat /\ command.startAt \in Nat
    BY <1>1, <1>3, <2>2, Products DEF ClockInv
  <2>4. TypeOK'
    BY <1>1, <2>1, <2>2, <2>3 DEF TypeOK, dispatchVars, PollStages
  <2>5. (cycle + 1) - 1 = cycle /\ cycle + 1 > 0
    BY <1>1
  <2>6. ClockInv'
    BY <2>2, <2>3, <2>5 DEF ClockInv, TimeOfCycle
  <2>7. QED
    BY <2>1, <2>4, <2>6 DEF PollInv
<1>6. ASSUME UNCHANGED <<now, command, cycle>>, command.startAt \in Nat,
             stage \in {"list", "deliver", "lookAhead"}
      PROVE  ClockInv'
  BY <1>1, <1>6 DEF ClockInv, TimeOfCycle
<1>7. CASE List \/ Deliver \/ DispatchRejects
  <2>1. /\ stage \in {"list", "deliver"} /\ UNCHANGED <<times, command, cycle, owed>>
        /\ stage' \in PollStages
        /\ OutboxStep \/ UNCHANGED dispatchVars
    BY <1>7 DEF List, Deliver, DispatchRejects, OutboxStep, Carried, PollStages
  <2>2. Outbox!TypeOK' /\ HandsInv'
    BY <1>1, <2>1, DispatchKeepsTypes, RestKeepsTypes
  <2>3. UNCHANGED saved
    BY <1>7 DEF List, Deliver, DispatchRejects, Outbox!ListPending, Outbox!Publish,
       Outbox!Acknowledge, Outbox!RecordAckFailure, Outbox!NotifyAll, Outbox!MarkAsFailed,
       Outbox!SubscriberThrows, Outbox!Abort, Outbox!columns, dispatchVars
  <2>4. stage' = "deliver" <=> pc'[poller] # "idle"
    BY <1>1, <1>2, <1>7
       DEF List, Deliver, DispatchRejects, Carried, Outbox!ListPending,
           Outbox!SubscriberThrows, Outbox!Abort, Outbox!Quit, dispatchVars
  <2>5. QED
    BY <1>1, <1>6, <2>1, <2>2, <2>3, <2>4 DEF PollInv, TypeOK, PollStages, times, ClockInv
<1>8. CASE RecordFailure
  <2>1. /\ stage = "deliver" /\ UNCHANGED <<now, command, cycle, owed>>
        /\ Outbox!RecordFailure(poller) /\ stage' = Carried
        /\ pc[poller] = "recordFailure"
    BY <1>8 DEF RecordFailure
  <2>2. Outbox!TypeOK' /\ HandsInv'
    BY <1>1, <2>1, DispatchKeepsTypes DEF OutboxStep
  <2>3. UNCHANGED saved
    BY <2>1 DEF Outbox!RecordFailure, Outbox!MarkAsFailed
  <2>4. msg[poller] \in Message
    BY <1>1, <2>1 DEF HandsInv, Holding
  <2>5. nextAttemptAt' \in [Message -> Nat]
    BY <1>1, <1>3, <1>8, <2>4 DEF RecordFailure, Postpone
  <2>6. lastFailure' \in [Message -> [at : Nat, delay : Nat]]
    BY <1>1, <1>3, <1>8, <2>4 DEF RecordFailure
  <2>7. QED
    BY <1>1, <1>6, <2>1, <2>2, <2>3, <2>5, <2>6 DEF PollInv, TypeOK, PollStages, Carried, ClockInv
<1>9. CASE QueryRejects
  <2>1. Outbox!TypeOK'
    <3>1. aborts' \in 0..MaxAborts
      BY <1>1, <1>9, BoundAssumption DEF QueryRejects, Outbox!TypeOK
    <3>2. Due' \subseteq Message
      BY DEF Due
    <3>3. QED
      BY <1>1, <1>9, <3>1, <3>2 DEF QueryRejects, Outbox!TypeOK
  <2>2. HandsInv'
    BY <1>1, <1>9 DEF QueryRejects, HandsInv, Outbox!Settled
  <2>3. QED
    BY <1>1, <1>9, <2>1, <2>2 DEF QueryRejects, PollInv, TypeOK, PollStages, times, ClockInv
<1>10. CASE LookAhead \/ EndPoll
  <2>1. /\ UNCHANGED <<dispatchVars, times, command, cycle, owed>>
        /\ stage \in {"lookAhead", "resolved", "rejected"}
        /\ stage = "lookAhead" => stage' \in {"next", "resolved"}
        /\ stage # "lookAhead" => stage' = "off"
    BY <1>10 DEF LookAhead, EndPoll
  <2>2. Outbox!TypeOK' /\ HandsInv'
    BY <1>1, <2>1, RestKeepsTypes
  <2>3. QED
    BY <1>1, <2>1, <2>2 DEF PollInv, TypeOK, PollStages, times, dispatchVars, ClockInv
<1>11. ASSUME NEW m \in Message, Save(m) PROVE PollInv'
  <2>1. Outbox!TypeOK' /\ HandsInv' /\ saved \subseteq saved'
    BY <1>1, <1>11, SaveKeepsTypes
  <2>2. UNCHANGED <<times, pollVars, pc>>
    BY <1>11 DEF Save, Outbox!Save
  <2>3. QED
    BY <1>1, <2>1, <2>2 DEF PollInv, TypeOK, PollStages, times, pollVars, ClockInv, TimeOfCycle
<1>12. CASE UNCHANGED vars
  <2>1. Outbox!TypeOK' /\ HandsInv'
    BY <1>1, <1>12, RestKeepsTypes DEF vars
  <2>2. QED
    BY <1>1, <1>12, <2>1 DEF PollInv, TypeOK, PollStages, vars, times, pollVars,
                             dispatchVars, ClockInv, TimeOfCycle
<1>13. QED
  BY <1>4, <1>5, <1>7, <1>8, <1>9, <1>10, <1>11, <1>12 DEF Next, PollStep

LEMMA PollInvariant == Spec => []PollInv
BY InitPollInv, NextPollInv, PTL DEF Spec

-----------------------------------------------------------------------------
(* What a step does to a message                                           *)

InHand(m) == m \in todo[poller] \/ m = msg[poller]

\* A delivery leaves a message that it does not settle, and that is in hand, there.
LEMMA DeliverOn ==
  ASSUME PollInv, Deliver, NEW m \in Message, m \notin Outbox!Settled'
  PROVE  /\ m \notin Outbox!Settled /\ retryCount'[m] = retryCount[m]
         /\ InHand(m)' <=> InHand(m)
<1>1. Outbox!TypeOK /\ HandsInv
  BY DEF PollInv, TypeOK
<1> USE <1>1, MessageAssumption
    DEF Outbox!TypeOK, HandsInv, Holding, InHand, Outbox!Settled
<1>2. CASE Outbox!Publish(poller)
  <2>1. PICK n \in todo[poller] : Outbox!PublishTo(poller, n)
    BY <1>2 DEF Outbox!Publish
  <2>2. /\ todo'[poller] = todo[poller] \ {n} /\ msg'[poller] = n
        /\ UNCHANGED <<published, deadLettered, retryCount>>
        /\ msg[poller] = NoMessage
    BY <1>2, <2>1 DEF Outbox!Publish, Outbox!PublishTo, Outbox!columns
  <2>3. QED
    BY <2>2
<1>3. CASE Outbox!Acknowledge(poller)
  BY <1>3 DEF Outbox!Acknowledge, Outbox!MarkAsPublished
<1>4. CASE Outbox!RecordAckFailure(poller)
  <2>1. /\ deadLettered' = deadLettered \cup {msg[poller]}
        /\ retryCount' = [retryCount EXCEPT ![msg[poller]] = @ + 1]
        /\ msg'[poller] = NoMessage /\ UNCHANGED <<todo, published>>
    BY <1>4 DEF Outbox!RecordAckFailure, Outbox!MarkAsFailed, Outbox!NextMessage
  <2>2. QED
    BY <2>1
<1>5. CASE Outbox!NotifyAll(poller)
  <2>1. /\ UNCHANGED <<published, deadLettered, retryCount, todo>>
        /\ msg'[poller] = NoMessage /\ msg[poller] \in published
    BY <1>5 DEF Outbox!NotifyAll, Outbox!NextMessage, Outbox!columns
  <2>2. QED
    BY <2>1
<1>6. QED
  BY <1>2, <1>3, <1>4, <1>5 DEF Deliver

\* A failure that is recorded postpones its message, unless it settles it, and
\* touches no other.
LEMMA FailureOn ==
  ASSUME PollInv, RecordFailure, NEW m \in Message
  PROVE  /\ m \in Outbox!Settled => m \in Outbox!Settled'
         /\ m = msg[poller] =>
               /\ ~InHand(m)'
               /\ retryCount'[m] = retryCount[m] + 1
               /\ m \notin Outbox!Settled' =>
                     /\ nextAttemptAt'[m] = now + command.retryDelaySeconds
                     /\ ~Outbox!GivesUp(poller, m)
               /\ Outbox!GivesUp(poller, m) => m \in deadLettered'
         /\ m # msg[poller] =>
               /\ nextAttemptAt'[m] = nextAttemptAt[m] /\ retryCount'[m] = retryCount[m]
               /\ m \in Outbox!Settled' <=> m \in Outbox!Settled
               /\ m \in deadLettered' <=> m \in deadLettered
               /\ InHand(m)' <=> InHand(m)
<1>1. /\ Outbox!TypeOK /\ HandsInv /\ nextAttemptAt \in [Message -> Nat]
  BY DEF PollInv, TypeOK
<1>2. PICK b \in BOOLEAN : b <=> Outbox!GivesUp(poller, msg[poller])
  <2>1. CASE Outbox!GivesUp(poller, msg[poller])
    BY <2>1
  <2>2. CASE ~Outbox!GivesUp(poller, msg[poller])
    BY <2>2
  <2>3. QED
    BY <2>1, <2>2
<1>3. /\ pc[poller] = "recordFailure"
      /\ deadLettered' = IF b THEN deadLettered \cup {msg[poller]}
                              ELSE deadLettered \ {msg[poller]}
      /\ retryCount' = [retryCount EXCEPT ![msg[poller]] = @ + 1]
      /\ IF b THEN UNCHANGED nextAttemptAt ELSE Postpone(msg[poller])
      /\ UNCHANGED <<todo, published>> /\ msg' = [msg EXCEPT ![poller] = NoMessage]
  BY <1>2 DEF RecordFailure, Outbox!RecordFailure, Outbox!MarkAsFailed, Outbox!NextMessage
<1>4. /\ msg[poller] \in Message /\ msg[poller] \notin todo[poller]
      /\ msg[poller] \notin Outbox!Settled
  BY <1>1, <1>3 DEF HandsInv, Holding
<1>5. msg'[poller] = NoMessage
  BY <1>1, <1>3 DEF Outbox!TypeOK
<1>6. CASE m = msg[poller]
  BY <1>1, <1>2, <1>3, <1>4, <1>5, <1>6, MessageAssumption
     DEF InHand, Postpone, Outbox!Settled, Outbox!TypeOK
<1>7. CASE m # msg[poller]
  BY <1>1, <1>2, <1>3, <1>4, <1>5, <1>7, MessageAssumption
     DEF InHand, Postpone, Outbox!Settled, Outbox!TypeOK
<1>8. QED
  BY <1>6, <1>7

\* OutboxDispatch counts as this module does.
LEMMA SameCardinality == \A S : Outbox!Cardinality(S) = Cardinality(S)
BY DEF Outbox!Cardinality, Cardinality

\* A dispatch whose batch has room for everything takes everything.
LEMMA BatchTakesAll ==
  ASSUME PollInv, BatchSize >= Cardinality(Message), Outbox!ListPending(poller)
  PROVE  todo'[poller] = Outbox!Pending
<1>1. PICK B \in SUBSET Outbox!Pending : Outbox!IsBatch(B) /\ todo' = [todo EXCEPT ![poller] = B]
  BY DEF Outbox!ListPending
<1>2. Outbox!Pending \subseteq Message
  BY DEF PollInv, TypeOK, Outbox!TypeOK, Outbox!Pending
<1>3. IsFiniteSet(Outbox!Pending) /\ Cardinality(Outbox!Pending) <= Cardinality(Message)
  BY <1>2, FS_Subset, MessageAssumption
<1>4. /\ Cardinality(B) \in Nat /\ Cardinality(Message) \in Nat
      /\ Cardinality(Outbox!Pending) \in Nat
  BY <1>1, <1>3, FS_Subset, FS_CardinalityType, MessageAssumption
<1>5. B # Outbox!Pending => Cardinality(B) < Cardinality(Outbox!Pending)
  <2>1. B \subseteq Outbox!Pending
    BY <1>1
  <2>2. /\ Cardinality(B) <= Cardinality(Outbox!Pending)
        /\ Cardinality(Outbox!Pending) = Cardinality(B) => Outbox!Pending = B
    BY <1>3, <2>1, FS_Subset
  <2>3. QED
    BY <1>4, <2>2
<1>6. B = Outbox!Pending
  <2>1. B # Outbox!Pending => Cardinality(B) = BatchSize
    BY <1>1, SameCardinality DEF Outbox!IsBatch
  <2>2. BatchSize \in Nat /\ Cardinality(Message) <= BatchSize
    BY <1>4, BoundAssumption
  <2>3. Cardinality(Outbox!Pending) <= BatchSize
    BY <1>3, <1>4, <2>2
  <2>4. QED
    BY <1>4, <1>5, <2>1, <2>2, <2>3
<1>7. QED
  BY <1>1, <1>6 DEF PollInv, TypeOK, Outbox!TypeOK

\* What a dispatch lists, and what it leaves.
LEMMA ListOn ==
  ASSUME PollInv, Outbox!ListPending(poller)
  PROVE  /\ pc[poller] = "idle" /\ UNCHANGED <<saved, published, deadLettered, retryCount, msg>>
         /\ todo'[poller] \subseteq Outbox!Pending
BY DEF Outbox!ListPending, Outbox!columns, PollInv, TypeOK, Outbox!TypeOK

\* When the dispatch of a cycle is over, nothing is in hand.
LEMMA NothingInHand ==
  ASSUME PollInv, stage # "deliver", NEW m \in Message PROVE ~InHand(m)
BY MessageAssumption DEF PollInv, TypeOK, HandsInv, InHand

\* A poll step that is neither a listing nor a delivery leaves the messages alone.
Elsewhere ==
    \/ BeginCycle \/ QueryRejects \/ LookAhead \/ EndPoll \/ UNCHANGED vars
    \/ (\E c \in Command : StartPoll(c)) \/ (\E m \in Message : Save(m))

LEMMA ElsewhereOn ==
  ASSUME PollInv, Elsewhere
  PROVE  /\ UNCHANGED <<published, deadLettered, retryCount, nextAttemptAt, lastFailure>>
         /\ UNCHANGED <<pc, todo, msg>>
BY DEF Elsewhere, BeginCycle, QueryRejects, LookAhead, EndPoll, StartPoll, Save, Outbox!Save,
       vars, dispatchVars, times

\* A dispatch that is given up leaves the messages as they are.
LEMMA RejectOn ==
  ASSUME PollInv, DispatchRejects
  PROVE  /\ UNCHANGED <<saved, published, deadLettered, retryCount, nextAttemptAt, lastFailure>>
         /\ stage' = "rejected" /\ pc'[poller] = "idle"
BY DEF DispatchRejects, Outbox!SubscriberThrows, Outbox!Abort, Outbox!Quit, Outbox!columns,
       times, PollInv, TypeOK, Outbox!TypeOK

-----------------------------------------------------------------------------
(* Retries are spaced                                                      *)

RetryAt(m) == lastFailure[m].at + lastFailure[m].delay

\* A message that is not given up comes up when its retry delay is over, and what a
\* dispatch has in hand has come up.
SpacedInv ==
    /\ \A m \in Message : m \in deadLettered \/ RetryAt(m) <= nextAttemptAt[m]
    /\ stage = "deliver" => \A m \in Message : InHand(m) => RetryAt(m) <= now

LEMMA NextSpacedInv == PollInv /\ SpacedInv /\ [Next]_vars => SpacedInv'
<1> SUFFICES ASSUME PollInv, SpacedInv, [Next]_vars PROVE SpacedInv'
  OBVIOUS
<1>1. /\ nextAttemptAt \in [Message -> Nat] /\ now \in Nat
      /\ lastFailure \in [Message -> [at : Nat, delay : Nat]]
      /\ msg[poller] = NoMessage \/ msg[poller] \in Message
  BY DEF PollInv, TypeOK, Outbox!TypeOK
<1>2. \A m \in Message : RetryAt(m) \in Nat
  BY <1>1 DEF RetryAt
<1>3. CASE Elsewhere
  <2>1. UNCHANGED <<deadLettered, nextAttemptAt, lastFailure, todo, msg>>
    BY <1>3, ElsewhereOn
  <2>2. stage' = "deliver" => stage = "deliver" /\ UNCHANGED now
    BY <1>3 DEF Elsewhere, BeginCycle, QueryRejects, LookAhead, EndPoll, StartPoll, Save,
                vars, times, pollVars
  <2>3. QED
    BY <2>1, <2>2 DEF SpacedInv, RetryAt, InHand
<1>4. CASE DispatchRejects
  BY <1>4, RejectOn DEF SpacedInv, RetryAt
<1>5. CASE List
  <2>1. UNCHANGED <<now, nextAttemptAt, lastFailure>>
    BY <1>5 DEF List, times
  <2>2. CASE Outbox!ListPending(poller)
    <3>1. /\ UNCHANGED deadLettered /\ msg' = msg /\ pc[poller] = "idle"
          /\ todo'[poller] \subseteq Outbox!Pending
      BY <2>2, ListOn
    <3>2. msg[poller] = NoMessage
      BY <3>1 DEF PollInv, HandsInv
    <3>3. ASSUME NEW m \in Message, InHand(m)' PROVE RetryAt(m) <= now
      <4>1. m \in Outbox!Pending
        BY <3>1, <3>2, <3>3, MessageAssumption DEF InHand
      <4>2. m \notin deadLettered /\ nextAttemptAt[m] <= now
        BY <4>1 DEF Outbox!Pending, Outbox!Settled, Due
      <4>3. QED
        BY <1>1, <1>2, <4>2 DEF SpacedInv
    <3>4. QED
      BY <2>1, <3>1, <3>3 DEF SpacedInv, RetryAt
  <2>3. CASE Outbox!Pending = {} /\ stage' = "lookAhead" /\ UNCHANGED dispatchVars
    BY <2>1, <2>3 DEF SpacedInv, RetryAt, dispatchVars
  <2>4. QED
    BY <1>5, <2>2, <2>3 DEF List
<1>6. CASE Deliver
  <2>1. /\ UNCHANGED <<now, nextAttemptAt, lastFailure>> /\ stage = "deliver"
        /\ deadLettered \subseteq deadLettered'
    BY <1>6 DEF Deliver, times, Outbox!Publish, Outbox!Acknowledge, Outbox!RecordAckFailure,
                Outbox!NotifyAll, Outbox!MarkAsFailed, Outbox!columns
  <2>2. ASSUME NEW m \in Message, InHand(m)' PROVE InHand(m)
    <3>1. /\ todo'[poller] \subseteq todo[poller]
          /\ msg'[poller] \in todo[poller] \cup {NoMessage, msg[poller]}
      <4>1. /\ todo \in [{poller} -> SUBSET Message]
            /\ msg \in [{poller} -> Message \cup {NoMessage}]
        BY DEF PollInv, TypeOK, Outbox!TypeOK
      <4>2. CASE Outbox!Publish(poller)
        <5>1. PICK n \in todo[poller] : Outbox!PublishTo(poller, n)
          BY <4>2 DEF Outbox!Publish
        <5>2. QED
          BY <4>1, <5>1 DEF Outbox!PublishTo
      <4>3. CASE ~Outbox!Publish(poller)
        BY <1>6, <4>1, <4>3 DEF Deliver, Outbox!Acknowledge, Outbox!RecordAckFailure,
                                Outbox!NotifyAll, Outbox!NextMessage
      <4>4. QED
        BY <4>2, <4>3
    <3>2. QED
      BY <2>2, <3>1, MessageAssumption DEF InHand
  <2>3. QED
    BY <2>1, <2>2 DEF SpacedInv, RetryAt
<1>7. CASE RecordFailure
  <2>1. /\ now' = now /\ stage = "deliver" /\ command.retryDelaySeconds \in Nat
        /\ lastFailure' = [lastFailure EXCEPT ![msg[poller]] =
                             [at |-> now, delay |-> command.retryDelaySeconds]]
    BY <1>7, CommandFields DEF RecordFailure, PollInv, TypeOK
  <2>2. ASSUME NEW m \in Message, m = msg[poller]
        PROVE  /\ m \in deadLettered' \/ RetryAt(m)' <= nextAttemptAt'[m]
               /\ ~InHand(m)'
    <3>1. RetryAt(m)' = now + command.retryDelaySeconds
      BY <1>1, <2>1, <2>2 DEF RetryAt
    <3>2. CASE Outbox!GivesUp(poller, m)
      BY <1>7, <2>2, <3>2, FailureOn
    <3>3. CASE ~Outbox!GivesUp(poller, m)
      <4>1. Postpone(m)
        BY <1>7, <2>2, <3>3 DEF RecordFailure
      <4>2. nextAttemptAt'[m] = now + command.retryDelaySeconds
        BY <1>1, <4>1 DEF Postpone
      <4>3. QED
        BY <1>1, <1>7, <2>1, <2>2, <3>1, <4>2, FailureOn
    <3>4. QED
      BY <3>2, <3>3
  <2>3. ASSUME NEW m \in Message, m # msg[poller]
        PROVE  /\ RetryAt(m)' = RetryAt(m) /\ nextAttemptAt'[m] = nextAttemptAt[m]
               /\ m \in deadLettered' <=> m \in deadLettered
               /\ InHand(m)' => InHand(m)
    BY <1>1, <1>7, <2>1, <2>3, FailureOn DEF RetryAt
  <2>4. QED
    BY <2>1, <2>2, <2>3 DEF SpacedInv
<1>8. QED
  BY <1>3, <1>4, <1>5, <1>6, <1>7 DEF Next, PollStep, Elsewhere

\* For any commands and any number of polls, cut short or not: no message is offered
\* to the broker again before the delay that followed its last failure.
THEOREM RetriesAreSpacedHolds == Spec => []RetriesAreSpaced
<1>1. Init => SpacedInv
  <2> SUFFICES ASSUME Init PROVE SpacedInv
    OBVIOUS
  <2>1. \A m \in Message : RetryAt(m) = 0
    BY DEF Init, RetryAt
  <2>2. \A m \in Message : nextAttemptAt[m] \in Nat
    BY TimeAssumption DEF Init
  <2>3. stage = "off"
    BY DEF Init
  <2>4. \A m \in Message : RetryAt(m) <= nextAttemptAt[m]
    BY <2>1, <2>2
  <2>5. QED
    BY <2>3, <2>4 DEF SpacedInv
<1>2. PollInv /\ SpacedInv => RetriesAreSpaced
  <2> SUFFICES ASSUME PollInv, SpacedInv, NEW m \in Message, msg[poller] = m
               PROVE  now >= lastFailure[m].at + lastFailure[m].delay
    BY DEF RetriesAreSpaced
  <2>1. InHand(m) /\ stage = "deliver"
    BY NothingInHand DEF InHand
  <2>2. now \in Nat /\ lastFailure[m].at \in Nat /\ lastFailure[m].delay \in Nat
    BY DEF PollInv, TypeOK
  <2>3. QED
    BY <2>1, <2>2 DEF SpacedInv, RetryAt
<1>3. QED
  BY <1>1, <1>2, NextSpacedInv, PollInvariant, PTL DEF Spec

-----------------------------------------------------------------------------
(* Nothing is left within the horizon                                      *)

\* What a cycle has done with, settled or postponed beyond it.
Reached(m) == m \in Outbox!Settled \/ nextAttemptAt[m] > now

\* A cycle gets through all that was due; the last one is at the horizon.
LeftInv ==
    command.retryDelaySeconds > 0 /\ BatchSize >= Cardinality(Message) =>
        /\ stage = "deliver" => \A m \in owed : InHand(m) \/ Reached(m)
        /\ stage = "lookAhead" => \A m \in owed : Reached(m)
        /\ stage = "resolved" /\ command.cycles > 0 =>
              \A m \in owed : \/ m \in Outbox!Settled
                              \/ nextAttemptAt[m] > LastCycleAt(command)

LEMMA NothingInHandAfter ==
  ASSUME PollInv', stage' # "deliver", NEW m \in Message PROVE ~InHand(m)'
BY MessageAssumption DEF PollInv, TypeOK, HandsInv, InHand

\* A delivery, or a failure that it records, keeps what is reached so, and when it is
\* the last of its cycle nothing else is left.
LEMMA CarriedOn ==
  ASSUME PollInv, PollInv', Deliver \/ RecordFailure, NEW m \in Message,
         InHand(m) \/ Reached(m), command.retryDelaySeconds > 0
  PROVE  /\ InHand(m)' \/ Reached(m)'
         /\ stage' # "deliver" => Reached(m)'
<1>1. now' = now /\ now \in Nat /\ command.retryDelaySeconds \in Nat
  BY CommandFields DEF Deliver, RecordFailure, times, PollInv, TypeOK
<1>2. InHand(m)' \/ Reached(m)'
  <2>1. SUFFICES ASSUME m \notin Outbox!Settled' PROVE InHand(m)' \/ nextAttemptAt'[m] > now
    BY <1>1 DEF Reached
  <2>2. CASE Deliver
    <3>1. UNCHANGED nextAttemptAt
      BY <2>2 DEF Deliver, times
    <3>2. QED
      BY <2>1, <2>2, <3>1, DeliverOn DEF Reached
  <2>3. CASE RecordFailure
    <3>1. CASE m = msg[poller]
      BY <1>1, <2>1, <2>3, <3>1, FailureOn
    <3>2. CASE m # msg[poller]
      BY <2>1, <2>3, <3>2, FailureOn DEF Reached
    <3>3. QED
      BY <3>1, <3>2
  <2>4. QED
    BY <2>2, <2>3
<1>3. QED
  BY <1>2, NothingInHandAfter

\* A listing takes up, or finds reached, every message there is.
LEMMA ListedOn ==
  ASSUME PollInv, PollInv', List, BatchSize >= Cardinality(Message), NEW m \in saved
  PROVE  /\ InHand(m)' \/ Reached(m)'
         /\ stage' # "deliver" => Reached(m)'
         /\ Reached(m) <=> Reached(m)'
         /\ InHand(m)' => ~Reached(m)
<1>1. /\ UNCHANGED <<now, nextAttemptAt>> /\ now \in Nat /\ m \in Message
      /\ nextAttemptAt[m] \in Nat
  BY DEF List, times, PollInv, TypeOK, Outbox!TypeOK
<1>2. m \in Outbox!Pending <=> ~Reached(m)
  BY <1>1 DEF Outbox!Pending, Outbox!Settled, Due, Reached
<1>3. CASE Outbox!ListPending(poller)
  <2>1. todo'[poller] = Outbox!Pending /\ UNCHANGED <<published, deadLettered, msg>>
    BY <1>3, BatchTakesAll, ListOn
  <2>2. msg[poller] = NoMessage
    BY <1>3, ListOn DEF PollInv, HandsInv
  <2>3. Reached(m) <=> Reached(m)'
    BY <1>1, <2>1 DEF Reached, Outbox!Settled
  <2>4. InHand(m)' <=> m \in Outbox!Pending
    BY <1>1, <2>1, <2>2, MessageAssumption DEF InHand
  <2>5. QED
    BY <1>1, <1>2, <2>3, <2>4, NothingInHandAfter
<1>4. CASE Outbox!Pending = {} /\ stage' = "lookAhead" /\ UNCHANGED dispatchVars
  <2>1. Reached(m) /\ Reached(m)'
    BY <1>1, <1>2, <1>4 DEF Reached, Outbox!Settled, dispatchVars
  <2>2. ~InHand(m)'
    BY <1>1, <1>4, NothingInHandAfter
  <2>3. QED
    BY <2>1, <2>2
<1>5. QED
  BY <1>3, <1>4 DEF List

LEMMA NextLeftInv == PollInv /\ LeftInv /\ [Next]_vars => LeftInv'
<1> SUFFICES ASSUME PollInv, LeftInv, [Next]_vars PROVE LeftInv'
  OBVIOUS
<1>1. PollInv' /\ owed \subseteq saved /\ saved \subseteq Message
  BY NextPollInv DEF PollInv, TypeOK, Outbox!TypeOK
<1>2. ASSUME stage' \notin {"deliver", "lookAhead", "resolved"} PROVE LeftInv'
  BY <1>2 DEF LeftInv
<1>3. ASSUME NEW c \in Command, StartPoll(c) PROVE LeftInv'
  <2>1. /\ command' = c
        /\ stage' \in {"next", "rejected"} \/ (stage' = "resolved" /\ c.cycles = 0)
    BY <1>3 DEF StartPoll
  <2>2. QED
    BY <2>1 DEF LeftInv
<1>4. CASE BeginCycle \/ QueryRejects \/ EndPoll
  BY <1>2, <1>4 DEF BeginCycle, QueryRejects, EndPoll
<1>5. CASE DispatchRejects
  BY <1>2, <1>5, RejectOn
<1>6. CASE LookAhead
  <2>1. /\ stage = "lookAhead" /\ UNCHANGED <<dispatchVars, times, command, cycle, owed>>
        /\ stage' = IF RemainingWork = {} \/ cycle = command.cycles THEN "resolved" ELSE "next"
    BY <1>6 DEF LookAhead
  <2>2. SUFFICES ASSUME command.retryDelaySeconds > 0, BatchSize >= Cardinality(Message),
                        stage' = "resolved", command.cycles > 0, NEW m \in owed,
                        m \notin Outbox!Settled
                 PROVE  nextAttemptAt[m] > LastCycleAt(command)
    BY <2>1 DEF LeftInv, dispatchVars, times, Outbox!Settled, LastCycleAt
  <2>3. nextAttemptAt[m] > now
    BY <2>1, <2>2 DEF LeftInv, Reached
  <2>4. Horizon(command) = LastCycleAt(command)
    BY <2>2 DEF Horizon, LastCycleAt
  <2>5. /\ command.cycles \in Nat /\ command.stepSeconds \in Nat /\ command.startAt \in Nat
        /\ nextAttemptAt[m] \in Nat
    BY <1>1, <2>1, CommandFields DEF PollInv, TypeOK, ClockInv
  <2>6. CASE RemainingWork = {}
    <3>1. ~ (nextAttemptAt[m] <= Horizon(command))
      BY <1>1, <2>2, <2>6 DEF RemainingWork
    <3>2. (command.cycles - 1) * command.stepSeconds \in Nat
      <4>1. command.cycles - 1 \in Nat
        BY <2>2, <2>5
      <4>2. QED
        BY <2>5, <4>1, Products
    <3>3. LastCycleAt(command) \in Nat
      BY <2>5, <3>2 DEF LastCycleAt
    <3>4. QED
      BY <2>4, <2>5, <3>1, <3>3
  <2>7. CASE cycle = command.cycles
    <3>1. now = LastCycleAt(command)
      BY <2>1, <2>7 DEF PollInv, ClockInv, TimeOfCycle, LastCycleAt
    <3>2. QED
      BY <2>3, <3>1
  <2>8. QED
    BY <2>1, <2>2, <2>6, <2>7
<1>7. CASE List
  <2>1. /\ UNCHANGED <<command, owed>> /\ stage' \in {"deliver", "lookAhead"}
    BY <1>7 DEF List
  <2>2. ASSUME BatchSize >= Cardinality(Message), NEW m \in owed
        PROVE  (InHand(m)' \/ Reached(m)') /\ (stage' # "deliver" => Reached(m)')
    BY <1>1, <1>7, <2>2, ListedOn
  <2>3. QED
    BY <2>1, <2>2 DEF LeftInv
<1>8. CASE Deliver \/ RecordFailure
  <2>1. /\ UNCHANGED <<command, owed>> /\ stage' \in {"deliver", "lookAhead"}
        /\ stage = "deliver"
    BY <1>8 DEF Deliver, RecordFailure, Carried
  <2>2. ASSUME command.retryDelaySeconds > 0, BatchSize >= Cardinality(Message),
               NEW m \in owed
        PROVE  (InHand(m)' \/ Reached(m)') /\ (stage' # "deliver" => Reached(m)')
    <3>1. m \in Message /\ (InHand(m) \/ Reached(m))
      BY <1>1, <2>1, <2>2 DEF LeftInv
    <3>2. QED
      BY <1>1, <1>8, <2>2, <3>1, CarriedOn
  <2>3. QED
    BY <2>1, <2>2 DEF LeftInv
<1>9. CASE UNCHANGED vars \/ \E m \in Message : Save(m)
  <2>1. UNCHANGED <<published, deadLettered, nextAttemptAt, now, todo, msg, stage, owed, command>>
    BY <1>9 DEF vars, Save, Outbox!Save, times, pollVars, dispatchVars
  <2>2. QED
    BY <2>1 DEF LeftInv, InHand, Reached, Outbox!Settled, LastCycleAt
<1>10. QED
  BY <1>3, <1>4, <1>5, <1>6, <1>7, <1>8, <1>9 DEF Next, PollStep

\* For any commands with a retry delay, and batches that take all there is: a poll
\* that resolves has settled what was due within its horizon, or it is postponed
\* beyond the last cycle, although the poll may have stopped before that cycle.
THEOREM NothingLeftWithinHorizonHolds == Spec => []NothingLeftWithinHorizon
<1>1. Init => LeftInv
  BY DEF Init, LeftInv
<1>2. LeftInv => NothingLeftWithinHorizon
  BY DEF LeftInv, NothingLeftWithinHorizon
<1>3. QED
  BY <1>1, <1>2, NextLeftInv, PollInvariant, PTL DEF Spec

-----------------------------------------------------------------------------
(* The worker's queue, and the poll it runs                                *)

\* Types, what a run of the worker has in hand, and: a poll runs only while the
\* worker waits for it, and one that was given no date rejects at once.
WorkerInv ==
    /\ pendingTriggers \in Seq(Trigger)
    /\ idOf \in [Trigger -> Nat]
    /\ inFlight \subseteq Nat \X Trigger /\ IsFiniteSet(inFlight)
    /\ job \in [{worker} -> Trigger \cup {NoTrigger}]
    /\ workerPc \in [{worker} -> {"idle", "poll", "acknowledge", "release"}]
    /\ workerPc[worker] = "idle" <=> job[worker] = NoTrigger
    /\ processed \subseteq Trigger
    /\ failures \in Nat
    /\ stage # "off" => workerPc[worker] = "poll"
    /\ stage \notin {"off", "rejected"} => job[worker] \notin Malformed
    /\ begun \subseteq Trigger
    /\ dueThen \in [Trigger -> SUBSET saved]

\* Every poll is commanded as MergePollCommand says, so the poller's own invariant
\* holds under the worker.
LEMMA WorkerPolls ==
  ASSUME WorkerInv, [WorkerNext]_allVars PROVE [Next]_vars
<1>1. CASE RunPoll
  <2>1. job[worker] \in Trigger
    BY <1>1 DEF RunPoll, WorkerInv
  <2>2. QED
    BY <1>1, <2>1, MergeAssumption DEF RunPoll, Next
<1>2. CASE Reserve \/ Acknowledge \/ Release \/ \E t \in Trigger : Enqueue(t)
  BY <1>2 DEF Reserve, Acknowledge, Release, Enqueue
<1>3. CASE Polling \/ PollEnds
  BY <1>3 DEF Polling, PollEnds, Next
<1>4. CASE \E m \in Message : OrderSaves(m)
  BY <1>4 DEF OrderSaves, Next
<1>5. CASE UNCHANGED allVars
  BY <1>5 DEF allVars
<1>6. QED
  BY <1>1, <1>2, <1>3, <1>4, <1>5 DEF WorkerNext, RunOnce

LEMMA InitWorkerInv == WorkerInit => WorkerInv
BY FS_EmptySet DEF WorkerInit, Init, Queue!Init, WorkerInv

\* The consumer's calls, whatever they do to the queue, keep its types.
LEMMA QueueKeepsTypes ==
  ASSUME WorkerInv,
         \/ \E t \in Trigger : Queue!Enqueue(t)
         \/ Queue!Reserve(worker) \/ Queue!Acknowledge(worker) \/ Queue!Release(worker),
         UNCHANGED <<vars, history>>
  PROVE  WorkerInv'
<1>1. ASSUME NEW t \in Trigger, Queue!Enqueue(t) PROVE WorkerInv'
  <2>1. Queue!NewId(t) \in Nat
    <3>1. Queue!Cardinality(inFlight) = Cardinality(inFlight)
      BY DEF Queue!Cardinality, Cardinality
    <3>2. Cardinality(inFlight) \in Nat /\ Len(pendingTriggers) \in Nat
      BY FS_CardinalityType DEF WorkerInv
    <3>3. QED
      BY <3>1, <3>2, TriggerAssumption DEF Queue!NewId
  <2>2. Append(pendingTriggers, t) \in Seq(Trigger)
    BY DEF WorkerInv
  <2>3. QED
    BY <1>1, <2>1, <2>2 DEF Queue!Enqueue, WorkerInv, history, vars, dispatchVars, pollVars
<1>2. CASE Queue!Reserve(worker)
  <2>1. Head(pendingTriggers) \in Trigger /\ Tail(pendingTriggers) \in Seq(Trigger)
    BY <1>2 DEF Queue!Reserve, WorkerInv
  <2>2. idOf[Head(pendingTriggers)] \in Nat
    BY <2>1 DEF WorkerInv
  <2>3. inFlight' \subseteq Nat \X Trigger /\ IsFiniteSet(inFlight')
    <3>1. Queue!Without(idOf[Head(pendingTriggers)]) \subseteq inFlight
      BY DEF Queue!Without
    <3>2. IsFiniteSet(Queue!Without(idOf[Head(pendingTriggers)]))
      BY <3>1, FS_Subset DEF WorkerInv
    <3>3. inFlight' = Queue!Without(idOf[Head(pendingTriggers)])
                        \cup {<<idOf[Head(pendingTriggers)], Head(pendingTriggers)>>}
      BY <1>2 DEF Queue!Reserve
    <3>4. IsFiniteSet(inFlight')
      BY <3>2, <3>3, FS_AddElement
    <3>5. QED
      BY <2>1, <2>2, <3>1, <3>3, <3>4 DEF WorkerInv
  <2>4. /\ job' \in [{worker} -> Trigger \cup {NoTrigger}] /\ job'[worker] # NoTrigger
        /\ workerPc'[worker] = "poll"
        /\ workerPc' \in [{worker} -> {"idle", "poll", "acknowledge", "release"}]
    BY <1>2, <2>1, TriggerAssumption DEF Queue!Reserve, WorkerInv
  <2>5. stage = "off" /\ stage' = "off"
    BY <1>2 DEF Queue!Reserve, WorkerInv, vars, pollVars
  <2>6. /\ pendingTriggers' \in Seq(Trigger) /\ UNCHANGED <<idOf, processed, failures>>
        /\ UNCHANGED <<saved, begun, dueThen>>
    BY <1>2, <2>1 DEF Queue!Reserve, history, vars, dispatchVars
  <2>7. QED
    BY <2>3, <2>4, <2>5, <2>6 DEF WorkerInv
<1>3. CASE Queue!Acknowledge(worker) \/ Queue!Release(worker)
  <2>1. inFlight' \subseteq inFlight /\ job[worker] \in Trigger
    BY <1>3 DEF Queue!Acknowledge, Queue!Release, Queue!Without, Queue!queue, WorkerInv
  <2>2. IsFiniteSet(inFlight')
    BY <2>1, FS_Subset DEF WorkerInv
  <2>3. pendingTriggers' \in Seq(Trigger)
    <3>1. pendingTriggers' = pendingTriggers
            \/ \E t \in Trigger : pendingTriggers' = Append(pendingTriggers, t)
      BY <1>3 DEF Queue!Acknowledge, Queue!Release, Queue!queue
    <3>2. pendingTriggers \in Seq(Trigger)
      BY DEF WorkerInv
    <3>3. \A t \in Trigger : Append(pendingTriggers, t) \in Seq(Trigger)
      BY <3>2
    <3>4. QED
      BY <3>1, <3>2, <3>3
  <2>4. /\ job' = [job EXCEPT ![worker] = NoTrigger]
        /\ workerPc' = [workerPc EXCEPT ![worker] = "idle"]
        /\ processed' \subseteq processed \cup {job[worker]}
        /\ UNCHANGED <<idOf, failures>>
    BY <1>3 DEF Queue!Acknowledge, Queue!Release, Queue!Finish
  <2>5. stage = "off" /\ stage' = "off"
    BY <1>3 DEF Queue!Acknowledge, Queue!Release, WorkerInv, vars, pollVars
  <2>6. QED
    BY <2>1, <2>2, <2>3, <2>4, <2>5 DEF WorkerInv, history, vars, dispatchVars
<1>4. QED
  BY <1>1, <1>2, <1>3

LEMMA NextWorkerInv == PollInv /\ WorkerInv /\ [WorkerNext]_allVars => WorkerInv'
<1> SUFFICES ASSUME PollInv, WorkerInv, [WorkerNext]_allVars PROVE WorkerInv'
  OBVIOUS
<1>1. CASE Reserve \/ Acknowledge \/ Release \/ \E t \in Trigger : Enqueue(t)
  BY <1>1, QueueKeepsTypes DEF Reserve, Acknowledge, Release, Enqueue
<1>2. CASE RunPoll
  <2>1. /\ job[worker] \in Trigger /\ workerPc[worker] = "poll"
        /\ UNCHANGED <<queueVars, saved>>
        /\ StartPoll(MergePollCommand(job[worker]))
    BY <1>2 DEF RunPoll, WorkerInv, StartPoll, dispatchVars
  <2>2. stage' \notin {"off", "rejected"} => job[worker] \notin Malformed
    BY <2>1 DEF StartPoll, Malformed
  <2>3. begun' \subseteq Trigger
    BY <1>2, <2>1 DEF RunPoll, WorkerInv
  <2>4. dueThen' \in [Trigger -> SUBSET saved]
    BY <1>2, <2>1 DEF RunPoll, WorkerInv
  <2>5. QED
    BY <2>1, <2>2, <2>3, <2>4 DEF WorkerInv, queueVars
<1>3. CASE Polling
  <2>1. PollStep /\ UNCHANGED <<queueVars, history>>
    BY <1>3 DEF Polling
  <2>2. stage \notin {"off", "rejected"} /\ UNCHANGED saved
    BY <2>1 DEF PollStep, BeginCycle, List, Deliver, RecordFailure, DispatchRejects, QueryRejects,
       LookAhead, Outbox!ListPending, Outbox!Publish, Outbox!RecordFailure, Outbox!Acknowledge,
       Outbox!RecordAckFailure, Outbox!NotifyAll, Outbox!SubscriberThrows, Outbox!Abort,
       Outbox!MarkAsFailed, Outbox!columns, dispatchVars
  <2>3. QED
    BY <2>1, <2>2 DEF WorkerInv, queueVars, history
<1>4. CASE PollEnds
  <2>1. /\ stage' = "off" /\ UNCHANGED saved /\ workerPc[worker] = "poll"
        /\ UNCHANGED <<pendingTriggers, idOf, inFlight, job, processed, history>>
        /\ failures' \in Nat
    BY <1>4 DEF PollEnds, EndPoll, dispatchVars, WorkerInv
  <2>2. /\ workerPc' \in [{worker} -> {"idle", "poll", "acknowledge", "release"}]
        /\ workerPc'[worker] # "idle"
    BY <1>4 DEF PollEnds, WorkerInv
  <2>3. QED
    BY <2>1, <2>2 DEF WorkerInv, history
<1>5. ASSUME NEW m \in Message, OrderSaves(m) PROVE WorkerInv'
  BY <1>5 DEF OrderSaves, Save, Outbox!Save, WorkerInv, queueVars, history, pollVars
<1>6. CASE UNCHANGED allVars
  BY <1>6 DEF allVars, WorkerInv, vars, dispatchVars, pollVars, queueVars, history
<1>7. QED
  BY <1>1, <1>2, <1>3, <1>4, <1>5, <1>6 DEF WorkerNext, RunOnce

LEMMA WorkerInvariant == WorkerSpec => [](PollInv /\ WorkerInv)
<1>1. WorkerInit => PollInv /\ WorkerInv
  BY InitPollInv, InitWorkerInv DEF WorkerInit
<1>2. PollInv /\ WorkerInv /\ [WorkerNext]_allVars => (PollInv /\ WorkerInv)'
  BY NextPollInv, NextWorkerInv, WorkerPolls
<1>3. QED
  BY <1>1, <1>2, PTL DEF WorkerSpec

-----------------------------------------------------------------------------
(* Polls that fail are bounded                                             *)

\* Messages published and out of the poller's hands.
LetGo == published \ {msg[poller]}

Failing == IF stage = "rejected" /\ job[worker] \notin Malformed THEN 1 ELSE 0

\* A poll that was well commanded rejects when a subscriber throws at a message just
\* published, which no later poll offers it again, or when a call of the outbox does.
FailuresCounted == failures + Failing <= aborts + Cardinality(LetGo)

LEMMA PartSize ==
  ASSUME NEW S \in SUBSET Message
  PROVE  IsFiniteSet(S) /\ Cardinality(S) \in Nat
BY MessageAssumption, FS_Subset, FS_CardinalityType

\* Messages let go stay so, and one that the subscriber throws at is let go.
LEMMA LetGoGrows ==
  ASSUME PollInv, OutboxStep
  PROVE  /\ LetGo \subseteq LetGo'
         /\ Outbox!SubscriberThrows(poller) => msg[poller] \in LetGo' \ LetGo
<1>1. Outbox!TypeOK /\ HandsInv
  BY DEF PollInv, TypeOK
<1> USE <1>1, MessageAssumption
    DEF Outbox!TypeOK, HandsInv, Holding, LetGo, Outbox!Settled
<1>2. CASE Outbox!Publish(poller)
  <2>1. PICK m \in todo[poller] : Outbox!PublishTo(poller, m)
    BY <1>2 DEF Outbox!Publish
  <2>2. msg'[poller] = m /\ published' = published /\ m \notin published /\ pc[poller] = "publish"
    BY <1>2, <2>1 DEF Outbox!Publish, Outbox!PublishTo, Outbox!columns
  <2>3. QED
    BY <2>2 DEF Outbox!SubscriberThrows
<1>3. CASE Outbox!ListPending(poller)
  BY <1>3 DEF Outbox!ListPending, Outbox!columns, Outbox!SubscriberThrows
<1>4. CASE Outbox!Acknowledge(poller)
  <2>1. /\ published \subseteq published' /\ msg' = msg /\ pc[poller] = "acknowledge"
    BY <1>4 DEF Outbox!Acknowledge, Outbox!MarkAsPublished
  <2>2. QED
    BY <2>1 DEF Outbox!SubscriberThrows
<1>5. CASE Outbox!RecordFailure(poller) \/ Outbox!RecordAckFailure(poller) \/ Outbox!NotifyAll(poller)
  <2>1. /\ UNCHANGED published /\ msg'[poller] = NoMessage
        /\ notified' = notified \/ notified'[msg[poller]] = EventCount
    BY <1>5 DEF Outbox!RecordFailure, Outbox!RecordAckFailure, Outbox!NotifyAll,
       Outbox!MarkAsFailed, Outbox!NextMessage, Outbox!columns
  <2>2. msg[poller] \in published \/ ~Outbox!SubscriberThrows(poller)
    BY DEF Outbox!SubscriberThrows
  <2>3. QED
    BY <2>1, <2>2
<1>6. CASE Outbox!SubscriberThrows(poller) \/ Outbox!Abort(poller)
  <2>1. UNCHANGED published /\ msg'[poller] = NoMessage
    BY <1>6 DEF Outbox!SubscriberThrows, Outbox!Abort, Outbox!Quit, Outbox!columns
  <2>2. Outbox!SubscriberThrows(poller) => msg[poller] \in published
    BY DEF Outbox!SubscriberThrows
  <2>3. QED
    BY <2>1, <2>2
<1>7. QED
  BY <1>2, <1>3, <1>4, <1>5, <1>6 DEF OutboxStep

\* What is let go counts at least as much after a step of the dispatch, and more
\* after a subscriber threw.
LEMMA LetGoCount ==
  ASSUME PollInv, PollInv', OutboxStep
  PROVE  /\ Cardinality(LetGo) <= Cardinality(LetGo')
         /\ Outbox!SubscriberThrows(poller) => Cardinality(LetGo) + 1 <= Cardinality(LetGo')
<1>1. /\ IsFiniteSet(LetGo) /\ Cardinality(LetGo) \in Nat
      /\ IsFiniteSet(LetGo') /\ Cardinality(LetGo') \in Nat
  <2>1. LetGo \subseteq Message /\ LetGo' \subseteq Message
    BY DEF LetGo, PollInv, TypeOK, Outbox!TypeOK
  <2>2. QED
    BY <2>1, PartSize
<1>2. Cardinality(LetGo) <= Cardinality(LetGo')
  BY <1>1, LetGoGrows, FS_Subset
<1>3. ASSUME Outbox!SubscriberThrows(poller)
      PROVE  Cardinality(LetGo) + 1 <= Cardinality(LetGo')
  <2>1. LetGo \subseteq LetGo' /\ LetGo # LetGo'
    BY <1>3, LetGoGrows
  <2>2. Cardinality(LetGo) # Cardinality(LetGo')
    BY <1>1, <2>1, FS_Subset
  <2>3. QED
    BY <1>1, <1>2, <2>2
<1>4. QED
  BY <1>2, <1>3

LEMMA NextFailuresCounted ==
  PollInv /\ WorkerInv /\ FailuresCounted /\ [WorkerNext]_allVars => FailuresCounted'
<1> SUFFICES ASSUME PollInv, WorkerInv, FailuresCounted, [WorkerNext]_allVars
             PROVE  FailuresCounted'
  OBVIOUS
<1>1. PollInv'
  BY NextPollInv, WorkerPolls
<1>2. /\ Cardinality(LetGo) \in Nat /\ Cardinality(LetGo') \in Nat
      /\ failures \in Nat /\ Failing \in {0, 1} /\ Failing' \in {0, 1} /\ aborts \in Nat
  <2>1. LetGo \subseteq Message /\ LetGo' \subseteq Message
    BY <1>1 DEF LetGo, PollInv, TypeOK, Outbox!TypeOK
  <2>2. Cardinality(LetGo) \in Nat /\ Cardinality(LetGo') \in Nat
    BY <2>1, PartSize
  <2>3. QED
    BY <2>2, BoundAssumption DEF WorkerInv, Failing, PollInv, TypeOK, Outbox!TypeOK
<1>3. ASSUME UNCHANGED <<published, msg, aborts, failures>>, Failing' = 0 \/ Failing' = Failing
      PROVE  FailuresCounted'
  <2>1. LetGo' = LetGo
    BY <1>3 DEF LetGo
  <2>2. QED
    BY <1>2, <1>3, <2>1 DEF FailuresCounted
<1>4. CASE Reserve \/ Acknowledge \/ Release \/ \E t \in Trigger : Enqueue(t)
  <2>1. UNCHANGED vars /\ UNCHANGED failures /\ (stage = "off" \/ UNCHANGED job)
    BY <1>4 DEF Reserve, Acknowledge, Release, Enqueue, Queue!Reserve, Queue!Acknowledge,
       Queue!Release, Queue!Enqueue, WorkerInv
  <2>2. QED
    BY <1>3, <2>1 DEF vars, dispatchVars, pollVars, Failing
<1>5. CASE RunPoll
  <2>1. /\ UNCHANGED <<queueVars, dispatchVars>>
        /\ stage' = "rejected" => job[worker] \in Malformed
    BY <1>5 DEF RunPoll, StartPoll, Malformed, WorkerInv
  <2>2. QED
    BY <1>3, <2>1 DEF queueVars, dispatchVars, Failing
<1>6. CASE Polling
  <2>1. PollStep /\ UNCHANGED <<queueVars, history>>
    BY <1>6 DEF Polling
  <2>2. CASE BeginCycle \/ LookAhead
    <3>1. UNCHANGED dispatchVars /\ stage' # "rejected"
      BY <2>2 DEF BeginCycle, LookAhead
    <3>2. QED
      BY <1>3, <2>1, <3>1 DEF dispatchVars, queueVars, Failing
  <2>3. CASE QueryRejects
    <3>1. /\ UNCHANGED <<published, msg>> /\ aborts' = aborts + 1 /\ stage # "rejected"
          /\ LetGo' = LetGo
      BY <2>3 DEF QueryRejects, LetGo
    <3>2. failures' = failures /\ Failing = 0
      BY <2>1, <3>1 DEF queueVars, Failing
    <3>3. QED
      BY <1>2, <3>1, <3>2 DEF FailuresCounted
  <2>4. CASE List \/ Deliver \/ RecordFailure
    <3>1. /\ OutboxStep \/ UNCHANGED dispatchVars
          /\ stage' # "rejected" /\ UNCHANGED aborts
      BY <2>4 DEF List, Deliver, RecordFailure, Carried, OutboxStep, Outbox!ListPending,
         Outbox!Publish, Outbox!RecordFailure, Outbox!Acknowledge, Outbox!RecordAckFailure,
         Outbox!NotifyAll, dispatchVars
    <3>2. Cardinality(LetGo) <= Cardinality(LetGo')
      <4>1. CASE OutboxStep
        BY <1>1, <4>1, LetGoCount
      <4>2. CASE UNCHANGED dispatchVars
        <5>1. LetGo' = LetGo
          BY <4>2 DEF dispatchVars, LetGo
        <5>2. QED
          BY <1>2, <5>1
      <4>3. QED
        BY <3>1, <4>1, <4>2
    <3>3. failures' = failures /\ Failing' = 0
      BY <2>1, <3>1 DEF queueVars, Failing
    <3>4. QED
      BY <1>2, <3>1, <3>2, <3>3 DEF FailuresCounted
  <2>5. CASE DispatchRejects
    <3>1. /\ stage = "deliver" /\ OutboxStep
          /\ \/ Outbox!SubscriberThrows(poller) /\ aborts' = aborts
             \/ aborts' = aborts + 1
      BY <2>5 DEF DispatchRejects, OutboxStep, Outbox!SubscriberThrows, Outbox!Abort
    <3>2. failures' = failures /\ Failing = 0
      BY <2>1, <3>1 DEF queueVars, Failing
    <3>3. /\ Cardinality(LetGo) <= Cardinality(LetGo')
          /\ Outbox!SubscriberThrows(poller) => Cardinality(LetGo) + 1 <= Cardinality(LetGo')
      BY <1>1, <3>1, LetGoCount
    <3>4. QED
      BY <1>2, <3>1, <3>2, <3>3 DEF FailuresCounted
  <2>6. QED
    BY <2>1, <2>2, <2>3, <2>4, <2>5 DEF PollStep
<1>7. CASE PollEnds
  <2>1. /\ UNCHANGED <<published, msg, aborts, job>> /\ stage' = "off"
        /\ failures' = failures + Failing
    BY <1>2, <1>7 DEF PollEnds, EndPoll, dispatchVars, Failing
  <2>2. LetGo' = LetGo /\ Failing' = 0
    BY <2>1 DEF LetGo, Failing
  <2>3. QED
    BY <1>2, <2>1, <2>2 DEF FailuresCounted
<1>8. ASSUME NEW m \in Message, OrderSaves(m) PROVE FailuresCounted'
  BY <1>3, <1>8 DEF OrderSaves, Save, Outbox!Save, queueVars, pollVars, Failing
<1>9. CASE UNCHANGED allVars
  BY <1>3, <1>9 DEF allVars, vars, dispatchVars, pollVars, queueVars, Failing
<1>10. QED
  BY <1>4, <1>5, <1>6, <1>7, <1>8, <1>9 DEF WorkerNext, RunOnce

LEMMA FailuresBounded ==
  ASSUME PollInv, WorkerInv, FailuresCounted
  PROVE  failures + Failing <= Cardinality(Message) + MaxAborts
<1>1. /\ Cardinality(LetGo) \in Nat /\ Cardinality(Message) \in Nat
      /\ Cardinality(LetGo) <= Cardinality(Message)
  <2>1. LetGo \subseteq Message
    BY DEF LetGo, PollInv, TypeOK, Outbox!TypeOK
  <2>2. QED
    BY <2>1, MessageAssumption, PartSize, FS_Subset
<1>2. /\ failures \in Nat /\ Failing \in {0, 1} /\ aborts \in 0..MaxAborts /\ MaxAborts \in Nat
  BY BoundAssumption DEF WorkerInv, Failing, PollInv, TypeOK, Outbox!TypeOK
<1>3. QED
  BY <1>1, <1>2 DEF FailuresCounted

LEMMA CountInvariant == WorkerSpec => []FailuresCounted
<1>1. WorkerInit => FailuresCounted
  <2> SUFFICES ASSUME WorkerInit PROVE FailuresCounted
    OBVIOUS
  <2>1. failures = 0 /\ Failing = 0 /\ aborts = 0 /\ LetGo = {}
    BY DEF WorkerInit, Init, Outbox!Init, Queue!Init, Failing, LetGo
  <2>2. QED
    BY <2>1, FS_EmptySet DEF FailuresCounted
<1>2. QED
  BY <1>1, NextFailuresCounted, WorkerInvariant, PTL DEF WorkerSpec

\* The worker, its queue, the poll and the outbox stay well typed; a poll runs only
\* for the trigger in hand, and no more polls of well-formed triggers reject than
\* there are messages whose subscriber may throw and calls of the outbox that may.
THEOREM WorkerTypeCorrect == WorkerSpec => []WorkerTypeOK
<1>1. ASSUME PollInv, WorkerInv, FailuresCounted PROVE WorkerTypeOK
  <2>1. failures \in 0..(Cardinality(Message) + MaxAborts)
    <3>1. Cardinality(Message) + MaxAborts \in Nat
      BY MessageAssumption, BoundAssumption, FS_CardinalityType
    <3>2. failures \in Nat /\ Failing \in {0, 1}
      BY <1>1 DEF WorkerInv, Failing
    <3>3. QED
      BY <1>1, <3>1, <3>2, FailuresBounded
  <2>2. Queue!TypeOK
    BY <1>1, <2>1 DEF WorkerInv, Queue!TypeOK
  <2>3. QED
    BY <1>1, <2>2 DEF WorkerInv, PollInv, WorkerTypeOK
<1>2. QED
  BY <1>1, WorkerInvariant, CountInvariant, PTL

\* Seen by the queue, the poll is one step of DeliveryWorker: the worker with its
\* polls does nothing that a worker of DeliveryWorker could not do, and its polls
\* reject no oftener than that module allows.
THEOREM QueueIsKept == WorkerSpec => Queue!Spec
<1>1. WorkerInit => Queue!Init
  BY DEF WorkerInit
<1>2. ASSUME PollInv, WorkerInv, FailuresCounted, [WorkerNext]_allVars
      PROVE  [Queue!Next]_(Queue!vars)
  <2>1. CASE Reserve \/ Acknowledge \/ Release \/ \E t \in Trigger : Enqueue(t)
    BY <2>1 DEF Reserve, Acknowledge, Release, Enqueue, Queue!Next, Queue!WorkerStep
  <2>2. CASE UNCHANGED queueVars
    BY <2>2 DEF queueVars, Queue!vars, Queue!queue
  <2>3. CASE PollEnds
    <3>1. /\ workerPc[worker] = "poll" /\ stage \in {"resolved", "rejected"}
          /\ workerPc' = [workerPc EXCEPT ![worker] =
                            IF stage = "resolved" THEN "acknowledge" ELSE "release"]
          /\ failures' = IF stage = "rejected" /\ job[worker] \notin Malformed
                         THEN failures + 1 ELSE failures
          /\ UNCHANGED <<pendingTriggers, idOf, inFlight, job, processed>>
      BY <1>2, <2>3 DEF PollEnds, EndPoll, WorkerInv
    <3>2. stage = "resolved" => job[worker] \notin Malformed
      BY <1>2 DEF WorkerInv
    <3>3. stage = "rejected" /\ job[worker] \notin Malformed
            => failures < Cardinality(Message) + MaxAborts
      <4>1. /\ failures \in Nat /\ Cardinality(Message) + MaxAborts \in Nat
        BY <1>2, MessageAssumption, BoundAssumption, FS_CardinalityType DEF WorkerInv
      <4>2. QED
        BY <1>2, <4>1, FailuresBounded DEF Failing
    <3>4. Queue!Poll(worker)
      BY <3>1, <3>2, <3>3 DEF Queue!Poll, Queue!queue
    <3>5. QED
      BY <3>4 DEF Queue!Next, Queue!WorkerStep
  <2>4. CASE RunPoll \/ Polling \/ (\E m \in Message : OrderSaves(m)) \/ UNCHANGED allVars
    BY <2>2, <2>4 DEF RunPoll, Polling, OrderSaves, allVars
  <2>5. QED
    BY <1>2, <2>1, <2>3, <2>4 DEF WorkerNext, RunOnce
<1>3. QED
  BY <1>1, <1>2, WorkerInvariant, CountInvariant, PTL DEF WorkerSpec, Queue!Spec

-----------------------------------------------------------------------------
(* What is processed is settled                                            *)

\* The hypotheses of SettledWhenProcessed.
Uniform ==
    /\ Adequate(DefaultCommand)
    /\ \A t \in Trigger \ Malformed : MergePollCommand(t) = DefaultCommand

\* Cycles that a retry delay takes.
Span ==
    CHOOSE k \in 1..DefaultCommand.cycles :
        /\ k * DefaultCommand.stepSeconds >= DefaultCommand.retryDelaySeconds
        /\ (MaxAttempts - 1) * k < DefaultCommand.cycles

\* What some trigger found due.
Tracked == UNION {dueThen[t] : t \in Trigger}

\* The cycle by which m, with the failures it has had, comes up again.
CycleOf(m) == retryCount[m] * Span

\* While a poll runs, m has not been passed over: its cycle is still to be
\* dispatched, or is being dispatched and m is in hand.
NotPassed(m) ==
    /\ stage \in {"next", "lookAhead"} => cycle <= CycleOf(m)
    /\ stage = "list" => cycle - 1 <= CycleOf(m)
    /\ stage = "deliver" => cycle - 1 <= CycleOf(m) /\ (InHand(m) \/ cycle <= CycleOf(m))

OnSchedule(m) ==
    /\ DefaultCommand.startAt \in Nat
    /\ nextAttemptAt[m] <= DefaultCommand.startAt + CycleOf(m) * DefaultCommand.stepSeconds
    /\ NotPassed(m)

\* A message that was found due is back in time for each retry, whatever polls were
\* cut short; so a poll that resolves has settled all of them.
ScheduleInv ==
    /\ liveReads
    /\ DefaultCommand \in Command
    /\ \A m \in Message : m \in Outbox!Settled \/ retryCount[m] = 0 \/ retryCount[m] < MaxAttempts
    /\ Uniform =>
        /\ stage \in {"next", "list", "deliver", "lookAhead"} => command = DefaultCommand
        /\ \A m \in Tracked : m \in Outbox!Settled \/ OnSchedule(m)
        /\ stage = "resolved" => Tracked \subseteq Outbox!Settled

\* A trigger on its way to be processed had its poll begun and resolved.
ProcessedInv ==
    /\ processed \subseteq begun
    /\ stage # "off" \/ workerPc[worker] = "acknowledge" => job[worker] \in begun
    /\ Uniform =>
        /\ workerPc[worker] = "acknowledge" => dueThen[job[worker]] \subseteq Outbox!Settled
        /\ \A t \in processed : dueThen[t] \subseteq Outbox!Settled

LEMMA Monotone ==
  ASSUME NEW a \in Nat, NEW b \in Nat, NEW c \in Nat, a <= b PROVE a * c <= b * c
<1>1. PICK d \in Nat : b = a + d
  <2>1. b - a \in Nat /\ b = a + (b - a)
    OBVIOUS
  <2>2. QED
    BY <2>1
<1>2. a * c \in Nat /\ d * c \in Nat
  BY Products
<1>3. b * c = a * c + d * c
  BY <1>1
<1>4. QED
  BY <1>2, <1>3

\* A time after that of cycle c - 1, and not after that of cycle n.
LEMMA CycleBefore ==
  ASSUME NEW s \in Nat, NEW step \in Nat, NEW c \in Nat \ {0}, NEW n \in Nat, NEW x \in Nat,
         x > s + (c - 1) * step, x <= s + n * step
  PROVE  c <= n
<1>1. SUFFICES ASSUME n <= c - 1 PROVE FALSE
  OBVIOUS
<1>2. n * step <= (c - 1) * step
  BY <1>1, Monotone
<1>3. n * step \in Nat /\ (c - 1) * step \in Nat
  BY Products
<1>4. QED
  BY <1>2, <1>3

\* One more failure, in cycle c - 1, brings a message back k cycles after the cycle
\* that it was up for.
LEMMA CycleAfterFailure ==
  ASSUME NEW s \in Nat, NEW step \in Nat, NEW c \in Nat \ {0}, NEW r \in Nat,
         NEW k \in Nat \ {0}, NEW delay \in Nat, k * step >= delay, c - 1 <= r * k
  PROVE  /\ s + (c - 1) * step + delay <= s + ((r + 1) * k) * step
         /\ c <= (r + 1) * k
<1>1. (r + 1) * k = r * k + k /\ r * k \in Nat
  BY Products
<1>2. ((r + 1) * k) * step = (r * k) * step + k * step
  BY <1>1
<1>3. (c - 1) * step <= (r * k) * step
  BY <1>1, Monotone
<1>4. (c - 1) * step \in Nat /\ (r * k) * step \in Nat /\ k * step \in Nat
  BY <1>1, Products
<1>5. QED
  BY <1>1, <1>2, <1>3, <1>4

LEMMA SpanFacts ==
  ASSUME Uniform, DefaultCommand \in Command
  PROVE  /\ Span \in Nat \ {0} /\ Span <= DefaultCommand.cycles
         /\ Span * DefaultCommand.stepSeconds >= DefaultCommand.retryDelaySeconds
         /\ (MaxAttempts - 1) * Span < DefaultCommand.cycles
<1>1. \E k \in 1..DefaultCommand.cycles :
        /\ k * DefaultCommand.stepSeconds >= DefaultCommand.retryDelaySeconds
        /\ (MaxAttempts - 1) * k < DefaultCommand.cycles
  BY DEF Uniform, Adequate
<1>2. /\ Span \in 1..DefaultCommand.cycles
      /\ Span * DefaultCommand.stepSeconds >= DefaultCommand.retryDelaySeconds
      /\ (MaxAttempts - 1) * Span < DefaultCommand.cycles
  BY <1>1 DEF Span
<1>3. DefaultCommand.cycles \in Nat
  BY CommandFields
<1>4. QED
  BY <1>2, <1>3

\* With attempts left, the cycle that a message is up for is one that the poll has.
LEMMA CycleInPoll ==
  ASSUME PollInv, Uniform, DefaultCommand \in Command, NEW m \in Message,
         retryCount[m] = 0 \/ retryCount[m] < MaxAttempts
  PROVE  CycleOf(m) \in Nat /\ CycleOf(m) < DefaultCommand.cycles
<1>1. retryCount[m] \in Nat /\ MaxAttempts \in Nat /\ DefaultCommand.cycles \in Nat
  BY BoundAssumption, CommandFields DEF PollInv, TypeOK, Outbox!TypeOK
<1>2. CycleOf(m) \in Nat
  BY <1>1, SpanFacts, Products DEF CycleOf
<1>3. CASE retryCount[m] = 0
  BY <1>1, <1>3, SpanFacts DEF CycleOf
<1>4. CASE retryCount[m] < MaxAttempts
  <2>1. MaxAttempts - 1 \in Nat /\ retryCount[m] <= MaxAttempts - 1
    BY <1>1, <1>4
  <2>2. retryCount[m] * Span <= (MaxAttempts - 1) * Span
    BY <1>1, <2>1, SpanFacts, Monotone
  <2>3. (MaxAttempts - 1) * Span \in Nat
    BY <2>1, SpanFacts, Products
  <2>4. QED
    BY <1>1, <1>2, <2>2, <2>3, SpanFacts DEF CycleOf
<1>5. QED
  BY <1>2, <1>3, <1>4

\* Published or given up stays so, in the hands of one poller.
LEMMA SettledGrows ==
  ASSUME PollInv, [Next]_vars PROVE Outbox!Settled \subseteq Outbox!Settled'
<1>1. Outbox!Settled \subseteq Message
  BY DEF PollInv, TypeOK, Outbox!TypeOK, Outbox!Settled
<1>2. CASE Elsewhere
  BY <1>2, ElsewhereOn DEF Outbox!Settled
<1>3. CASE List
  BY <1>3, ListOn DEF List, Outbox!Settled, dispatchVars
<1>4. CASE Deliver
  BY <1>1, <1>4, DeliverOn
<1>5. CASE RecordFailure
  BY <1>1, <1>5, FailureOn
<1>6. CASE DispatchRejects
  BY <1>6, RejectOn DEF Outbox!Settled
<1>7. QED
  BY <1>2, <1>3, <1>4, <1>5, <1>6 DEF Next, PollStep, Elsewhere

\* A step of the poll passes over no message that is on schedule.
LEMMA ScheduleStep ==
  ASSUME PollInv, PollInv', PollStep, Uniform, DefaultCommand \in Command,
         command = DefaultCommand,
         NEW m \in saved, m \notin Outbox!Settled, m \notin Outbox!Settled', OnSchedule(m)
  PROVE  OnSchedule(m)'
<1> DEFINE s    == DefaultCommand.startAt
           step == DefaultCommand.stepSeconds
<1>1. /\ m \in Message /\ retryCount[m] \in Nat /\ nextAttemptAt[m] \in Nat
      /\ cycle \in Nat /\ now \in Nat
  BY DEF PollInv, TypeOK, Outbox!TypeOK
<1>2. s \in Nat /\ step \in Nat /\ DefaultCommand.retryDelaySeconds \in Nat
  BY CommandFields DEF OnSchedule
<1>3. CycleOf(m) \in Nat
  BY <1>1, SpanFacts, Products DEF CycleOf
<1>4. ASSUME UNCHANGED <<retryCount, nextAttemptAt>>, NotPassed(m)' PROVE OnSchedule(m)'
  BY <1>4 DEF OnSchedule, CycleOf
<1>5. stage \in {"list", "deliver", "lookAhead"} => cycle > 0 /\ now = s + (cycle - 1) * step
  BY DEF PollInv, ClockInv, TimeOfCycle
<1>6. CASE BeginCycle
  <2>1. /\ UNCHANGED <<retryCount, nextAttemptAt>>
        /\ stage = "next" /\ stage' = "list" /\ cycle' = cycle + 1
    BY <1>6 DEF BeginCycle, dispatchVars
  <2>2. NotPassed(m)'
    BY <1>1, <1>3, <2>1 DEF OnSchedule, NotPassed, CycleOf
  <2>3. QED
    BY <1>4, <2>1, <2>2
<1>7. CASE List
  <2>1. /\ UNCHANGED <<retryCount, nextAttemptAt, now, cycle>> /\ stage = "list"
        /\ stage' \in {"deliver", "lookAhead"}
    BY <1>7, ListOn DEF List, times, dispatchVars
  <2>2. /\ InHand(m)' \/ Reached(m)'
        /\ stage' # "deliver" => Reached(m)'
    BY <1>7, ListedOn DEF Uniform, Adequate
  <2>3. cycle - 1 <= CycleOf(m) /\ CycleOf(m)' = CycleOf(m)
    BY <2>1 DEF OnSchedule, NotPassed, CycleOf
  <2>4. Reached(m)' => cycle <= CycleOf(m)
    <3>1. SUFFICES ASSUME nextAttemptAt[m] > s + (cycle - 1) * step PROVE cycle <= CycleOf(m)
      BY <1>5, <2>1 DEF Reached
    <3>2. nextAttemptAt[m] <= s + CycleOf(m) * step
      BY DEF OnSchedule
    <3>3. cycle \in Nat \ {0}
      BY <1>1, <1>5, <2>1
    <3>4. QED
      BY <1>1, <1>2, <1>3, <3>1, <3>2, <3>3, CycleBefore
  <2>5. NotPassed(m)'
    BY <2>1, <2>2, <2>3, <2>4 DEF NotPassed
  <2>6. QED
    BY <1>4, <2>1, <2>5
<1>8. CASE Deliver
  <2>1. /\ UNCHANGED <<nextAttemptAt, cycle>> /\ stage = "deliver"
        /\ stage' \in {"deliver", "lookAhead"}
    BY <1>8 DEF Deliver, times, Carried
  <2>2. retryCount'[m] = retryCount[m] /\ (InHand(m)' <=> InHand(m))
    BY <1>1, <1>8, DeliverOn
  <2>3. stage' # "deliver" => ~InHand(m)'
    BY <1>1, NothingInHandAfter
  <2>4. NotPassed(m)' /\ CycleOf(m)' = CycleOf(m)
    BY <2>1, <2>2, <2>3 DEF OnSchedule, NotPassed, CycleOf
  <2>5. QED
    BY <2>1, <2>4 DEF OnSchedule
<1>9. CASE RecordFailure
  <2>1. /\ UNCHANGED <<now, cycle>> /\ stage = "deliver"
        /\ stage' \in {"deliver", "lookAhead"}
    BY <1>9 DEF RecordFailure, Carried
  <2>2. CASE m # msg[poller]
    <3>1. /\ nextAttemptAt'[m] = nextAttemptAt[m] /\ retryCount'[m] = retryCount[m]
          /\ InHand(m)' <=> InHand(m)
      BY <1>1, <1>9, <2>2, FailureOn
    <3>2. stage' # "deliver" => ~InHand(m)'
      BY <1>1, NothingInHandAfter
    <3>3. NotPassed(m)' /\ CycleOf(m)' = CycleOf(m)
      BY <2>1, <3>1, <3>2 DEF OnSchedule, NotPassed, CycleOf
    <3>4. QED
      BY <3>1, <3>3 DEF OnSchedule
  <2>3. CASE m = msg[poller]
    <3>1. /\ ~InHand(m)' /\ retryCount'[m] = retryCount[m] + 1
          /\ nextAttemptAt'[m] = now + DefaultCommand.retryDelaySeconds
      BY <1>1, <1>9, <2>3, FailureOn
    <3>2. cycle \in Nat \ {0} /\ cycle - 1 <= retryCount[m] * Span
      BY <1>1, <1>5, <2>1 DEF OnSchedule, NotPassed, CycleOf
    <3>3. /\ s + (cycle - 1) * step + DefaultCommand.retryDelaySeconds
               <= s + ((retryCount[m] + 1) * Span) * step
          /\ cycle <= (retryCount[m] + 1) * Span
      BY <1>1, <1>2, <3>2, SpanFacts, CycleAfterFailure
    <3>4. CycleOf(m)' = (retryCount[m] + 1) * Span
      BY <3>1 DEF CycleOf
    <3>5. NotPassed(m)'
      <4>1. cycle' <= CycleOf(m)'
        BY <2>1, <3>3, <3>4
      <4>2. (cycle - 1)' <= CycleOf(m)'
        <5>1. CycleOf(m)' \in Nat
          BY <1>1, <3>4, SpanFacts, Products
        <5>2. QED
          BY <1>1, <2>1, <4>1, <5>1
      <4>3. QED
        BY <2>1, <4>1, <4>2 DEF NotPassed
    <3>6. QED
      BY <1>2, <1>5, <2>1, <3>1, <3>3, <3>4, <3>5 DEF OnSchedule
  <2>4. QED
    BY <2>2, <2>3
<1>10. CASE QueryRejects \/ DispatchRejects
  <2>1. UNCHANGED <<retryCount, nextAttemptAt>> /\ stage' = "rejected"
    BY <1>10, RejectOn DEF QueryRejects, times
  <2>2. QED
    BY <1>4, <2>1 DEF NotPassed
<1>11. CASE LookAhead
  <2>1. /\ UNCHANGED <<retryCount, nextAttemptAt, cycle>> /\ stage = "lookAhead"
        /\ stage' \in {"next", "resolved"}
    BY <1>11 DEF LookAhead, dispatchVars, times
  <2>2. NotPassed(m)'
    BY <2>1 DEF OnSchedule, NotPassed, CycleOf
  <2>3. QED
    BY <1>4, <2>1, <2>2
<1>12. QED
  BY <1>6, <1>7, <1>8, <1>9, <1>10, <1>11 DEF PollStep

\* A message on schedule is within the horizon, and its cycle is one that the poll
\* has: the poll does not resolve before it is settled.
LEMMA NotResolvedBefore ==
  ASSUME PollInv, LookAhead, Uniform, DefaultCommand \in Command, command = DefaultCommand,
         NEW m \in saved, m \notin Outbox!Settled, OnSchedule(m),
         retryCount[m] = 0 \/ retryCount[m] < MaxAttempts
  PROVE  stage' # "resolved"
<1> DEFINE s    == DefaultCommand.startAt
           step == DefaultCommand.stepSeconds
           last == DefaultCommand.cycles - 1
<1>1. m \in Message /\ nextAttemptAt[m] \in Nat /\ cycle \in Nat
  BY DEF PollInv, TypeOK, Outbox!TypeOK
<1>2. s \in Nat /\ step \in Nat /\ DefaultCommand.cycles \in Nat
  BY CommandFields DEF OnSchedule
<1>3. CycleOf(m) \in Nat /\ CycleOf(m) < DefaultCommand.cycles
  BY <1>1, CycleInPoll
<1>4. cycle # command.cycles
  <2>1. cycle <= CycleOf(m)
    BY DEF LookAhead, OnSchedule, NotPassed
  <2>2. QED
    BY <1>1, <1>2, <1>3, <2>1
<1>5. nextAttemptAt[m] <= Horizon(command)
  <2>1. last \in Nat /\ CycleOf(m) <= last /\ DefaultCommand.cycles > 0
    BY <1>2, <1>3
  <2>2. CycleOf(m) * step <= last * step
    BY <1>2, <1>3, <2>1, Monotone
  <2>3. CycleOf(m) * step \in Nat /\ last * step \in Nat
    BY <1>2, <1>3, <2>1, Products
  <2>4. Horizon(command) = s + last * step
    BY <2>1 DEF Horizon
  <2>5. nextAttemptAt[m] <= s + CycleOf(m) * step
    BY DEF OnSchedule
  <2>6. HIDE DEF last
  <2>7. QED
    BY <1>1, <1>2, <2>2, <2>3, <2>4, <2>5
<1>6. RemainingWork # {}
  BY <1>1, <1>5 DEF RemainingWork
<1>7. QED
  BY <1>4, <1>6 DEF LookAhead

\* Over live records a failure that leaves no attempt is the last.
LEMMA AttemptsLeft ==
  ASSUME PollInv, [Next]_vars, liveReads, NEW m \in Message, m \notin Outbox!Settled',
         m \in Outbox!Settled \/ retryCount[m] = 0 \/ retryCount[m] < MaxAttempts
  PROVE  retryCount'[m] = 0 \/ retryCount'[m] < MaxAttempts
<1>1. m \notin Outbox!Settled
  BY SettledGrows
<1>2. CASE Elsewhere
  BY <1>1, <1>2, ElsewhereOn
<1>3. CASE List
  BY <1>1, <1>3, ListOn DEF List, dispatchVars
<1>4. CASE Deliver
  BY <1>1, <1>4, DeliverOn
<1>5. CASE DispatchRejects
  BY <1>1, <1>5, RejectOn
<1>6. CASE RecordFailure
  <2>1. CASE m # msg[poller]
    BY <1>1, <1>6, <2>1, FailureOn
  <2>2. CASE m = msg[poller]
    <3>1. retryCount'[m] = retryCount[m] + 1 /\ ~Outbox!GivesUp(poller, m)
      BY <1>6, <2>2, FailureOn
    <3>2. ~(retryCount[m] + 1 >= MaxAttempts)
      BY <3>1 DEF Outbox!GivesUp, Outbox!KnownRetryCount
    <3>3. retryCount[m] \in Nat /\ MaxAttempts \in Nat
      BY BoundAssumption DEF PollInv, TypeOK, Outbox!TypeOK
    <3>4. QED
      BY <3>1, <3>2, <3>3
  <2>3. QED
    BY <2>1, <2>2
<1>7. QED
  BY <1>2, <1>3, <1>4, <1>5, <1>6 DEF Next, PollStep, Elsewhere

\* A poll that begins has all its cycles before it.
LEMMA ScheduleStart ==
  ASSUME PollInv, WorkerInv, ScheduleInv, Uniform, RunPoll
  PROVE  /\ stage' # "resolved"
         /\ stage' \in {"next", "list", "deliver", "lookAhead"} => command' = DefaultCommand
         /\ \A m \in Tracked' : m \in Outbox!Settled' \/ OnSchedule(m)'
<1> DEFINE t == job[worker]
           c == MergePollCommand(t)
<1>1. /\ t \in Trigger /\ StartPoll(c) /\ UNCHANGED <<retryCount, nextAttemptAt>>
      /\ Outbox!Settled' = Outbox!Settled /\ cycle' = 0
  BY DEF RunPoll, WorkerInv, StartPoll, dispatchVars, times, Outbox!Settled
<1>2. /\ DefaultCommand \in Command /\ DefaultCommand.cycles > 0
      /\ \A m \in Message : retryCount[m] \in Nat /\ CycleOf(m) \in Nat
  <2>1. DefaultCommand \in Command /\ \A m \in Message : retryCount[m] \in Nat
    BY DEF ScheduleInv, PollInv, TypeOK, Outbox!TypeOK
  <2>2. QED
    BY <2>1, SpanFacts, CommandFields, Products DEF CycleOf
<1>3. t \in Malformed => stage' = "rejected"
  BY <1>1 DEF StartPoll, Malformed
<1>4. t \notin Malformed => c = DefaultCommand /\ stage' = "next" /\ command' = DefaultCommand
  <2>1. SUFFICES ASSUME t \notin Malformed
                 PROVE  c = DefaultCommand /\ stage' = "next" /\ command' = DefaultCommand
    OBVIOUS
  <2>2. c = DefaultCommand /\ c.startAt # BadTime
    BY <1>1, <2>1 DEF Uniform, Malformed
  <2>3. QED
    BY <1>1, <1>2, <2>2 DEF StartPoll
<1>5. ASSUME NEW m \in Message,
             DefaultCommand.startAt \in Nat,
             nextAttemptAt[m] <= DefaultCommand.startAt + CycleOf(m) * DefaultCommand.stepSeconds
      PROVE  OnSchedule(m)'
  <2>1. stage' \in {"next", "rejected"}
    BY <1>3, <1>4
  <2>2. CycleOf(m)' = CycleOf(m) /\ 0 <= CycleOf(m)
    BY <1>1, <1>2 DEF CycleOf
  <2>3. QED
    BY <1>1, <1>5, <2>1, <2>2 DEF OnSchedule, NotPassed
<1>6. ASSUME NEW m \in Tracked', m \notin Outbox!Settled' PROVE OnSchedule(m)'
  <2>1. PICK u \in Trigger : m \in dueThen'[u]
    BY <1>6 DEF Tracked
  <2>2. dueThen \in [Trigger -> SUBSET saved] /\ saved \subseteq Message
    BY DEF WorkerInv, PollInv, TypeOK, Outbox!TypeOK
  <2>3. CASE m \in dueThen[u]
    <3>1. m \in Tracked /\ m \in Message
      BY <2>2, <2>3 DEF Tracked
    <3>2. OnSchedule(m)
      BY <1>1, <1>6, <3>1 DEF ScheduleInv
    <3>3. QED
      BY <1>5, <3>1, <3>2 DEF OnSchedule
  <2>4. CASE m \notin dueThen[u]
    <3>1. u = t /\ t \notin Malformed /\ m \in saved /\ nextAttemptAt[m] <= c.startAt
      BY <2>1, <2>2, <2>4, <1>1 DEF RunPoll
    <3>2. c = DefaultCommand /\ c.startAt \in Nat
      <4>1. c = DefaultCommand /\ c.startAt # BadTime
        BY <1>1, <1>4, <3>1 DEF Malformed
      <4>2. QED
        BY <1>2, <4>1, CommandFields
    <3>3. /\ m \in Message /\ nextAttemptAt[m] \in Nat
          /\ CycleOf(m) * DefaultCommand.stepSeconds \in Nat
      <4>1. m \in Message /\ nextAttemptAt[m] \in Nat
        BY <2>2, <3>1 DEF PollInv, TypeOK
      <4>2. QED
        BY <1>2, <4>1, CommandFields, Products
    <3>4. QED
      BY <1>5, <3>1, <3>2, <3>3
  <2>5. QED
    BY <2>3, <2>4
<1>7. QED
  BY <1>3, <1>4, <1>6

LEMMA NextScheduleInv ==
  PollInv /\ WorkerInv /\ ScheduleInv /\ [WorkerNext]_allVars => ScheduleInv'
<1> SUFFICES ASSUME PollInv, WorkerInv, ScheduleInv, [WorkerNext]_allVars PROVE ScheduleInv'
  OBVIOUS
<1>1. [Next]_vars /\ PollInv'
  BY NextPollInv, WorkerPolls
<1>2. liveReads'
  <2>1. liveReads' = liveReads
    BY <1>1 DEF Next, PollStep, StartPoll, BeginCycle, List, Deliver, RecordFailure, DispatchRejects,
       QueryRejects, LookAhead, EndPoll, Save, Outbox!ListPending, Outbox!Publish,
       Outbox!RecordFailure, Outbox!Acknowledge, Outbox!RecordAckFailure, Outbox!NotifyAll,
       Outbox!SubscriberThrows, Outbox!Abort, Outbox!Save, Outbox!MarkAsFailed, Outbox!columns,
       vars, dispatchVars
  <2>2. QED
    BY <2>1 DEF ScheduleInv
<1>3. ASSUME NEW m \in Message
      PROVE  m \in Outbox!Settled' \/ retryCount'[m] = 0 \/ retryCount'[m] < MaxAttempts
  BY <1>1, AttemptsLeft DEF ScheduleInv
<1> DEFINE Scheduled ==
             /\ stage \in {"next", "list", "deliver", "lookAhead"} => command = DefaultCommand
             /\ \A m \in Tracked : m \in Outbox!Settled \/ OnSchedule(m)
             /\ stage = "resolved" => Tracked \subseteq Outbox!Settled
<1>4. SUFFICES ASSUME Uniform PROVE Scheduled'
  BY <1>2, <1>3 DEF ScheduleInv
<1>5. Scheduled /\ DefaultCommand \in Command /\ Tracked \subseteq saved /\ saved \subseteq Message
  BY <1>4 DEF ScheduleInv, WorkerInv, Tracked, PollInv, TypeOK, Outbox!TypeOK
<1>6. CASE RunPoll
  BY <1>4, <1>6, ScheduleStart
<1>7. CASE Polling
  <2>1. PollStep /\ Tracked' = Tracked /\ stage \in {"next", "list", "deliver", "lookAhead"}
    BY <1>7 DEF Polling, history, Tracked, PollStep, BeginCycle, List, Deliver, RecordFailure,
                DispatchRejects, QueryRejects, LookAhead
  <2>2. command = DefaultCommand /\ command' = command
    BY <1>5, <2>1 DEF PollStep, BeginCycle, List, Deliver, RecordFailure, DispatchRejects,
                      QueryRejects, LookAhead
  <2>3. ASSUME NEW m \in Tracked', m \notin Outbox!Settled'
        PROVE  OnSchedule(m)' /\ stage' # "resolved"
    <3>1. m \in saved /\ m \in Message /\ m \notin Outbox!Settled /\ OnSchedule(m)
      BY <1>1, <1>5, <2>1, <2>3, SettledGrows
    <3>2. OnSchedule(m)'
      BY <1>1, <1>4, <1>5, <2>1, <2>2, <2>3, <3>1, ScheduleStep
    <3>3. retryCount[m] = 0 \/ retryCount[m] < MaxAttempts
      BY <3>1 DEF ScheduleInv
    <3>4. CASE LookAhead
      BY <1>4, <1>5, <2>2, <3>1, <3>2, <3>3, <3>4, NotResolvedBefore
    <3>5. CASE ~LookAhead
      BY <2>1, <3>2, <3>5 DEF PollStep, BeginCycle, List, Deliver, RecordFailure, Carried,
                              DispatchRejects, QueryRejects
    <3>6. QED
      BY <3>4, <3>5
  <2>4. QED
    BY <2>2, <2>3
<1>8. CASE PollEnds
  <2>1. /\ UNCHANGED <<dispatchVars, times, command, cycle, dueThen>> /\ stage' = "off"
    BY <1>8 DEF PollEnds, EndPoll, history
  <2>2. QED
    BY <1>5, <2>1 DEF dispatchVars, times, Tracked, OnSchedule, NotPassed, CycleOf, Outbox!Settled
<1>9. ASSUME UNCHANGED <<retryCount, published, deadLettered, todo, msg, nextAttemptAt,
                         command, cycle, stage, dueThen>>
      PROVE  Scheduled'
  BY <1>5, <1>9 DEF Tracked, OnSchedule, NotPassed, CycleOf, Outbox!Settled, InHand
<1>10. CASE Reserve \/ Acknowledge \/ Release \/ \E t \in Trigger : Enqueue(t)
  BY <1>9, <1>10 DEF Reserve, Acknowledge, Release, Enqueue, vars, dispatchVars, times, pollVars,
                     history
<1>11. ASSUME NEW m \in Message, OrderSaves(m) PROVE Scheduled'
  BY <1>9, <1>11 DEF OrderSaves, Save, Outbox!Save, times, pollVars, history
<1>12. CASE UNCHANGED allVars
  BY <1>9, <1>12 DEF allVars, vars, dispatchVars, times, pollVars, history
<1>13. QED
  BY <1>6, <1>7, <1>8, <1>10, <1>11, <1>12 DEF WorkerNext, RunOnce

LEMMA NextProcessedInv ==
  /\ PollInv /\ WorkerInv /\ ScheduleInv /\ ProcessedInv /\ [WorkerNext]_allVars
  => ProcessedInv'
<1> SUFFICES ASSUME PollInv, WorkerInv, ScheduleInv, ProcessedInv, [WorkerNext]_allVars
             PROVE  ProcessedInv'
  OBVIOUS
<1>1. Outbox!Settled \subseteq Outbox!Settled'
  BY WorkerPolls, SettledGrows
<1>2. CASE Reserve \/ Release \/ \E t \in Trigger : Enqueue(t)
  <2>1. /\ UNCHANGED <<processed, stage, begun, dueThen, published, deadLettered>>
        /\ \/ UNCHANGED <<workerPc, job>>
           \/ stage = "off" /\ workerPc'[worker] # "acknowledge"
    BY <1>2 DEF Reserve, Release, Enqueue, Queue!Reserve, Queue!Release, Queue!Enqueue,
       Queue!Finish, WorkerInv, vars, dispatchVars, pollVars, history
  <2>2. QED
    BY <2>1 DEF ProcessedInv, Outbox!Settled
<1>3. CASE Acknowledge
  <2>1. /\ UNCHANGED <<stage, begun, dueThen, published, deadLettered>> /\ stage = "off"
        /\ workerPc[worker] = "acknowledge" /\ workerPc'[worker] = "idle"
        /\ processed' = processed \cup {job[worker]}
    BY <1>3 DEF Acknowledge, Queue!Acknowledge, Queue!Finish, WorkerInv,
       vars, dispatchVars, pollVars, history
  <2>2. QED
    BY <2>1 DEF ProcessedInv, Outbox!Settled
<1>4. CASE RunPoll
  <2>1. /\ workerPc' = workerPc /\ workerPc[worker] = "poll" /\ UNCHANGED <<processed, job>>
        /\ begun' = begun \cup {job[worker]} /\ job[worker] \in Trigger
        /\ \A t \in begun : dueThen'[t] = dueThen[t]
    BY <1>4 DEF RunPoll, WorkerInv, queueVars
  <2>2. QED
    BY <1>1, <2>1 DEF ProcessedInv
<1>5. CASE Polling
  <2>1. /\ UNCHANGED <<workerPc, processed, job, begun, dueThen>> /\ stage # "off"
    BY <1>5 DEF Polling, queueVars, history, PollStep, BeginCycle, List, Deliver, RecordFailure,
                DispatchRejects, QueryRejects, LookAhead
  <2>2. QED
    BY <1>1, <2>1 DEF ProcessedInv
<1>6. CASE PollEnds
  <2>1. /\ UNCHANGED <<processed, job, begun, dueThen>> /\ stage # "off" /\ stage' = "off"
        /\ workerPc'[worker] = IF stage = "resolved" THEN "acknowledge" ELSE "release"
    BY <1>6 DEF PollEnds, EndPoll, history, WorkerInv
  <2>2. job[worker] \in begun /\ job[worker] \in Trigger
    BY <2>1 DEF ProcessedInv, WorkerInv
  <2>3. Uniform /\ stage = "resolved" => dueThen[job[worker]] \subseteq Outbox!Settled
    BY <2>2 DEF ScheduleInv, Tracked
  <2>4. QED
    BY <1>1, <2>1, <2>2, <2>3 DEF ProcessedInv
<1>7. ASSUME NEW m \in Message, OrderSaves(m) PROVE ProcessedInv'
  BY <1>1, <1>7 DEF OrderSaves, Save, pollVars, queueVars, history, ProcessedInv
<1>8. CASE UNCHANGED allVars
  BY <1>1, <1>8 DEF allVars, vars, pollVars, queueVars, history, ProcessedInv
<1>9. QED
  BY <1>2, <1>3, <1>4, <1>5, <1>6, <1>7, <1>8 DEF WorkerNext, RunOnce

\* For any messages, triggers and commands, any number of polls that reject midway
\* and are started over, and orders saved meanwhile: with cycles enough for all the
\* retries, a trigger that is acknowledged leaves none of what was due when it was
\* first polled for unsettled.
THEOREM SettledWhenProcessedHolds == WorkerSpec => []SettledWhenProcessed
<1>1. WorkerInit => ScheduleInv /\ ProcessedInv
  <2> SUFFICES ASSUME WorkerInit PROVE ScheduleInv /\ ProcessedInv
    OBVIOUS
  <2>1. /\ liveReads /\ DefaultCommand \in Command /\ stage = "off" /\ processed = {}
        /\ workerPc[worker] = "idle"
        /\ \A m \in Message : retryCount[m] = 0
        /\ Tracked = {}
    BY DEF WorkerInit, Init, Outbox!Init, Queue!Init, Tracked
  <2>2. QED
    BY <2>1 DEF ScheduleInv, ProcessedInv
<1>2. ProcessedInv => SettledWhenProcessed
  BY DEF ProcessedInv, SettledWhenProcessed, Uniform
<1>3. QED
  BY <1>1, <1>2, NextScheduleInv, NextProcessedInv, WorkerInvariant, PTL DEF WorkerSpec

\* The worker's polls are polls of PollOutbox: what holds of any polls holds of these.
THEOREM PollsAreKept == WorkerSpec => Spec
<1>1. WorkerInit => Init
  BY DEF WorkerInit
<1>2. QED
  BY <1>1, WorkerPolls, WorkerInvariant, PTL DEF WorkerSpec, Spec
=============================================================================
