-------------------------- MODULE IdempotentPlacement --------------------------
(***************************************************************************)
(* What placing orders promises to its clients, whatever happens inside a  *)
(* call: an order is stored, announced in the outbox and entered under its *)
(* key in one go, and what a call is told is true.  A call may fail at any *)
(* time, and its client does not learn how far it got.                     *)
(*                                                                         *)
(* To clients that wait for an answer before they repeat a key ("waiting") *)
(* it promises besides that a key gets one order, and that nobody pays for *)
(* a key that has its order.  Calls of one key at the same time may each   *)
(* place an order, and the last one holds the key.                         *)
(*                                                                         *)
(* Without transactions ("atomic" is FALSE) an order may also be stored    *)
(* with nothing else.                                                      *)
(***************************************************************************)
CONSTANTS Request, Key, NoOrder

VARIABLES
    waiting,    \* clients repeat a key only after an answer
    atomic,     \* an order is stored with its message and its key, or not at all
    keyOf,      \* the key each request sends, a member of Key or none
    paid,       \* requests whose payment was accepted
    stored,     \* requests whose order is stored
    announced,  \* requests whose order has its message in the outbox
    holder,     \* the order of each key
    told        \* the outcome of each request: what it was told, of which order

placementVars == <<paid, stored, announced, holder, told>>

NotYet == [answer |-> "none", order |-> NoOrder]

PlacementInit ==
    /\ paid = {} /\ stored = {} /\ announced = {}
    /\ holder = [k \in Key |-> NoOrder]
    /\ told = [r \in Request |-> NotYet]

Keyed(r) == keyOf[r] \in Key

Open(r) ==
    /\ told[r] = NotYet
    /\ waiting /\ Keyed(r) => holder[keyOf[r]] = NoOrder

Pay(r) ==
    /\ Open(r)
    /\ r \notin paid
    /\ paid' = paid \cup {r}
    /\ UNCHANGED <<stored, announced, holder, told>>

Place(r) ==
    /\ Open(r)
    /\ r \in paid \ stored
    /\ stored' = stored \cup {r}
    /\ announced' = announced \cup {r}
    /\ holder' = [k \in Key |-> IF k = keyOf[r] THEN r ELSE holder[k]]
    /\ UNCHANGED <<paid, told>>

PlaceAlone(r) ==
    /\ ~atomic
    /\ Open(r)
    /\ r \in paid \ stored
    /\ stored' = stored \cup {r}
    /\ UNCHANGED <<paid, announced, holder, told>>

Tell(r) ==
    /\ told[r] = NotYet
    /\ \/ /\ r \in stored \cap announced
          /\ told' = [told EXCEPT ![r] = [answer |-> "placed", order |-> r]]
       \/ /\ Keyed(r) /\ holder[keyOf[r]] # NoOrder
          /\ told' = [told EXCEPT ![r] = [answer |-> "placed", order |-> holder[keyOf[r]]]]
       \/ /\ r \notin paid
          /\ told' = [told EXCEPT ![r] = [answer |-> "refused", order |-> NoOrder]]
       \/ told' = [told EXCEPT ![r] = [answer |-> "failed", order |-> NoOrder]]
    /\ UNCHANGED <<paid, stored, announced, holder>>

\* The payment is accepted and the call fails with it.
PayInVain(r) ==
    /\ Open(r)
    /\ r \notin paid
    /\ paid' = paid \cup {r}
    /\ told' = [told EXCEPT ![r] = [answer |-> "failed", order |-> NoOrder]]
    /\ UNCHANGED <<stored, announced, holder>>

PlacementNext ==
    \E r \in Request :
        Pay(r) \/ PayInVain(r) \/ Place(r) \/ PlaceAlone(r) \/ Tell(r)

\* What is given stays as it is.
PlacementSpec ==
    /\ PlacementInit
    /\ [][PlacementNext]_placementVars
    /\ [][FALSE]_<<waiting, atomic, keyOf>>
=============================================================================
