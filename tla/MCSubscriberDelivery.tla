------------------------ MODULE MCSubscriberDelivery ------------------------
(* Three subscribers, with policies that give up after three attempts, after *)
(* two and at once.                                                          *)
EXTENDS SubscriberDelivery

CONSTANTS e1, projector, notifier, analytics, p1, p2

InOrder  == <<projector, analytics, notifier>>
PolicyOf == [s \in Subscriber |->
                CASE s = projector -> 3 [] s = notifier -> 2 [] s = analytics -> 1]
=============================================================================
