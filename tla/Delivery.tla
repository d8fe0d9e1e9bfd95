------------------------------ MODULE Delivery ------------------------------
(***************************************************************************)
(* What the notification outbox promises: an event, once recorded, reaches *)
(* the notification service at least once, and nothing else does.          *)
(***************************************************************************)
CONSTANT Event

VARIABLES posted, delivered

vars == <<posted, delivered>>

Init == posted = {} /\ delivered = {}

Post(e) ==
    /\ e \notin posted
    /\ posted' = posted \cup {e}
    /\ UNCHANGED delivered

Deliver(e) ==
    /\ e \in posted
    /\ delivered' = delivered \cup {e}
    /\ UNCHANGED posted

Next == \E e \in Event : Post(e) \/ Deliver(e)

Safety == Init /\ [][Next]_vars

AtLeastOnce == \A e \in Event : e \in posted ~> e \in delivered

Spec == Safety /\ AtLeastOnce
=============================================================================
