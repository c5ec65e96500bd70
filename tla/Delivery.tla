------------------------------ MODULE Delivery ------------------------------
(***************************************************************************)
(* What a bridge promises of its messages: each is sent once, and once sent*)
(* it is pending until it is received, once, or given up by governance.    *)
(***************************************************************************)
CONSTANT Messages

VARIABLES pending, received, dropped

deliveryVars == <<pending, received, dropped>>

DeliveryInit == pending = {} /\ received = {} /\ dropped = {}

Known == pending \union received \union dropped

\* A message has a nonce of its own among those sent to the same chain.
Send(m) ==
    /\ \A x \in Known : x.dest = m.dest => x.nonce # m.nonce
    /\ pending' = pending \union {m}
    /\ UNCHANGED <<received, dropped>>

Receive(m) ==
    /\ m \in pending
    /\ pending' = pending \ {m}
    /\ received' = received \union {m}
    /\ UNCHANGED dropped

Drop(m) ==
    /\ m \in pending
    /\ pending' = pending \ {m}
    /\ dropped' = dropped \union {m}
    /\ UNCHANGED received

DeliveryNext == \E m \in Messages : Send(m) \/ Receive(m) \/ Drop(m)

DeliverySpec == DeliveryInit /\ [][DeliveryNext]_deliveryVars
=============================================================================
