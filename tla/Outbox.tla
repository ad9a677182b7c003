------------------------------- MODULE Outbox -------------------------------
(***************************************************************************)
(* What the relay promises of an event, whoever carries it: it is stored   *)
(* before anybody acts on it, it is marked only after it was delivered, it *)
(* may be delivered again, and none of this is ever undone.                *)
(***************************************************************************)
CONSTANT Events

VARIABLES
  offered,    \* events on record
  delivered,  \* events handed to the route, once or more often
  marked      \* events nobody will hand over again

vars == <<offered, delivered, marked>>

Init == offered = {} /\ delivered = {} /\ marked = {}

Offer(e) ==
  /\ offered' = offered \cup {e}
  /\ UNCHANGED <<delivered, marked>>

Deliver(e) ==
  /\ e \in offered
  /\ delivered' = delivered \cup {e}
  /\ UNCHANGED <<offered, marked>>

Mark(e) ==
  /\ e \in delivered
  /\ marked' = marked \cup {e}
  /\ UNCHANGED <<offered, delivered>>

Next == \E e \in Events : Offer(e) \/ Deliver(e) \/ Mark(e)

Spec == Init /\ [][Next]_vars
=============================================================================
