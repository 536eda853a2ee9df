----------------------------- MODULE OrderEffect -----------------------------
(***************************************************************************)
(* What the chain API -> outbox -> relay -> RabbitMQ -> consumer promises  *)
(* (README, "at-least-once + idempotent consumer"): an order is placed, or *)
(* never; the effect of its order.placed event is applied only after that, *)
(* at most once, and stays.                                                *)
(***************************************************************************)
EXTENDS Naturals

CONSTANT Event     \* one order.placed event per order

VARIABLES placed,  \* orders that exist
          times    \* times[e]: how often e's effect was applied

vars == <<placed, times>>

Place(e) ==
  /\ e \notin placed
  /\ placed' = placed \union {e}
  /\ UNCHANGED times

Apply(e) ==
  /\ e \in placed
  /\ times[e] = 0
  /\ times' = [times EXCEPT ![e] = 1]
  /\ UNCHANGED placed

Init == placed = {} /\ times = [e \in Event |-> 0]

Next == \E e \in Event : Place(e) \/ Apply(e)

Spec == Init /\ [][Next]_vars
=============================================================================
