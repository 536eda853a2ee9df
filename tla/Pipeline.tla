------------------------------ MODULE Pipeline ------------------------------
(***************************************************************************)
(* Relay and Consumer composed: the relays' publishes are the copies the   *)
(* queue delivers.  The composition is shown to implement OrderEffect.     *)
(***************************************************************************)
EXTENDS Integers, FiniteSets

CONSTANTS Event, Relays, BatchSize, MaxAttempts, MaxAborts,
          Consumers, Prefetch, DeliveryLimit

(* The assumptions of Relay and of Consumer, together. *)
ASSUME PipelineAssumption == /\ IsFiniteSet(Event) /\ IsFiniteSet(Relays)
                             /\ BatchSize \in Nat \ {0}
                             /\ MaxAttempts \in Nat
                             /\ MaxAborts \in Nat
                             /\ Prefetch \in Nat \ {0}
                             /\ DeliveryLimit \in Nat

VARIABLES row, created, attempts, pc, locked, todo, sent, failed, late,
          topology, unrouted, aborts,
          copies,
          place, returns, unacked, up, step, inbox, effects, applied, jobs

(* Every failed or lost publish may leave a copy behind, plus the last one. *)
MaxCopies == MaxAttempts + MaxAborts + 1

R == INSTANCE Relay
C == INSTANCE Consumer WITH Poison <- {}

relayVars == <<row, created, attempts, pc, locked, todo, sent, failed, late,
               topology, unrouted, aborts, copies>>
consumerVars == <<place, returns, unacked, up, step, inbox, effects, applied, jobs>>
vars == <<relayVars, consumerVars>>

Init == R!Init /\ C!ConsumerInit

Next ==
  \/ R!Next /\ UNCHANGED consumerVars
  \/ C!ConsumerNext /\ UNCHANGED relayVars

Spec == Init /\ [][Next]_vars

RelayFairness ==
  /\ WF_vars(R!DeclareTopology /\ UNCHANGED consumerVars)
  /\ \A r \in Relays : WF_vars(R!Advance(r) /\ UNCHANGED consumerVars)

ConsumerFairness ==
  /\ \A c \in C!Copy :
       SF_vars((\E w \in Consumers : C!Deliver(w, c)) /\ UNCHANGED relayVars)
  /\ \A w \in Consumers, c \in C!Copy :
       SF_vars(C!Advance(w, c) /\ UNCHANGED relayVars)
  /\ \A w \in Consumers :
       WF_vars((C!Exit(w) \/ C!Restart(w)) /\ UNCHANGED relayVars)

FairSpec == Spec /\ RelayFairness /\ ConsumerFairness

-----------------------------------------------------------------------------
A == INSTANCE OrderEffect WITH placed <- {e \in Event : R!Committed(e)},
                               times <- applied

(* The chain implements its promise: seen through the tables orders (with  *)
(* outbox) and processed_order_events, every step of relays, broker and    *)
(* consumers places one order, applies one placed order's effect for the   *)
(* first and only time, or changes nothing.                                *)
ImplementsOrderEffect == A!Spec

(* No event falls between the processes: a committed order's effect is     *)
(* applied, or a copy is kept where an operator can find it, in the DLQ or *)
(* in shop.unrouted.                                                       *)
EveryOrderHandled ==
  \A e \in Event :
    R!Committed(e) ~> \/ e \in effects
                      \/ \E c \in C!Copy : c[1] = e /\ place[c] = "dlq"
                      \/ unrouted[e] > 0

(* x-delivery-limit keeps redelivery finite: the relays' failures, hence    *)
(* their copies, are finite, so from some point on every copy they ever     *)
(* sent, the late ones included, is acknowledged or in the DLQ for good.    *)
EveryCopySettles ==
  <>[](\A c \in C!Copy : C!Accepted(c) => place[c] \in {"acked", "dlq"})

(* Across both components: a message is gone from the broker (acked) and   *)
(* its outbox row cleaned up only for an order whose effect is recorded    *)
(* and whose receipt job exists, unless a copy waits in the DLQ, in        *)
(* shop.unrouted or in the queue.                                          *)
NothingLost ==
  \A e \in Event :
    row[e] = "deleted" =>
      \/ e \in effects /\ e \in jobs
      \/ unrouted[e] > 0
      \/ \E c \in C!Copy : c[1] = e /\ C!Accepted(c) /\ place[c] # "acked"
=============================================================================
