------------------------------ MODULE Consumer ------------------------------
(***************************************************************************)
(* The order.placed consumers (messaging/consumer.ts, run-consumer.ts,     *)
(* pg-store.ts) on the quorum queue orders.order-placed                    *)
(* (messaging/topology.ts): deliveries up to the prefetch window, the      *)
(* inbox transaction, the receipt task, ack and reject, redelivery and the *)
(* dead-letter queue, processes that stop, lose their channel or die.      *)
(*                                                                         *)
(* The relay may publish an event several times; the broker then holds     *)
(* several messages, the copies <<e, 1>>, <<e, 2>>, ... of e.  A handler   *)
(* is one call of handleMessage; calls of one process interleave at every  *)
(* await, and a call outlives the channel its message came from.           *)
(***************************************************************************)
EXTENDS Integers, FiniteSets

CONSTANTS Event,          \* events by eventId
          Poison,         \* those whose body parseOrderPlaced refuses
          Consumers,      \* consumer processes
          Prefetch,       \* PREFETCH: unacknowledged messages per channel
          DeliveryLimit,  \* DELIVERY_LIMIT: returns before the DLQ
          MaxCopies       \* bound: copies of an event

ASSUME ConsumerAssumption == /\ Poison \subseteq Event
                             /\ Prefetch \in Nat \ {0}
                             /\ DeliveryLimit \in Nat
                             /\ MaxCopies \in Nat

VARIABLES copies,   \* copies[e]: copies the queue has accepted
          place,    \* place[c]: where the broker has copy c
          returns,  \* returns[c]: x-delivery-count
          unacked,  \* unacked[w]: copies delivered on w's open channel
          up,       \* up[w]: "up", "stopping" or "broken" (no channel), "down"
          step,     \* step[w][c]: where w's handler of c stands
          inbox,    \* processed_messages
          effects,  \* processed_order_events
          applied,  \* applied[e]: transactions that returned true for e
          jobs      \* orders whose receipt job BullMQ knows

queueVars == <<place, returns, unacked>>
storeVars == <<inbox, effects, applied>>
consumerVars == <<queueVars, up, step, storeVars, jobs>>
vars == <<copies, consumerVars>>

-----------------------------------------------------------------------------
Copy == Event \X (1 .. MaxCopies)
Places == {"queue", "unacked", "acked", "dlq"}
Steps == {"none", "received", "claimed", "applied", "enqueued"}

Idle == [c \in Copy |-> "none"]

Accepted(c) == c[2] <= copies[c[1]]

(* Mutant: a queue without x-delivery-limit. *)
ReturnForever(S) ==
  /\ place' = [c \in Copy |-> IF c \in S THEN "queue" ELSE place[c]]
  /\ unacked' = [w \in Consumers |-> unacked[w] \ S]
  /\ UNCHANGED returns

(* The broker takes the messages S back from a channel: each return counts *)
(* towards x-delivery-limit, the one beyond it dead-letters the message.   *)
ReturnCopies(S) ==
  /\ place' = [c \in Copy |->
                 IF c \notin S THEN place[c]
                 ELSE IF returns[c] < DeliveryLimit THEN "queue" ELSE "dlq"]
  /\ returns' = [c \in Copy |->
                   IF c \in S /\ returns[c] < DeliveryLimit
                   THEN returns[c] + 1 ELSE returns[c]]
  /\ unacked' = [w \in Consumers |-> unacked[w] \ S]

(* basic.ack, or reject(false), of a message: p is where it ends. *)
SettleCopy(c, p) ==
  /\ place' = [place EXCEPT ![c] = p]
  /\ unacked' = [w \in Consumers |-> unacked[w] \ {c}]
  /\ UNCHANGED returns

(* Mutant: a handler settles its message on whatever channel holds it now. *)
EndHandlerAnyChannel(w, c, OnOpenChannel) ==
  /\ step' = [step EXCEPT ![w][c] = "none"]
  /\ OnOpenChannel

(* Handler w, c ends.  On a closed channel ack and reject throw, and the   *)
(* catch block swallows it: the broker has taken the message back already. *)
EndHandler(w, c, OnOpenChannel) ==
  /\ step' = [step EXCEPT ![w][c] = "none"]
  /\ IF c \in unacked[w] THEN OnOpenChannel ELSE UNCHANGED queueVars

-----------------------------------------------------------------------------
(* A relay publishes (again): see module Relay. *)
Publish(e) ==
  /\ copies[e] < MaxCopies
  /\ copies' = [copies EXCEPT ![e] = @ + 1]
  /\ UNCHANGED consumerVars

(* The broker pushes a message; consume's callback starts handleMessage. *)
Deliver(w, c) ==
  /\ up[w] = "up"
  /\ Accepted(c) /\ place[c] = "queue"
  /\ Cardinality(unacked[w]) < Prefetch
  /\ place' = [place EXCEPT ![c] = "unacked"]
  /\ unacked' = [unacked EXCEPT ![w] = @ \union {c}]
  /\ step' = [step EXCEPT ![w][c] = "received"]
  /\ UNCHANGED <<copies, returns, up, storeVars, jobs>>

(* parseOrderPlaced: eventId, type and orderId are what they should be. *)
Readable(c) == c[1] \notin Poison

(* An unreadable message: reject without requeue, straight to the DLQ. *)
RejectPoison(w, c) ==
  /\ step[w][c] = "received"
  /\ ~Readable(c)
  /\ EndHandler(w, c, SettleCopy(c, "dlq"))
  /\ UNCHANGED <<copies, up, storeVars, jobs>>

(* applyOrderPlacedEffect: BEGIN, INSERT INTO processed_messages ... ON    *)
(* CONFLICT DO NOTHING.  While another transaction holds the same key      *)
(* uncommitted the INSERT waits for its end.                               *)
Claiming(e) == {w \in Consumers : \E c \in Copy : c[1] = e /\ step[w][c] = "claimed"}

ClaimKey(w, c, seen) ==
  /\ step[w][c] = "received"
  /\ Readable(c)
  /\ \/ seen /\ step' = [step EXCEPT ![w][c] = "applied"]   \* a duplicate
     \/ /\ ~seen /\ Claiming(c[1]) = {}
        /\ step' = [step EXCEPT ![w][c] = "claimed"]
  /\ UNCHANGED <<copies, queueVars, up, storeVars, jobs>>

(* Mutant: deduplication by the broker's redelivered flag, not the eventId. *)
ClaimByFlag(w, c) == ClaimKey(w, c, returns[c] > 0)

Claim(w, c) == ClaimKey(w, c, c[1] \in inbox)

(* INSERT INTO processed_order_events ... ON CONFLICT DO NOTHING, COMMIT. *)
CommitEffect(w, c) ==
  /\ step[w][c] = "claimed"
  /\ inbox' = inbox \union {c[1]}
  /\ effects' = effects \union {c[1]}
  /\ applied' = [applied EXCEPT ![c[1]] = @ + 1]
  /\ step' = [step EXCEPT ![w][c] = "applied"]
  /\ UNCHANGED <<copies, queueVars, up, jobs>>

(* Mutant: a redelivery enqueues nothing. *)
SkipReceiptOfDuplicate(w, c) ==
  /\ step[w][c] = "applied"
  /\ jobs' = IF returns[c] > 0 THEN jobs ELSE jobs \union {c[1]}
  /\ step' = [step EXCEPT ![w][c] = "enqueued"]
  /\ UNCHANGED <<copies, queueVars, up, storeVars>>

(* afterApplied: queue.add with jobId receipt-order-<id>, for a duplicate  *)
(* too; BullMQ ignores a jobId it already has.                             *)
EnqueueReceipt(w, c) ==
  /\ step[w][c] = "applied"
  /\ jobs' = jobs \union {c[1]}
  /\ step' = [step EXCEPT ![w][c] = "enqueued"]
  /\ UNCHANGED <<copies, queueVars, up, storeVars>>

Ack(w, c) ==
  /\ step[w][c] = "enqueued"
  /\ EndHandler(w, c, SettleCopy(c, "acked"))
  /\ UNCHANGED <<copies, up, storeVars, jobs>>

(* A query or queue.add throws, perhaps after the server did its part: an  *)
(* open transaction rolls back, the catch block rejects with requeue.      *)
Fail(w, c) ==
  /\ step[w][c] \in {"received", "claimed", "applied", "enqueued"}
  /\ Readable(c)
  /\ EndHandler(w, c, ReturnCopies({c}))
  /\ UNCHANGED <<copies, up, storeVars, jobs>>

-----------------------------------------------------------------------------
(* SIGTERM or Ctrl+C: shutdown closes the channel first; the handlers that *)
(* are at an await run on until process.exit.                              *)
Shutdown(w) ==
  /\ up[w] = "up"
  /\ up' = [up EXCEPT ![w] = "stopping"]
  /\ ReturnCopies(unacked[w])
  /\ UNCHANGED <<copies, step, storeVars, jobs>>

(* The connection breaks; the close event that calls process.exit(1) comes *)
(* a little later.                                                         *)
ChannelLost(w) ==
  /\ up[w] = "up"
  /\ up' = [up EXCEPT ![w] = "broken"]
  /\ ReturnCopies(unacked[w])
  /\ UNCHANGED <<copies, step, storeVars, jobs>>

(* The process ends: open transactions roll back, handlers are gone. *)
Die(w) ==
  /\ up' = [up EXCEPT ![w] = "down"]
  /\ step' = [step EXCEPT ![w] = Idle]
  /\ ReturnCopies(unacked[w])
  /\ UNCHANGED <<copies, storeVars, jobs>>

Exit(w) == up[w] \in {"stopping", "broken"} /\ Die(w)

Kill(w) == up[w] = "up" /\ Die(w)

Restart(w) ==
  /\ up[w] = "down"
  /\ up' = [up EXCEPT ![w] = "up"]
  /\ UNCHANGED <<copies, queueVars, step, storeVars, jobs>>

-----------------------------------------------------------------------------
ConsumerInit ==
  /\ place = [c \in Copy |-> "queue"]
  /\ returns = [c \in Copy |-> 0]
  /\ unacked = [w \in Consumers |-> {}]
  /\ up = [w \in Consumers |-> "up"]
  /\ step = [w \in Consumers |-> Idle]
  /\ inbox = {}
  /\ effects = {}
  /\ applied = [e \in Event |-> 0]
  /\ jobs = {}

Init == copies = [e \in Event |-> 0] /\ ConsumerInit

Handle(w, c) ==
  \/ Deliver(w, c)
  \/ RejectPoison(w, c)
  \/ Claim(w, c)
  \/ CommitEffect(w, c)
  \/ EnqueueReceipt(w, c)
  \/ Ack(w, c)
  \/ Fail(w, c)

Process(w) == Shutdown(w) \/ ChannelLost(w) \/ Exit(w) \/ Kill(w) \/ Restart(w)

ConsumerNext ==
  \/ \E w \in Consumers, c \in Copy : Handle(w, c)
  \/ \E w \in Consumers : Process(w)

Next == ConsumerNext \/ \E e \in Event : Publish(e)

Spec == Init /\ [][Next]_vars

(* What handler w, c does next when nothing fails. *)
Advance(w, c) ==
  \/ RejectPoison(w, c)
  \/ Claim(w, c)
  \/ CommitEffect(w, c)
  \/ EnqueueReceipt(w, c)
  \/ Ack(w, c)

(* The event loop runs every handler on, and a waiting INSERT is served    *)
(* when the key comes free (strong fairness); a consumer that comes up     *)
(* again and again is given messages again and again; exit follows the     *)
(* loss of the channel, and a supervisor restarts processes.               *)
Fairness ==
  /\ \A c \in Copy : SF_vars(\E w \in Consumers : Deliver(w, c))
  /\ \A w \in Consumers, c \in Copy : SF_vars(Advance(w, c))
  /\ \A w \in Consumers : WF_vars(Exit(w) \/ Restart(w))

FairSpec == Spec /\ Fairness

-----------------------------------------------------------------------------
(* The state is of the shape consumer.ts and the migrations give it. *)
TypeOK ==
  /\ copies \in [Event -> Nat]
  /\ place \in [Copy -> Places]
  /\ returns \in [Copy -> 0 .. DeliveryLimit]
  /\ unacked \in [Consumers -> SUBSET Copy]
  /\ up \in [Consumers -> {"up", "stopping", "broken", "down"}]
  /\ step \in [Consumers -> [Copy -> Steps]]
  /\ inbox \subseteq Event
  /\ effects \subseteq Event
  /\ applied \in [Event -> Nat]
  /\ jobs \subseteq Event

(* applyOrderPlacedEffect applies the effect of an event exactly once for  *)
(* any number of copies, redeliveries, concurrent handlers and handlers of *)
(* closed channels, and the inbox and the effect commit together.          *)
EffectOnce ==
  /\ effects = inbox
  /\ \A e \in Event : applied[e] = IF e \in inbox THEN 1 ELSE 0

(* Ack comes last: a message leaves the queue for good only when its       *)
(* effect is committed and its receipt job is in BullMQ, so no crash       *)
(* between the three can lose either.                                      *)
AckedIsComplete ==
  \A c \in Copy : place[c] = "acked" => c[1] \in inbox /\ c[1] \in jobs

(* Nothing happens for an event nobody published: effect and receipt job   *)
(* both stand for an accepted, readable message.                           *)
EffectNeedsMessage ==
  \A e \in inbox \union jobs : copies[e] >= 1 /\ e \notin Poison

(* A handler that outlives its channel does no harm: handleMessage of a    *)
(* closed channel finishes while the message is already with another      *)
(* consumer, and a message once acknowledged or dead-lettered stays so.    *)
SettledStays ==
  [][\A c \in Copy : place[c] \in {"acked", "dlq"} => place'[c] = place[c]]_vars

(* README: when the process dies between the effect and the task, the      *)
(* redelivery restores the task, so an applied effect gets its receipt.    *)
EffectGetsReceipt ==
  \A e \in Event : e \in inbox ~> e \in jobs
=============================================================================
