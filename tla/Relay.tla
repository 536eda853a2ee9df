-------------------------------- MODULE Relay --------------------------------
(***************************************************************************)
(* The transactional outbox (outbox/outbox.ts), the relay processes that   *)
(* carry its rows to RabbitMQ (outbox/relay.ts), the confirm publisher     *)
(* they use (messaging/publisher.ts, lib/with-timeout.ts), the order in    *)
(* which the topology appears (messaging/topology.ts) and the periodic     *)
(* clean-up of sent rows (queue/run-worker.ts).                            *)
(*                                                                         *)
(* One outbox row exists per order, and one event per row (the eventId is  *)
(* a function of the orderId), so a member of Event stands for all three.  *)
(* PostgreSQL is at READ COMMITTED: the locks a relay's SELECT ... FOR     *)
(* UPDATE takes live exactly as long as its transaction.                   *)
(***************************************************************************)
EXTENDS Integers, FiniteSets, Functions

CONSTANTS Event,        \* outbox rows, one per order.placed event
          Relays,       \* relay processes
          BatchSize,    \* LIMIT of one pass
          MaxAttempts,  \* bound: a row's publish fails only below this many attempts
          MaxAborts     \* bound: passes lost to a crash or a rollback

ASSUME RelayAssumption == /\ IsFiniteSet(Event) /\ IsFiniteSet(Relays)
                          /\ BatchSize \in Nat \ {0}
                          /\ MaxAttempts \in Nat
                          /\ MaxAborts \in Nat

VARIABLES row,       \* row[e]: life of e's outbox row
          created,   \* created[e]: created_at, the start of the order's transaction
          attempts,  \* attempts[e]: the attempts column
          pc,        \* pc[r]: "idle", "publishing", "marking" or "down"
          locked,    \* locked[r]: rows r's open transaction has locked
          todo,      \* todo[r]: rows of the batch not tried yet
          sent,      \* sent[r]: sentIds
          failed,    \* failed[r]: {} or {failedId}
          late,      \* late[r][e]: publishes of e the timeout abandoned, still running in r
          topology,  \* what of the topology the broker has
          copies,    \* copies[e]: copies the queue orders.order-placed accepted
          unrouted,  \* unrouted[e]: copies the alternate exchange took
          aborts     \* passes lost so far (bounded)

relayVars == <<pc, locked, todo, sent, failed, late>>
tableVars == <<row, created, attempts>>
brokerVars == <<topology, copies, unrouted>>
vars == <<tableVars, relayVars, brokerVars, aborts>>

-----------------------------------------------------------------------------
RowStates == {"absent", "open", "rolled back", "pending", "published", "deleted"}

(* The order behind e exists: its transaction committed. *)
Committed(e) == row[e] \in {"pending", "published", "deleted"}

(* published_at is set, or was set before the clean-up deleted the row. *)
Marked(e) == row[e] \in {"published", "deleted"}

Lockers(e) == {r \in Relays : e \in locked[r]}

(* ORDER BY created_at, id: transactions start at distinct instants here.  *)
Oldest(S) == {e \in S : \A f \in S : created[e] <= created[f]}

Started == {e \in Event : row[e] # "absent"}

NoneLate == [e \in Event |-> 0]

(* How much of the topology a publisher sees: the exchange with its       *)
(* alternate exchange comes before the queue and its binding.             *)
Topologies == {"none", "exchange", "bound"}

-----------------------------------------------------------------------------
(* The transaction of an order.  BEGIN fixes now(), hence created_at; the *)
(* row is visible to relays only from COMMIT on.                          *)
BeginOrder(e) ==
  /\ row[e] = "absent"
  /\ row' = [row EXCEPT ![e] = "open"]
  /\ created' = [created EXCEPT ![e] = Cardinality(Started) + 1]
  /\ UNCHANGED <<attempts, relayVars, brokerVars, aborts>>

EndOrder(e) ==
  /\ row[e] = "open"
  /\ \E s \in {"pending", "rolled back"} : row' = [row EXCEPT ![e] = s]
  /\ UNCHANGED <<created, attempts, relayVars, brokerVars, aborts>>

-----------------------------------------------------------------------------
(* relayOnce, first half: BEGIN and SELECT ... WHERE published_at IS NULL  *)
(* ORDER BY created_at FOR UPDATE SKIP LOCKED LIMIT BatchSize.             *)
Eligible == {e \in Event : row[e] = "pending" /\ Lockers(e) = {}}

IsBatch(B, S) ==
  /\ B \subseteq S
  /\ Cardinality(B) = IF Cardinality(S) < BatchSize THEN Cardinality(S) ELSE BatchSize
  /\ \A e \in B, f \in S \ B : created[e] < created[f]

TakeBatch(r, rows) ==
  /\ pc[r] = "idle"
  /\ rows # {}
  /\ \E B \in SUBSET rows :
       /\ IsBatch(B, rows)
       /\ locked' = [locked EXCEPT ![r] = B]
       /\ todo' = [todo EXCEPT ![r] = B]
  /\ sent' = [sent EXCEPT ![r] = {}]
  /\ failed' = [failed EXCEPT ![r] = {}]
  /\ pc' = [pc EXCEPT ![r] = "publishing"]
  /\ UNCHANGED <<late, tableVars, brokerVars, aborts>>

(* Mutant: LockMode 'none', which the demo uses to show duplicates. *)
SelectBatchNoLock(r) == TakeBatch(r, {e \in Event : row[e] = "pending"})

SelectBatch(r) == TakeBatch(r, Eligible)

(* A pass that finds nothing commits an empty transaction and sleeps. *)
EmptyPass(r) ==
  /\ pc[r] = "idle"
  /\ Eligible = {}
  /\ UNCHANGED vars

-----------------------------------------------------------------------------
(* The broker takes one copy.  shop.events names an alternate exchange, so *)
(* what no queue is bound for is stored in shop.unrouted and confirmed     *)
(* like any other message: it counts as routed, there is no basic.return.  *)
Accept(e) ==
  /\ topology # "none"
  /\ copies' = [copies EXCEPT ![e] = @ + (IF topology = "bound" THEN 1 ELSE 0)]
  /\ unrouted' = [unrouted EXCEPT ![e] = @ + (IF topology = "bound" THEN 0 ELSE 1)]
  /\ UNCHANGED topology

(* publish confirmed in time: sentIds.push(row.id). *)
PublishConfirmed(r) ==
  /\ pc[r] = "publishing"
  /\ \E e \in Oldest(todo[r]) :
       /\ Accept(e)
       /\ todo' = [todo EXCEPT ![r] = @ \ {e}]
       /\ sent' = [sent EXCEPT ![r] = @ \union {e}]
  /\ UNCHANGED <<pc, locked, failed, late, tableVars, aborts>>

(* publish rejects: the batch stops at this row.  The message may not have *)
(* left (no connection, no exchange), may have reached the broker without  *)
(* its confirm coming back, or may still be on its way when withTimeout    *)
(* gives up: Promise.race does not cancel the loser.                       *)
PublishFails(r) ==
  /\ pc[r] = "publishing"
  /\ \E e \in Oldest(todo[r]) :
       /\ attempts[e] < MaxAttempts
       /\ failed' = [failed EXCEPT ![r] = {e}]
       /\ \/ UNCHANGED <<late, brokerVars>>
          \/ Accept(e) /\ UNCHANGED late
          \/ late' = [late EXCEPT ![r][e] = @ + 1] /\ UNCHANGED brokerVars
  /\ pc' = [pc EXCEPT ![r] = "marking"]
  /\ UNCHANGED <<locked, todo, sent, tableVars, aborts>>

(* The abandoned publish goes out after all, or fails unseen. *)
LatePublish(r) ==
  /\ \E e \in Event :
       /\ late[r][e] > 0
       /\ late' = [late EXCEPT ![r][e] = @ - 1]
       /\ Accept(e) \/ UNCHANGED brokerVars
  /\ UNCHANGED <<pc, locked, todo, sent, failed, tableVars, aborts>>

EndOfBatch(r) ==
  /\ pc[r] = "publishing"
  /\ todo[r] = {}
  /\ pc' = [pc EXCEPT ![r] = "marking"]
  /\ UNCHANGED <<locked, todo, sent, failed, late, tableVars, brokerVars, aborts>>

(* UPDATE published_at of the sent rows, attempts of the failed one, then  *)
(* COMMIT, which drops the locks.                                          *)
MarkRows(r, rows, tried) ==
  /\ pc[r] = "marking"
  /\ row' = [e \in Event |-> IF e \in rows THEN "published" ELSE row[e]]
  /\ attempts' = [e \in Event |-> IF e \in tried
                                  THEN attempts[e] + 1 ELSE attempts[e]]
  /\ locked' = [locked EXCEPT ![r] = {}]
  /\ todo' = [todo EXCEPT ![r] = {}]
  /\ pc' = [pc EXCEPT ![r] = "idle"]
  /\ UNCHANGED <<sent, failed, late, created, brokerVars, aborts>>

(* Mutant: the whole batch is marked, not the rows that really got through. *)
MarkWholeBatch(r) == MarkRows(r, locked[r], locked[r])

(* Mutant: the failed row's attempt is not counted. *)
MarkSentOnly(r) == MarkRows(r, sent[r], sent[r])

MarkAndCommit(r) == MarkRows(r, sent[r], sent[r] \union failed[r])

-----------------------------------------------------------------------------
(* The pass ends without COMMIT: locks go, nothing is marked. *)
LosePass(r) ==
  /\ locked' = [locked EXCEPT ![r] = {}]
  /\ todo' = [todo EXCEPT ![r] = {}]
  /\ sent' = [sent EXCEPT ![r] = {}]
  /\ failed' = [failed EXCEPT ![r] = {}]

(* Mutant: the error path returns the client without ROLLBACK, its locks    *)
(* stay.                                                                    *)
RollbackForgotten(r) ==
  /\ pc[r] \in {"publishing", "marking"}
  /\ aborts < MaxAborts
  /\ aborts' = aborts + 1
  /\ pc' = [pc EXCEPT ![r] = "idle"]
  /\ UNCHANGED <<locked, todo, sent, failed, late, tableVars, brokerVars>>

(* A query of the pass throws: ROLLBACK, and relayLoop goes on. *)
Rollback(r) ==
  /\ pc[r] \in {"publishing", "marking"}
  /\ aborts < MaxAborts
  /\ aborts' = aborts + 1
  /\ LosePass(r)
  /\ pc' = [pc EXCEPT ![r] = "idle"]
  /\ UNCHANGED <<late, tableVars, brokerVars>>

(* kill -9 anywhere, the point after publish and before UPDATE included.   *)
(* The process takes its abandoned publishes with it.                      *)
Crash(r) ==
  /\ pc[r] # "down"
  /\ aborts < MaxAborts
  /\ aborts' = aborts + 1
  /\ LosePass(r)
  /\ late' = [late EXCEPT ![r] = NoneLate]
  /\ pc' = [pc EXCEPT ![r] = "down"]
  /\ UNCHANGED <<tableVars, brokerVars>>

(* Ctrl+C: relayLoop leaves between two passes and closes the publisher. *)
Stop(r) ==
  /\ pc[r] = "idle"
  /\ aborts < MaxAborts
  /\ aborts' = aborts + 1
  /\ late' = [late EXCEPT ![r] = NoneLate]
  /\ pc' = [pc EXCEPT ![r] = "down"]
  /\ UNCHANGED <<locked, todo, sent, failed, tableVars, brokerVars>>

Restart(r) ==
  /\ pc[r] = "down"
  /\ pc' = [pc EXCEPT ![r] = "idle"]
  /\ UNCHANGED <<locked, todo, sent, failed, late, tableVars, brokerVars, aborts>>

-----------------------------------------------------------------------------
(* assertTopology, run by the consumer or the bootstrap, step by step. *)
DeclareTopology ==
  /\ \/ topology = "none" /\ topology' = "exchange"
     \/ topology = "exchange" /\ topology' = "bound"
  /\ UNCHANGED <<copies, unrouted, tableVars, relayVars, aborts>>

(* outbox-cleanup: DELETE of rows published more than seven days ago, for  *)
(* any set of published rows that are that old.                            *)
DeleteRows(candidates) ==
  /\ \E S \in SUBSET candidates :
       /\ S # {}
       /\ row' = [e \in Event |-> IF e \in S THEN "deleted" ELSE row[e]]
  /\ UNCHANGED <<created, attempts, relayVars, brokerVars, aborts>>

(* Mutant: the clean-up goes by age alone. *)
CleanupByAge == DeleteRows({e \in Event : row[e] \in {"pending", "published"}})

CleanupOutbox == DeleteRows({e \in Event : row[e] = "published"})

-----------------------------------------------------------------------------
Init ==
  /\ row = [e \in Event |-> "absent"]
  /\ created = [e \in Event |-> 0]
  /\ attempts = [e \in Event |-> 0]
  /\ pc = [r \in Relays |-> "idle"]
  /\ locked = [r \in Relays |-> {}]
  /\ todo = [r \in Relays |-> {}]
  /\ sent = [r \in Relays |-> {}]
  /\ failed = [r \in Relays |-> {}]
  /\ late = [r \in Relays |-> NoneLate]
  /\ topology = "none"
  /\ copies = [e \in Event |-> 0]
  /\ unrouted = [e \in Event |-> 0]
  /\ aborts = 0

RelayStep(r) ==
  \/ SelectBatch(r)
  \/ EmptyPass(r)
  \/ PublishConfirmed(r)
  \/ PublishFails(r)
  \/ LatePublish(r)
  \/ EndOfBatch(r)
  \/ MarkAndCommit(r)
  \/ Rollback(r)
  \/ Crash(r)
  \/ Stop(r)
  \/ Restart(r)

Next ==
  \/ \E e \in Event : BeginOrder(e) \/ EndOrder(e)
  \/ \E r \in Relays : RelayStep(r)
  \/ DeclareTopology
  \/ CleanupOutbox

Spec == Init /\ [][Next]_vars

(* What relay r does next when nothing fails. *)
Advance(r) ==
  \/ SelectBatch(r)
  \/ PublishConfirmed(r)
  \/ EndOfBatch(r)
  \/ MarkAndCommit(r)
  \/ Restart(r)

(* relayLoop never rests while the process lives, a supervisor restarts a  *)
(* dead one, the topology is declared at start-up, an order's transaction  *)
(* ends.  Nothing is assumed of failures except that they are finite.      *)
Fairness ==
  /\ WF_vars(DeclareTopology)
  /\ \A e \in Event : WF_vars(EndOrder(e))
  /\ \A r \in Relays : WF_vars(Advance(r))

FairSpec == Spec /\ Fairness

-----------------------------------------------------------------------------
(* The state is of the shape relay.ts and the outbox migration give it. *)
TypeOK ==
  /\ row \in [Event -> RowStates]
  /\ created \in [Event -> Nat]
  /\ attempts \in [Event -> Nat]
  /\ pc \in [Relays -> {"idle", "publishing", "marking", "down"}]
  /\ locked \in [Relays -> SUBSET Event]
  /\ todo \in [Relays -> SUBSET Event]
  /\ sent \in [Relays -> SUBSET Event]
  /\ failed \in [Relays -> SUBSET Event]
  /\ late \in [Relays -> [Event -> Nat]]
  /\ topology \in Topologies
  /\ copies \in [Event -> Nat]
  /\ unrouted \in [Event -> Nat]
  /\ aborts \in 0 .. MaxAborts

(* At-least-once: whatever fails in whatever order, a row marked published *)
(* (relay.ts publishes, then updates, then commits) has a copy the broker  *)
(* stored, so neither the mark nor the clean-up can lose an event.         *)
MarkedReachedBroker ==
  \A e \in Event : Marked(e) => copies[e] + unrouted[e] >= 1

(* The other half of the dual-write problem: the broker never holds an     *)
(* event of an order whose transaction rolled back or is still open.       *)
OnlyCommittedPublished ==
  \A e \in Event : copies[e] + unrouted[e] >= 1 => Committed(e)

(* SKIP LOCKED keeps the relays' batches apart: while one relay holds a    *)
(* row no other one holds it, and the row is still unpublished.            *)
BatchesDisjoint ==
  \A r \in Relays : \A e \in locked[r] : Lockers(e) = {r} /\ row[e] = "pending"

(* A row that is marked is never sent again: a copy that reaches the       *)
(* broker after the mark can only be a publish that timed out earlier.     *)
NoResendAfterMark ==
  [][\A e \in Event :
       Marked(e) /\ copies'[e] + unrouted'[e] > copies[e] + unrouted[e]
         => \E r \in Relays : late'[r][e] < late[r][e]]_vars

StillRunning(e) == SumFunction([r \in Relays |-> late[r][e]])

(* Sent or failed in a pass that has not ended yet. *)
Trying(e) == {r \in Relays : e \in sent[r] \union failed[r] /\ e \in locked[r]}

(* A duplicate is always paid for: beyond the first copy, each one in the  *)
(* broker or still under way stems from an attempt that failed (and was    *)
(* counted in the attempts column) or from a pass that was lost.           *)
DuplicatesAccounted ==
  \A e \in Event :
    copies[e] + unrouted[e] + StillRunning(e)
      <= attempts[e] + aborts + Cardinality(Trying(e))

(* The outbox drains: every committed order's event is marked published,   *)
(* although a failed row stops its batch and its relay may die.            *)
EveryEventPublished ==
  \A e \in Event : row[e] = "pending" ~> Marked(e)

(* publisher.ts counts on mandatory and basic.return to tell the relay     *)
(* that no queue took the message; so a marked row would have a copy in    *)
(* the order-placed queue.                                                 *)
MarkedReachedQueue ==
  \A e \in Event : Marked(e) => copies[e] >= 1
=============================================================================
