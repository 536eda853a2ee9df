------------------------------ MODULE OrderTasks ------------------------------
(***************************************************************************)
(* The receipt job of one order in the BullMQ queue (queue/order-tasks.ts) *)
(* and the workers that run it (queue/order-tasks-worker.ts,               *)
(* queue/run-worker.ts).  The queue itself is BullMQ's: an id in use is    *)
(* not added again, a failed attempt is repeated after a backoff, a job    *)
(* whose worker stopped renewing its lock has stalled and is given to      *)
(* another one, finished jobs are removed when they are old enough.        *)
(***************************************************************************)
EXTENDS Integers

CONSTANTS Worker,
          NoWorker,
          Attempts,    \* RECEIPT_ATTEMPTS
          MaxStalled,  \* BullMQ's maxStalledCount, 1 unless configured
          MaxAdds      \* bound: calls of enqueueReceipt for the order

VARIABLES job,      \* "none", "waiting", "active", "delayed", "completed", "failed"
          owner,    \* whose lock an active job carries, or NoWorker
          tries,    \* failed attempts of the job
          stalls,   \* times it has stalled
          at,       \* at[w]: "idle", "handling" the job, "sent" its receipt
          adds,
          receipts, \* receipts sent (history)
          causes    \* jobs added, stalled runs of them (history)

vars == <<job, owner, tries, stalls, at, adds, receipts, causes>>

-----------------------------------------------------------------------------
(* Mutant: no jobId: every call makes a job of its own. *)
EnqueueAnother ==
  /\ adds < MaxAdds
  /\ adds' = adds + 1
  /\ job \in {"none", "completed", "failed"}
  /\ job' = "waiting" /\ tries' = 0 /\ stalls' = 0
  /\ causes' = IF job = "none" THEN causes + 1 ELSE causes
  /\ UNCHANGED <<owner, at, receipts>>

(* enqueueReceipt, for the first or a repeated delivery of the event.  A    *)
(* job of this id, finished or not, keeps the new one out.                  *)
EnqueueReceipt ==
  /\ adds < MaxAdds
  /\ adds' = adds + 1
  /\ IF job = "none"
     THEN job' = "waiting" /\ tries' = 0 /\ stalls' = 0 /\ causes' = causes + 1
     ELSE UNCHANGED <<job, tries, stalls, causes>>
  /\ UNCHANGED <<owner, at, receipts>>

(* A worker takes the job and its lock. *)
Take(w) ==
  /\ at[w] = "idle" /\ job = "waiting"
  /\ job' = "active" /\ owner' = w
  /\ at' = [at EXCEPT ![w] = "handling"]
  /\ UNCHANGED <<tries, stalls, adds, receipts, causes>>

SendReceipt(w) ==
  /\ at[w] = "handling"
  /\ at' = [at EXCEPT ![w] = "sent"]
  /\ receipts' = receipts + 1
  /\ UNCHANGED <<job, owner, tries, stalls, adds, causes>>

(* The handler is done.  A worker that has lost the lock changes nothing.   *)
Complete(w) ==
  /\ at[w] = "sent"
  /\ at' = [at EXCEPT ![w] = "idle"]
  /\ IF owner = w THEN job' = "completed" /\ owner' = NoWorker ELSE UNCHANGED <<job, owner>>
  /\ UNCHANGED <<tries, stalls, adds, receipts, causes>>

(* The handler throws: a backoff while attempts are left, else failed.      *)
FailAttempt(w) ==
  /\ at[w] = "handling"
  /\ at' = [at EXCEPT ![w] = "idle"]
  /\ IF owner = w
     THEN /\ tries' = tries + 1
          /\ job' = IF tries' < Attempts THEN "delayed" ELSE "failed"
          /\ owner' = NoWorker
     ELSE UNCHANGED <<job, owner, tries>>
  /\ UNCHANGED <<stalls, adds, receipts, causes>>

BackoffOver ==
  /\ job = "delayed"
  /\ job' = "waiting"
  /\ UNCHANGED <<owner, tries, stalls, at, adds, receipts, causes>>

(* The lock is not renewed any more: its worker is dead, or only slow.      *)
Stall ==
  /\ job = "active"
  /\ stalls' = stalls + 1
  /\ job' = IF stalls' > MaxStalled THEN "failed" ELSE "waiting"
  /\ owner' = NoWorker
  /\ causes' = causes + 1
  /\ UNCHANGED <<tries, at, adds, receipts>>

(* The process is killed; it starts again with nothing to do.  SIGTERM lets *)
(* it finish first.                                                         *)
Kill(w) ==
  /\ at[w] # "idle"
  /\ at' = [at EXCEPT ![w] = "idle"]
  /\ UNCHANGED <<job, owner, tries, stalls, adds, receipts, causes>>

(* COMPLETED_KEEP_SEC or FAILED_KEEP_SEC is over: the id is free again.     *)
Forget ==
  /\ job \in {"completed", "failed"}
  /\ job' = "none" /\ tries' = 0 /\ stalls' = 0
  /\ UNCHANGED <<owner, at, adds, receipts, causes>>

-----------------------------------------------------------------------------
Init ==
  /\ job = "none" /\ owner = NoWorker /\ tries = 0 /\ stalls = 0
  /\ at = [w \in Worker |-> "idle"]
  /\ adds = 0 /\ receipts = 0 /\ causes = 0

Run(w) == SendReceipt(w) \/ Complete(w) \/ FailAttempt(w)

Next ==
  \/ EnqueueReceipt \/ BackoffOver \/ Stall \/ Forget
  \/ \E w \in Worker : Take(w) \/ Run(w) \/ Kill(w)

Spec == Init /\ [][Next]_vars

-----------------------------------------------------------------------------
(* However often the event is delivered, a second receipt of an order has a *)
(* cause: the finished job had been removed when it was added once more, or *)
(* a run of it was given up as stalled.                                     *)
ReceiptHasCause == receipts <= causes
=============================================================================
