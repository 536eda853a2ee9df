----------------------------- MODULE ProductCard -----------------------------
(***************************************************************************)
(* One product card: the value computed in PostgreSQL, its copy in Redis,  *)
(* and the lock that lets one of many readers recompute it                 *)
(* (products/product-card.service.ts, cache/redis-cache.ts,                *)
(* cache/redis-lock.ts).  The card is the number of changes it reflects.   *)
(* Cards do not share state, so one is enough.                             *)
(*                                                                         *)
(* Modelled with Redis configured and single flight on; without Redis      *)
(* getCard is loadCard.                                                    *)
(***************************************************************************)
EXTENDS Integers, FiniteSets

CONSTANTS Req,         \* readers: getCard calls in flight
          NoReq,
          MaxVersion,  \* bound: changes of the product's sales and stock
          MaxFaults    \* bound: failed commands and queries, deaths

NoCard == -1

VARIABLES db,       \* what loadCard would return now
          card,     \* the value under cardKey, or NoCard
          late,     \* values of SET commands abandoned by commandTimeout
          lock,     \* whose token is under cardLockKey
          pc,       \* pc[r]: where getCard of r stands
          leading,  \* readers that hold a token of their own
          got,      \* got[r]: the card r has loaded
          pending,  \* committed orders whose DEL has not been sent yet
          faults,   \* faults so far
          escaped,  \* changes not covered by a clean invalidation (history)
          excuses   \* 1 + reasons to load so far - loads so far (history)

readers == <<pc, leading, got>>
vars == <<db, card, late, lock, readers, pending, faults, escaped, excuses>>

-----------------------------------------------------------------------------
Goto(r, l) == pc' = [pc EXCEPT ![r] = l]

Fault == faults < MaxFaults /\ faults' = faults + 1
NoFault == UNCHANGED faults
(* Unused excuses do not pile up: no more are needed than readers, plus one. *)
MaxExcuses == Cardinality(Req) + 1
Excuse == excuses' = IF excuses < MaxExcuses THEN excuses + 1 ELSE excuses
NoExcuse == UNCHANGED excuses

(* Values read from the database that may still be stored in the cache. *)
InFlight == {got[r] : r \in {q \in Req : pc[q] = "store"}} \union late

Answer(r) ==
  /\ Goto(r, "idle")
  /\ leading' = leading \ {r}
  /\ got' = [got EXCEPT ![r] = 0]

(* Leaving the try block of loadOnMiss: a leader still has to release. *)
Leave(r) ==
  IF r \in leading
  THEN Goto(r, "release") /\ got' = [got EXCEPT ![r] = 0] /\ UNCHANGED leading
  ELSE Answer(r)

(* RedisCache.get: an error is a miss. *)
Lookup(r, hit, miss) ==
  /\ UNCHANGED <<db, card, late, lock, pending, escaped>>
  /\ \/ card # NoCard /\ hit /\ NoFault
     \/ card = NoCard /\ miss /\ NoFault
     \/ card # NoCard /\ miss /\ Fault

Await(r, l) == Goto(r, l) /\ UNCHANGED <<leading, got>>

-----------------------------------------------------------------------------
(* getCard; a hit is answered at once. *)
GetCard(r) ==
  /\ pc[r] = "idle"
  /\ Lookup(r, Answer(r), Await(r, "acquire"))
  /\ NoExcuse

(* SET NX PX.  A failed command may have taken the lock all the same. *)
Acquire(r) ==
  /\ pc[r] = "acquire"
  /\ \/ /\ lock = NoReq
        /\ lock' = r
        /\ Goto(r, "recheck")
        /\ leading' = leading \union {r}
        /\ UNCHANGED got
        /\ NoFault /\ NoExcuse
     \/ lock # NoReq /\ Await(r, "poll") /\ UNCHANGED lock /\ NoFault /\ NoExcuse
     \/ /\ Fault /\ Excuse
        /\ Await(r, "load")
        /\ lock' \in {lock, IF lock = NoReq THEN r ELSE lock}
  /\ UNCHANGED <<db, card, late, pending, escaped>>

(* Mutant: the leader trusts the miss it saw before it had the lock. *)
RecheckNothing(r) ==
  /\ pc[r] = "recheck"
  /\ Await(r, "load")
  /\ UNCHANGED <<db, card, late, lock, pending, faults, escaped, excuses>>

Recheck(r) ==
  /\ pc[r] = "recheck"
  /\ Lookup(r, Leave(r), Await(r, "load"))
  /\ IF pc'[r] = "load" /\ card # NoCard THEN Excuse ELSE NoExcuse

(* After the sleep between two attempts. *)
Poll(r) ==
  /\ pc[r] = "poll"
  /\ Lookup(r, Answer(r), Await(r, "acquire"))
  /\ NoExcuse

(* Mutant: while (true): the waiting has no budget. *)
WaitForever(r) == FALSE

(* LOCK_WAIT_BUDGET_MS is over. *)
GiveUp(r) ==
  /\ pc[r] = "acquire"
  /\ Await(r, "load")
  /\ Excuse
  /\ UNCHANGED <<db, card, late, lock, pending, faults, escaped>>

(* loadCard, one statement; it may throw. *)
Load(r) ==
  /\ pc[r] = "load"
  /\ \/ /\ Goto(r, "store") /\ got' = [got EXCEPT ![r] = db] /\ UNCHANGED leading
        /\ excuses' = excuses - 1 /\ NoFault
     \/ Leave(r) /\ Fault /\ NoExcuse
  /\ UNCHANGED <<db, card, late, lock, pending, escaped>>

(* RedisCache.set swallows errors; a timed-out SET may be executed later. *)
Store(r) ==
  /\ pc[r] = "store"
  /\ \/ card' = got[r] /\ UNCHANGED late /\ NoFault /\ NoExcuse
     \/ UNCHANGED card /\ late' \in {late, late \union {got[r]}} /\ Fault /\ Excuse
  /\ Leave(r)
  /\ UNCHANGED <<db, lock, pending, escaped>>

(* Mutant: a bare DEL of the lock key. *)
ReleaseAny(r) ==
  /\ pc[r] = "release"
  /\ lock' = NoReq
  /\ Answer(r)
  /\ UNCHANGED <<db, card, late, pending, faults, escaped, excuses>>

(* Compare and delete; an error leaves the lock to its TTL. *)
Release(r) ==
  /\ pc[r] = "release"
  /\ \/ lock' = (IF lock = r THEN NoReq ELSE lock) /\ NoFault
     \/ lock = r /\ UNCHANGED lock /\ Fault
  /\ Answer(r)
  /\ UNCHANGED <<db, card, late, pending, escaped, excuses>>

(* The process of r dies. *)
Die(r) ==
  /\ pc[r] # "idle"
  /\ Fault /\ Excuse
  /\ Answer(r)
  /\ UNCHANGED <<db, card, late, lock, pending, escaped>>

-----------------------------------------------------------------------------
(* An order is committed; its handler goes on to invalidateCards. *)
CommitOrder ==
  /\ db < MaxVersion
  /\ db' = db + 1
  /\ pending' = pending + 1
  /\ escaped' = escaped \union {db + 1}
  /\ UNCHANGED <<card, late, lock, readers, faults, excuses>>

(* A checkout, or a product created: nothing invalidates the card. *)
ChangeSilently ==
  /\ db < MaxVersion
  /\ db' = db + 1
  /\ escaped' = escaped \union {db + 1}
  /\ UNCHANGED <<card, late, lock, readers, pending, faults, excuses>>

(* Mutant: the DEL names the key of the lock. *)
InvalidateLock ==
  /\ pending > 0
  /\ pending' = pending - 1
  /\ lock' = NoReq
  /\ escaped' = {n \in 1 .. db : \E v \in InFlight : v < n}
  /\ UNCHANGED <<db, card, late, readers, faults, excuses>>

(* DEL cardKey, after COMMIT.  It is not sent when the process dies first,  *)
(* and an error is swallowed.                                               *)
Invalidate ==
  /\ pending > 0
  /\ pending' = pending - 1
  /\ \/ /\ card' = NoCard
        /\ escaped' = {n \in 1 .. db : \E v \in InFlight : v < n}
        /\ IF card # NoCard THEN Excuse ELSE NoExcuse
        /\ NoFault
     \/ UNCHANGED <<card, escaped>> /\ Fault /\ NoExcuse
  /\ UNCHANGED <<db, late, lock, readers>>

-----------------------------------------------------------------------------
StoreLate ==
  /\ \E v \in late : card' = v /\ late' = late \ {v}
  /\ UNCHANGED <<db, lock, readers, pending, faults, escaped, excuses>>

(* The card's TTL runs out, or allkeys-lru evicts it. *)
ExpireCard ==
  /\ card # NoCard
  /\ card' = NoCard
  /\ Excuse
  /\ UNCHANGED <<db, late, lock, readers, pending, faults, escaped>>

(* LOCK_TTL_MS runs out, whether its owner is done or not. *)
ExpireLock ==
  /\ lock # NoReq
  /\ lock' = NoReq
  /\ IF lock \in leading /\ pc[lock] # "release" THEN Excuse ELSE NoExcuse
  /\ UNCHANGED <<db, card, late, readers, pending, faults, escaped>>

-----------------------------------------------------------------------------
Init ==
  /\ db = 0
  /\ card = NoCard
  /\ late = {}
  /\ lock = NoReq
  /\ pc = [r \in Req |-> "idle"]
  /\ leading = {}
  /\ got = [r \in Req |-> 0]
  /\ pending = 0
  /\ faults = 0
  /\ escaped = {}
  /\ excuses = 1

Proceed(r) ==
  Acquire(r) \/ Recheck(r) \/ Poll(r) \/ Load(r) \/ Store(r) \/ Release(r)

Next ==
  \/ \E r \in Req : GetCard(r) \/ Proceed(r) \/ GiveUp(r) \/ Die(r)
  \/ CommitOrder \/ ChangeSilently \/ Invalidate
  \/ StoreLate \/ ExpireCard \/ ExpireLock

Spec == Init /\ [][Next]_vars

(* Every await of a handler ends (commandTimeout, the pool's timeouts); the *)
(* wait budget of a reader that keeps losing the lock runs out.             *)
Fairness == \A r \in Req : WF_vars(Proceed(r)) /\ SF_vars(GiveUp(r))

-----------------------------------------------------------------------------
(* A cached card lacks a change only if no clean invalidation covers it:    *)
(* its DEL is still to come, failed or died with its process, the change    *)
(* has none, or a reader that had loaded before the DEL stored after it.    *)
StaleHasCause == card # NoCard => card + 1 .. db \subseteq escaped

(* A lock is given up by its owner or by its TTL: a leader that comes back  *)
(* after its lock expired does not release the next leader's lock.          *)
ForeignLockSurvives ==
  [][\A r \in Req : lock = r /\ lock' # r => ExpireLock \/ pc[r] = "release"]_vars

(* Single flight: however many readers miss, the database is asked once,    *)
(* and once more per lost card, failed command or query, dead leader,       *)
(* overrun lock or exhausted wait budget.                                   *)
LoadsAccounted == excuses >= 0

(* Nobody hangs on the cache: every reader is answered, also when the       *)
(* leader dies, Redis fails and the lock is always taken.                   *)
EveryReaderAnswered == \A r \in Req : []<>(pc[r] = "idle")
=============================================================================
