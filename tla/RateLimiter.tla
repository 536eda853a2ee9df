----------------------------- MODULE RateLimiter ------------------------------
(***************************************************************************)
(* The sliding window of ratelimit/sliding-window-limiter.ts for one id:   *)
(* the sorted set the Lua script keeps in Redis, and its two users, the    *)
(* guard of POST /orders, which lets requests pass when Redis fails, and   *)
(* the login throttle, which refuses them.                                 *)
(*                                                                         *)
(* The clock is Redis' (TIME) and counts parts of a second.                *)
(***************************************************************************)
EXTENDS Integers, Sequences, Selection

CONSTANTS Limit, Window,  \* limit; windowMs, in ticks
          PerSecond,      \* ticks per second
          MaxClock,       \* bound: the clock
          MaxOutages      \* bound: failed commands, losses of the key

VARIABLES clock,
          failOpen,    \* whose limiter this is: orders (TRUE) or login (FALSE)
          zset,        \* scores of the sorted set, oldest first
          keyEnds,     \* when PEXPIRE removes the key
          outages,
          granted,     \* when requests were let through (history)
          unchecked,   \* those of them let through by failOpen (history)
          advice       \* when the last refused client may come back, 0: none

vars == <<clock, failOpen, zset, keyEnds, outages, granted, unchecked, advice>>

-----------------------------------------------------------------------------
Since(times, start) == Selected(times, {k \in DOMAIN times : times[k] > start})
Within(times) == Since(times, clock - Window)

CeilingOf(ticks) == (ticks + PerSecond - 1) \div PerSecond
Seconds(ticks) == IF CeilingOf(ticks) < 1 THEN 1 ELSE CeilingOf(ticks)

(* Mutant: the life of the key is set with its first entry only. *)
RecordOnce ==
  /\ Len(Within(zset)) < Limit
  /\ zset' = Append(Within(zset), clock)
  /\ keyEnds' = IF zset = <<>> THEN clock + Window ELSE keyEnds

(* The script below the limit: ZREMRANGEBYSCORE, ZADD, PEXPIRE. *)
Record ==
  /\ Len(Within(zset)) < Limit
  /\ zset' = Append(Within(zset), clock)
  /\ keyEnds' = clock + Window

(* Mutant: a refused request is recorded as well, in place of the oldest.   *)
TurnAwayAndRecord ==
  /\ Len(Within(zset)) >= Limit
  /\ zset' = Append(Tail(Within(zset)), clock)
  /\ keyEnds' = clock + Window

(* The script at the limit: only the outdated entries go. *)
TurnAway ==
  /\ Len(Within(zset)) >= Limit
  /\ zset' = Within(zset)
  /\ UNCHANGED keyEnds

(* consume: the request goes on. *)
Grant ==
  /\ Record
  /\ granted' = Append(granted, clock)
  /\ advice' = 0
  /\ UNCHANGED <<clock, failOpen, outages, unchecked>>

(* consume: 429 with Retry-After, in whole seconds and at least one. *)
Refuse ==
  /\ TurnAway
  /\ advice' = clock + Seconds(Head(Within(zset)) + Window - clock) * PerSecond
  /\ UNCHANGED <<clock, failOpen, outages, granted, unchecked>>

(* The command fails, executed or not. *)
Failing ==
  /\ outages < MaxOutages
  /\ outages' = outages + 1
  /\ UNCHANGED <<clock, failOpen>>

(* consume of the orders' limiter: the request goes on unchecked. *)
FailOpen ==
  /\ failOpen /\ Failing
  /\ Record \/ UNCHANGED <<zset, keyEnds>>
  /\ granted' = Append(granted, clock)
  /\ unchecked' = Append(unchecked, clock)
  /\ advice' = 0

(* The login throttle: 503, and the attempt may have been counted. *)
FailClosed ==
  /\ ~failOpen /\ Failing
  /\ \/ Record /\ advice' = 0
     \/ UNCHANGED <<zset, keyEnds, advice>>
  /\ UNCHANGED <<granted, unchecked>>

(* Eviction, or a restart of Redis that loses the key. *)
Lose ==
  /\ outages < MaxOutages /\ zset # <<>>
  /\ outages' = outages + 1
  /\ zset' = <<>> /\ keyEnds' = 0
  /\ granted' = <<>> /\ unchecked' = <<>> /\ advice' = 0
  /\ UNCHANGED <<clock, failOpen>>

(* Time passes; what no window can reach any more is forgotten. *)
TickLimiter ==
  /\ clock < MaxClock
  /\ clock' = clock + 1
  /\ IF clock' >= keyEnds THEN zset' = <<>> /\ keyEnds' = 0 ELSE UNCHANGED <<zset, keyEnds>>
  /\ granted' = Since(granted, clock' - Window)
  /\ unchecked' = Since(unchecked, clock' - Window)
  /\ UNCHANGED <<failOpen, outages, advice>>

-----------------------------------------------------------------------------
Init ==
  /\ clock = 0
  /\ failOpen \in BOOLEAN
  /\ zset = <<>> /\ keyEnds = 0
  /\ outages = 0
  /\ granted = <<>> /\ unchecked = <<>>
  /\ advice = 0

Next == Grant \/ Refuse \/ FailOpen \/ FailClosed \/ Lose \/ TickLimiter

Spec == Init /\ [][Next]_vars

-----------------------------------------------------------------------------
(* In no window, wherever it begins, more requests are let through than the *)
(* limit, except the ones that pass unchecked because Redis failed; the     *)
(* login throttle has no such exception.  A loss of the key starts the      *)
(* count again.                                                             *)
SlidingLimit == Len(granted) <= Limit + IF failOpen THEN Len(unchecked) ELSE 0

(* Retry-After is honest: a client that waits as told finds room, however   *)
(* many others were refused meanwhile, unless someone took it before.       *)
RetryAfterIsHonest == advice # 0 /\ clock >= advice => Len(Within(zset)) < Limit
=============================================================================
