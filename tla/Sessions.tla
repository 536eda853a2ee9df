------------------------------- MODULE Sessions -------------------------------
(***************************************************************************)
(* One session of sessions/session-store.ts: a key in Redis with an idle   *)
(* lifetime that every use renews, and an absolute age the store checks    *)
(* after it has renewed; the requests are those of sessionMiddleware.      *)
(* Time is kept as the age of the session and what is left of its idle     *)
(* lifetime, so it needs no bound.                                         *)
(***************************************************************************)
EXTENDS Integers

CONSTANTS Visitor,                \* each has one request in flight
          IdleTtl, AbsoluteTtl,   \* ttlSec, absoluteTtlSec
          MaxErrors               \* bound: commands that fail

VARIABLES stored,    \* the key is in Redis
          age,       \* now - createdAt, up to the first value that is too old
          left,      \* the key's TTL
          visit,     \* visit[v]: "none", "check" (GETEX has answered), "served"
          errors,
          issued,    \* the session has been created
          ended      \* it was destroyed, expired or deleted as too old (history)

vars == <<stored, age, left, visit, errors, issued, ended>>

Await(v, l) == visit' = [visit EXCEPT ![v] = l]
TooOld == age > AbsoluteTtl
Delete == stored' = FALSE /\ left' = 0 /\ ended' = TRUE

-----------------------------------------------------------------------------
(* startSession: SET EX. *)
Create ==
  /\ ~issued
  /\ issued' = TRUE
  /\ stored' = TRUE /\ left' = IdleTtl
  /\ UNCHANGED <<age, visit, errors, ended>>

(* GETEX reads and renews in one command; it may fail after it has run.     *)
Renew(v) ==
  /\ visit[v] = "none"
  /\ stored
  /\ left' = IdleTtl
  /\ \/ Await(v, "check") /\ UNCHANGED errors
     \/ errors < MaxErrors /\ errors' = errors + 1 /\ UNCHANGED visit
  /\ UNCHANGED <<stored, age, issued, ended>>

(* Mutant: GET before, SET EX now. *)
ServeAndSet(v) ==
  /\ visit[v] = "check" /\ ~TooOld
  /\ Await(v, "served")
  /\ stored' = TRUE /\ left' = IdleTtl
  /\ UNCHANGED <<age, errors, issued, ended>>

(* Young enough: the request has its session. *)
Serve(v) ==
  /\ visit[v] = "check" /\ ~TooOld
  /\ Await(v, "served")
  /\ UNCHANGED <<stored, age, left, errors, issued, ended>>

(* Mutant: the age is not looked at. *)
KeepOld(v) ==
  /\ visit[v] = "check" /\ TooOld
  /\ Await(v, "served")
  /\ UNCHANGED <<stored, age, left, errors, issued, ended>>

(* Older than absoluteTtlSec: DEL, and no session.  When DEL fails before   *)
(* it has run, the request fails and the key it has just renewed stays.     *)
RejectOld(v) ==
  /\ visit[v] = "check" /\ TooOld
  /\ Await(v, "none")
  /\ \/ Delete /\ UNCHANGED errors
     \/ /\ errors < MaxErrors
        /\ errors' = errors + 1
        /\ UNCHANGED <<stored, left, ended>>
  /\ UNCHANGED <<age, issued>>

EndVisit(v) ==
  /\ visit[v] = "served"
  /\ Await(v, "none")
  /\ UNCHANGED <<stored, age, left, errors, issued, ended>>

Destroy ==
  /\ stored
  /\ Delete
  /\ UNCHANGED <<age, visit, errors, issued>>

(* A second passes; Redis removes the key when its TTL is over. *)
TickSession ==
  /\ issued
  /\ age' = IF TooOld THEN age ELSE age + 1
  /\ IF stored /\ left = 1 THEN Delete
     ELSE left' = (IF stored THEN left - 1 ELSE 0) /\ UNCHANGED <<stored, ended>>
  /\ UNCHANGED <<visit, errors, issued>>

-----------------------------------------------------------------------------
Init ==
  /\ stored = FALSE /\ age = 0 /\ left = 0
  /\ visit = [v \in Visitor |-> "none"]
  /\ errors = 0
  /\ issued = FALSE /\ ended = FALSE

Next ==
  \/ Create \/ Destroy \/ TickSession
  \/ \E v \in Visitor : Renew(v) \/ Serve(v) \/ RejectOld(v) \/ EndVisit(v)

Spec == Init /\ [][Next]_vars

(* Time passes and requests go on.  Destroy is the user's choice. *)
Fairness ==
  /\ WF_vars(TickSession)
  /\ \A v \in Visitor : WF_vars(Serve(v) \/ RejectOld(v) \/ EndVisit(v))

-----------------------------------------------------------------------------
(* A session that was destroyed, has expired or was deleted as too old is not*)
(* revived by a request that was renewing it at that moment.                *)
EndedStaysEnded == ended => ~stored

(* Steady use renews the key before its age is looked at, and still does    *)
(* not carry the session past its absolute age for good.                    *)
EverySessionEnds == []<>~stored
=============================================================================
