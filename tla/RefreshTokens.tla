---------------------------- MODULE RefreshTokens ----------------------------
(***************************************************************************)
(* Sessions: login, rotation of refresh tokens with reuse detection, and   *)
(* logout (auth/refresh-token.service.ts, auth/auth.service.ts,            *)
(* auth/access-denylist.ts).  Requests run concurrently in READ COMMITTED  *)
(* transactions.  A statement sees the rows committed when it starts; an   *)
(* UPDATE that meets a locked row waits, then evaluates its WHERE on that  *)
(* row again, but never looks for rows that were not there at its start.   *)
(*                                                                         *)
(* Tokens are numbered in the order they are issued.  A pair has a refresh *)
(* token and an access token: the number stands for both.                  *)
(***************************************************************************)
EXTENDS Integers, FiniteSets

CONSTANTS Req,          \* requests that can be in flight at once
          NoReq,
          Family,       \* family ids randomUUID may give to logins
          NoFamily,
          MaxToken,     \* bound: tokens issued
          MaxTime,      \* bound: the clock, in units longer than an access token lives
          RefreshTtl,   \* REFRESH_TTL_SEC
          AbsoluteTtl   \* REFRESH_ABSOLUTE_TTL_SEC

ASSUME RefreshAssumption == /\ NoReq \notin Req
                            /\ NoFamily \notin Family
                            /\ MaxToken \in Nat \ {0} /\ MaxTime \in Nat
                            /\ RefreshTtl \in Nat /\ AbsoluteTtl \in Nat
                            /\ RefreshTtl <= AbsoluteTtl

Token == 1 .. MaxToken

VARIABLES next,      \* tokens issued so far
          family,    \* family[t]: family_id of t's row, NoFamily: no row
          expires,   \* expires[t]: expires_at
          started,   \* started[t]: family_started_at
          used,      \* rows with used_at set
          revoked,   \* rows with revoked_at set
          lock,      \* lock[t]: transaction holding t's row
          pc,        \* pc[r]: where request r stands
          tok,       \* tok[r]: the token (or, for a logout, the pair) presented
          at,        \* at[r]: now() of r's transaction
          scan,      \* scan[r]: rows r's UPDATE found and has not visited
          marked,    \* marked[r]: rows it has updated, uncommitted
          now,       \* the clock
          fresh,     \* pairs whose access token has not expired
          denyJti, denyFam,  \* the denylist in Redis
          closed     \* families whose revocation was carried out (history)

rows == <<next, family, expires, started, used, revoked>>
requests == <<pc, tok, at, scan, marked>>
access == <<now, fresh, denyJti, denyFam>>
vars == <<rows, lock, requests, access, closed>>

-----------------------------------------------------------------------------
Issued(t) == family[t] # NoFamily
Rows(f) == {t \in Token : family[t] = f}
FamilyOf(r) == family[tok[r]]
Live(t) == Issued(t) /\ t \notin used /\ t \notin revoked
Least(a, b) == IF a <= b THEN a ELSE b

Goto(r, l) == pc' = [pc EXCEPT ![r] = l]

(* Request r is answered; its local variables are gone. *)
Answer(r) ==
  /\ Goto(r, "idle")
  /\ tok' = [tok EXCEPT ![r] = 1]
  /\ at' = [at EXCEPT ![r] = 0]
  /\ scan' = [scan EXCEPT ![r] = {}]
  /\ marked' = [marked EXCEPT ![r] = {}]

Unlock(r) == lock' = [t \in Token |-> IF lock[t] = r THEN NoReq ELSE lock[t]]

(* INSERT INTO refresh_tokens; the pair's access token is signed with it. *)
Insert(f, expiry, start) ==
  /\ next < MaxToken
  /\ next' = next + 1
  /\ family' = [family EXCEPT ![next + 1] = f]
  /\ expires' = [expires EXCEPT ![next + 1] = expiry]
  /\ started' = [started EXCEPT ![next + 1] = start]
  /\ fresh' = fresh \union {next + 1}

-----------------------------------------------------------------------------
(* login with a good password: issue opens a family. *)
Login ==
  /\ \E f \in Family : Rows(f) = {} /\ Insert(f, now + RefreshTtl, now)
  /\ UNCHANGED <<used, revoked, lock, requests, now, denyJti, denyFam, closed>>

(* POST /auth/refresh with any token, one that was never issued included. *)
Refresh(r) ==
  /\ pc[r] = "idle"
  /\ \E t \in Token : tok' = [tok EXCEPT ![r] = t]
  /\ at' = [at EXCEPT ![r] = now]
  /\ Goto(r, "select")
  /\ UNCHANGED <<rows, lock, scan, marked, access, closed>>

(* SELECT ... FOR UPDATE and the early returns of rotate: unknown, revoked  *)
(* and expired tokens end the transaction, a used one is a reuse.           *)
Examine(r) ==
  LET t == tok[r] IN
  \/ /\ ~Issued(t) \/ t \in revoked \/ (t \notin used /\ expires[t] <= at[r])
     /\ Answer(r)
     /\ UNCHANGED lock
  \/ /\ Issued(t) /\ t \notin revoked
     /\ t \in used \/ expires[t] > at[r]
     /\ lock' = [lock EXCEPT ![t] = r]
     /\ Goto(r, IF t \in used THEN "reuse" ELSE "rotating")
     /\ UNCHANGED <<tok, at, scan, marked>>

(* Mutant: a plain SELECT: the row is read without waiting for its lock. *)
SelectPlain(r) ==
  /\ pc[r] = "select"
  /\ Examine(r)
  /\ UNCHANGED <<rows, access, closed>>

SelectForUpdate(r) ==
  /\ pc[r] = "select"
  /\ lock[tok[r]] = NoReq
  /\ Examine(r)
  /\ UNCHANGED <<rows, access, closed>>

(* UPDATE used_at, INSERT of the successor, COMMIT. *)
Rotate(r, expiry) ==
  /\ pc[r] = "rotating"
  /\ Insert(FamilyOf(r), expiry, started[tok[r]])
  /\ used' = used \union {tok[r]}
  /\ Unlock(r)
  /\ Answer(r)
  /\ UNCHANGED <<revoked, now, denyJti, denyFam, closed>>

(* Mutant: every rotation prolongs the session. *)
RotateIdleOnly(r) == Rotate(r, at[r] + RefreshTtl)

CommitRotation(r) ==
  Rotate(r, Least(at[r] + RefreshTtl, started[tok[r]] + AbsoluteTtl))

-----------------------------------------------------------------------------
(* POST /auth/logout with an access token the guard lets through. *)
Logout(r) ==
  /\ pc[r] = "idle"
  /\ \E t \in fresh :
       /\ t \notin denyJti /\ family[t] \notin denyFam
       /\ tok' = [tok EXCEPT ![r] = t]
  /\ Goto(r, "logout")
  /\ UNCHANGED <<rows, lock, at, scan, marked, access, closed>>

(* revokeFamily: UPDATE ... WHERE family_id = f AND revoked_at IS NULL.     *)
(* The statement starts: these are the rows it will ever visit.             *)
StartRevoke(r) ==
  /\ pc[r] \in {"reuse", "logout"}
  /\ scan' = [scan EXCEPT ![r] = Rows(FamilyOf(r)) \ revoked]
  /\ marked' = [marked EXCEPT ![r] = {}]
  /\ Goto(r, IF pc[r] = "reuse" THEN "revoking reuse" ELSE "revoking logout")
  /\ UNCHANGED <<rows, lock, tok, at, access, closed>>

Revoking(r) == pc[r] \in {"revoking reuse", "revoking logout"}

(* It visits a row, in any order, once the row's lock is free or its own,   *)
(* and skips it when someone else revoked it meanwhile.                     *)
RevokeRow(r) ==
  /\ Revoking(r)
  /\ \E t \in scan[r] :
       /\ lock[t] \in {NoReq, r}
       /\ scan' = [scan EXCEPT ![r] = @ \ {t}]
       /\ \/ t \in revoked /\ UNCHANGED <<lock, marked>>
          \/ /\ t \notin revoked
             /\ lock' = [lock EXCEPT ![t] = r]
             /\ marked' = [marked EXCEPT ![r] = @ \union {t}]
  /\ UNCHANGED <<rows, pc, tok, at, access, closed>>

(* Mutant: an UPDATE that forgets to end its transaction. *)
CommitRevokeKeepingLocks(r) ==
  /\ Revoking(r) /\ scan[r] = {}
  /\ revoked' = revoked \union marked[r]
  /\ closed' = closed \union {FamilyOf(r)}
  /\ UNCHANGED lock
  /\ Goto(r, IF pc[r] = "revoking reuse" THEN "deny family" ELSE "deny access")
  /\ marked' = [marked EXCEPT ![r] = {}]
  /\ UNCHANGED <<next, family, expires, started, used, tok, at, scan, access>>

(* COMMIT, of rotate's transaction or of the logout's single statement. *)
CommitRevoke(r) ==
  /\ Revoking(r) /\ scan[r] = {}
  /\ revoked' = revoked \union marked[r]
  /\ closed' = closed \union {FamilyOf(r)}
  /\ Unlock(r)
  /\ Goto(r, IF pc[r] = "revoking reuse" THEN "deny family" ELSE "deny access")
  /\ marked' = [marked EXCEPT ![r] = {}]
  /\ UNCHANGED <<next, family, expires, started, used, tok, at, scan, access>>

(* The family goes into the denylist after a reuse, best effort, then 401;  *)
(* the access token after a logout, 204, or 503 when Redis fails.           *)
Deny(r) ==
  /\ \/ /\ pc[r] = "deny family"
        /\ denyFam' = denyFam \union {FamilyOf(r)}
        /\ UNCHANGED denyJti
     \/ /\ pc[r] = "deny access"
        /\ denyJti' = denyJti \union ({tok[r]} \intersect fresh)
        /\ UNCHANGED denyFam
     \/ /\ pc[r] \in {"deny family", "deny access"}
        /\ UNCHANGED <<denyFam, denyJti>>
  /\ Answer(r)
  /\ UNCHANGED <<rows, lock, now, fresh, closed>>

-----------------------------------------------------------------------------
RollBack(r) ==
  /\ Unlock(r)
  /\ Answer(r)
  /\ UNCHANGED <<rows, access, closed>>

(* A statement fails or the process dies: the transaction rolls back. *)
Abort(r) ==
  /\ pc[r] \in {"select", "rotating", "reuse", "logout"} \/ Revoking(r)
  /\ RollBack(r)

(* Two revocations of one family can wait for each other's rows.  A set D   *)
(* of requests is deadlocked when each waits only for members of D;         *)
(* PostgreSQL then rolls one of them back.                                  *)
Waiting(r) == Revoking(r) /\ scan[r] # {} /\ \A t \in scan[r] : lock[t] \notin {NoReq, r}

Deadlocked(D) == \A q \in D : Waiting(q) /\ \A t \in scan[q] : lock[t] \in D

ResolveDeadlock ==
  \E D \in SUBSET Req : D # {} /\ Deadlocked(D) /\ \E r \in D : RollBack(r)

(* Time passes: access tokens and denylist entries live less than a unit. *)
Tick ==
  /\ now < MaxTime
  /\ now' = now + 1
  /\ fresh' = {}
  /\ denyJti' = {}
  /\ denyFam' = {}
  /\ UNCHANGED <<rows, lock, requests, closed>>

-----------------------------------------------------------------------------
Init ==
  /\ next = 0
  /\ family = [t \in Token |-> NoFamily]
  /\ expires = [t \in Token |-> 0]
  /\ started = [t \in Token |-> 0]
  /\ used = {}
  /\ revoked = {}
  /\ lock = [t \in Token |-> NoReq]
  /\ pc = [r \in Req |-> "idle"]
  /\ tok = [r \in Req |-> 1]
  /\ at = [r \in Req |-> 0]
  /\ scan = [r \in Req |-> {}]
  /\ marked = [r \in Req |-> {}]
  /\ now = 0
  /\ fresh = {}
  /\ denyJti = {}
  /\ denyFam = {}
  /\ closed = {}

(* What the program itself carries on with once a request has arrived. *)
Proceed(r) ==
  \/ SelectForUpdate(r)
  \/ CommitRotation(r)
  \/ StartRevoke(r)
  \/ RevokeRow(r)
  \/ CommitRevoke(r)
  \/ Deny(r)

Next ==
  \/ Login
  \/ \E r \in Req : Refresh(r) \/ Logout(r) \/ Proceed(r) \/ Abort(r)
  \/ ResolveDeadlock
  \/ Tick

Spec == Init /\ [][Next]_vars

(* PostgreSQL serves a waiting row lock when it comes free (strong          *)
(* fairness: others may take it in between), notices deadlocks, and every   *)
(* handler runs on.  At the bound MaxToken a rotation can only abort.       *)
FairSpec ==
  /\ Spec
  /\ \A r \in Req : SF_vars(Proceed(r))
  /\ WF_vars(ResolveDeadlock)
  /\ \A r \in Req : WF_vars(pc[r] = "rotating" /\ next = MaxToken /\ Abort(r))

-----------------------------------------------------------------------------
PcLabels == {"idle", "select", "rotating", "reuse", "logout", "revoking reuse",
             "revoking logout", "deny family", "deny access"}

(* The state is of the shape the refresh_tokens table and the handlers give *)
(* it.                                                                      *)
TypeOK ==
  /\ next \in 0 .. MaxToken
  /\ family \in [Token -> Family \union {NoFamily}]
  /\ expires \in [Token -> Nat]
  /\ started \in [Token -> Nat]
  /\ used \subseteq Token
  /\ revoked \subseteq Token
  /\ lock \in [Token -> Req \union {NoReq}]
  /\ pc \in [Req -> PcLabels]
  /\ tok \in [Req -> Token]
  /\ at \in [Req -> Nat]
  /\ scan \in [Req -> SUBSET Token]
  /\ marked \in [Req -> SUBSET Token]
  /\ now \in Nat
  /\ fresh \subseteq Token
  /\ denyJti \subseteq Token
  /\ denyFam \subseteq Family
  /\ closed \subseteq Family

(* Rotation keeps a family a chain: however many refreshes, reuses and      *)
(* logouts overlap, a family never has two unused tokens, so a stolen token *)
(* cannot be kept alive beside its owner's.                                 *)
OneUnusedPerFamily ==
  \A t, u \in Token :
    Issued(t) /\ family[t] = family[u] /\ t \notin used /\ u \notin used => t = u

(* LEAST(now + 7d, family start + 30d): no token of a family outlives the   *)
(* family's absolute limit, through any number of rotations.                *)
AbsoluteLimit ==
  \A t, u \in Token :
    Issued(t) /\ family[t] = family[u]
      => started[t] = started[u] /\ expires[t] <= started[u] + AbsoluteTtl

(* A family all of whose tokens are revoked stays so: no rotation that read *)
(* a token before the revocation can still add a successor after it.        *)
RevokedStaysRevoked ==
  [][\A f \in Family :
       Rows(f) # {} /\ Rows(f) \subseteq revoked => Rows(f)' \subseteq revoked']_vars

(* Requests that wait for each other's rows do not wait forever: every      *)
(* refresh and logout is answered.                                          *)
EveryRequestEnds == \A r \in Req : pc[r] # "idle" ~> pc[r] = "idle"

(* README: a reuse revokes the whole family, and after a logout no new pair *)
(* can be had; so a family whose revocation has committed has no live token.*)
ClosedFamilyIsDead ==
  \A t \in Token : family[t] \in closed => ~Live(t)
=============================================================================
