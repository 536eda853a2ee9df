------------------------ MODULE RefreshTokens_proofs -------------------------
(***************************************************************************)
(* Proofs about RefreshTokens, for any number of requests, families and    *)
(* tokens and for every lifetime.  A rotation checks its token in one step *)
(* and acts on it in another; what it relies on meanwhile is the row lock. *)
(* So the inductive invariant says who holds which lock, and that a        *)
(* revocation has locked what it is about to revoke.                       *)
(***************************************************************************)
EXTENDS RefreshTokens, TLAPS

(* Tokens are numbered without gaps. *)
RowsInOrder == \A t \in Token : Issued(t) <=> t <= next

(* What SELECT ... FOR UPDATE has found holds until COMMIT. *)
RotationHolds ==
  \A r \in Req : pc[r] = "rotating" =>
    /\ lock[tok[r]] = r
    /\ Issued(tok[r])
    /\ tok[r] \notin used
    /\ tok[r] \notin revoked

(* A row that a revocation has updated is locked by it. *)
MarkedLocked == \A r \in Req : \A t \in marked[r] : lock[t] = r

(* A request that goes on after its token was found belongs to an issued    *)
(* one, and access tokens are signed for issued ones only.                  *)
KnownTokens ==
  /\ \A r \in Req : pc[r] \notin {"idle", "select"} => Issued(tok[r])
  /\ \A t \in fresh : Issued(t)

(* Only a running revocation has updated rows. *)
OnlyRevokersMark == \A r \in Req : ~Revoking(r) => marked[r] = {}

RInv ==
  /\ TypeOK
  /\ RowsInOrder
  /\ RotationHolds
  /\ KnownTokens
  /\ MarkedLocked
  /\ OnlyRevokersMark
  /\ OneUnusedPerFamily
  /\ AbsoluteLimit

-----------------------------------------------------------------------------
(* Before the first login nothing is issued, locked or marked. *)
LEMMA RefreshInit == Init => RInv
  BY RefreshAssumption DEF Init, RInv, TypeOK, RowsInOrder, RotationHolds, KnownTokens,
     MarkedLocked, OnlyRevokersMark, OneUnusedPerFamily, AbsoluteLimit, Issued, Revoking, Token, PcLabels

(* An INSERT with a positive lifetime keeps the columns' types. *)
LEMMA InsertType ==
  ASSUME TypeOK, NEW f \in Family, NEW expiry \in Nat, NEW start \in Nat,
         Insert(f, expiry, start)
  PROVE  /\ next' = next + 1 /\ next + 1 \in Token /\ next' \in 0 .. MaxToken
         /\ family' = [family EXCEPT ![next + 1] = f]
         /\ family' \in [Token -> Family \union {NoFamily}]
         /\ expires' = [expires EXCEPT ![next + 1] = expiry]
         /\ expires' \in [Token -> Nat]
         /\ started' = [started EXCEPT ![next + 1] = start]
         /\ started' \in [Token -> Nat]
         /\ fresh' \subseteq Token
<1>1. next + 1 \in Token /\ next + 1 \in 0 .. MaxToken
  BY RefreshAssumption DEF TypeOK, Insert, Token
<1> QED  BY <1>1 DEF TypeOK, Insert

(* The expiry of a rotated token is a time within its family's limit. *)
LEMMA RotatedExpiry ==
  ASSUME TypeOK, NEW r \in Req
  PROVE  LET expiry == Least(at[r] + RefreshTtl, started[tok[r]] + AbsoluteTtl)
         IN  expiry \in Nat /\ expiry <= started[tok[r]] + AbsoluteTtl
<1>1. at[r] + RefreshTtl \in Nat /\ started[tok[r]] + AbsoluteTtl \in Nat
  BY RefreshAssumption DEF TypeOK
<1> QED  BY <1>1 DEF Least

(* The answer to a request and the end of its transaction keep the types. *)
LEMMA AnswerType ==
  ASSUME TypeOK, NEW r \in Req, Answer(r)
  PROVE  /\ pc' = [pc EXCEPT ![r] = "idle"]
         /\ pc' \in [Req -> PcLabels] /\ tok' \in [Req -> Token]
         /\ at' \in [Req -> Nat] /\ scan' \in [Req -> SUBSET Token]
         /\ marked' \in [Req -> SUBSET Token]
<1>1. 1 \in Token  BY RefreshAssumption DEF Token
<1> QED  BY <1>1 DEF TypeOK, Answer, Goto, PcLabels

(* Giving the locks of a transaction back keeps their type. *)
LEMMA UnlockType ==
  ASSUME TypeOK, NEW r \in Req, Unlock(r)
  PROVE  lock' \in [Token -> Req \union {NoReq}]
  BY DEF TypeOK, Unlock

(* The type invariant: every step of login, rotation, logout and revocation *)
(* keeps the tables and the handlers' state in shape.                       *)
LEMMA RefreshTypeStep ==
  ASSUME RInv, [Next]_vars PROVE TypeOK'
<1>0. TypeOK  BY DEF RInv
<1>1. ASSUME Login PROVE TypeOK'
  <2>1. PICK f \in Family : Insert(f, now + RefreshTtl, now)  BY <1>1 DEF Login
  <2>2. now \in Nat /\ now + RefreshTtl \in Nat  BY <1>0, RefreshAssumption DEF TypeOK
  <2> QED  BY <1>0, <1>1, <2>1, <2>2, InsertType DEF TypeOK, Login, requests
<1>2. ASSUME NEW r \in Req, Refresh(r) PROVE TypeOK'
  BY <1>0, <1>2 DEF TypeOK, Refresh, Goto, PcLabels, rows, access
<1>3. ASSUME NEW r \in Req, Logout(r) PROVE TypeOK'
  BY <1>0, <1>3 DEF TypeOK, Logout, Goto, PcLabels, rows, access
<1>4. ASSUME NEW r \in Req, SelectForUpdate(r) PROVE TypeOK'
  <2>1. CASE Answer(r) /\ UNCHANGED lock
    BY <1>0, <1>4, <2>1, AnswerType DEF TypeOK, SelectForUpdate, rows, access
  <2>2. CASE /\ lock' = [lock EXCEPT ![tok[r]] = r]
             /\ Goto(r, IF tok[r] \in used THEN "reuse" ELSE "rotating")
             /\ UNCHANGED <<tok, at, scan, marked>>
    BY <1>0, <1>4, <2>2 DEF TypeOK, SelectForUpdate, Goto, PcLabels, rows, access
  <2> QED  BY <1>4, <2>1, <2>2 DEF SelectForUpdate, Examine
<1>5. ASSUME NEW r \in Req, CommitRotation(r) PROVE TypeOK'
  <2> DEFINE expiry == Least(at[r] + RefreshTtl, started[tok[r]] + AbsoluteTtl)
  <2>1. Rotate(r, expiry)  BY <1>5 DEF CommitRotation
  <2>2. expiry \in Nat /\ started[tok[r]] \in Nat /\ FamilyOf(r) \in Family
    <3>1. Issued(tok[r])  BY <2>1 DEF Rotate, RInv, RotationHolds
    <3> QED  BY <1>0, <3>1, RotatedExpiry DEF TypeOK, FamilyOf, Issued
  <2>3. Insert(FamilyOf(r), expiry, started[tok[r]])  BY <2>1 DEF Rotate
  <2> HIDE DEF expiry
  <2> QED
    BY <1>0, <2>1, <2>2, <2>3, InsertType, AnswerType, UnlockType DEF TypeOK, Rotate
<1>6. ASSUME NEW r \in Req, StartRevoke(r) PROVE TypeOK'
  <2>1. Rows(FamilyOf(r)) \ revoked \subseteq Token  BY DEF Rows
  <2> QED  BY <1>0, <1>6, <2>1 DEF TypeOK, StartRevoke, Goto, PcLabels, rows, access
<1>7. ASSUME NEW r \in Req, RevokeRow(r) PROVE TypeOK'
  <2>1. scan[r] \subseteq Token  BY <1>0 DEF TypeOK
  <2> QED  BY <1>0, <1>7, <2>1 DEF TypeOK, RevokeRow, rows, access
<1>8. ASSUME NEW r \in Req, CommitRevoke(r) PROVE TypeOK'
  <2>1. FamilyOf(r) \in Family
    BY <1>0, <1>8 DEF RInv, KnownTokens, TypeOK, CommitRevoke, Revoking, FamilyOf, Issued
  <2>2. marked[r] \subseteq Token  BY <1>0 DEF TypeOK
  <2> QED
    BY <1>0, <1>8, <2>1, <2>2, UnlockType DEF TypeOK, CommitRevoke, Goto, PcLabels, access
<1>9. ASSUME NEW r \in Req, Deny(r) PROVE TypeOK'
  <2>1. FamilyOf(r) \in Family
    BY <1>0, <1>9 DEF RInv, KnownTokens, TypeOK, Deny, FamilyOf, Issued
  <2> QED  BY <1>0, <1>9, <2>1, AnswerType DEF TypeOK, Deny, rows
<1>10. ASSUME NEW r \in Req, RollBack(r) PROVE TypeOK'
  BY <1>0, <1>10, AnswerType, UnlockType DEF TypeOK, RollBack, rows, access
<1>11. ASSUME Tick PROVE TypeOK'
  BY <1>0, <1>11 DEF TypeOK, Tick, rows, requests
<1>12. ASSUME UNCHANGED vars PROVE TypeOK'
  BY <1>0, <1>12 DEF TypeOK, vars, rows, requests, access
<1> QED
  BY <1>1, <1>2, <1>3, <1>4, <1>5, <1>6, <1>7, <1>8, <1>9, <1>10, <1>11, <1>12
     DEF Next, Proceed, Abort, ResolveDeadlock

-----------------------------------------------------------------------------
(* A rotation's INSERT: the new token joins a family of used tokens, or a   *)
(* login's opens an empty one.                                              *)
LEMMA InsertKeepsRows ==
  ASSUME TypeOK, RowsInOrder, NEW f \in Family, NEW expiry \in Nat, NEW start \in Nat,
         Insert(f, expiry, start)
  PROVE  /\ RowsInOrder'
         /\ ~Issued(next + 1)
         /\ \A t \in Token : family'[t] = IF t = next + 1 THEN f ELSE family[t]
         /\ \A t \in Token : started'[t] = IF t = next + 1 THEN start ELSE started[t]
         /\ \A t \in Token : expires'[t] = IF t = next + 1 THEN expiry ELSE expires[t]
<1>1. /\ next' = next + 1 /\ next + 1 \in Token
      /\ \A t \in Token : family'[t] = IF t = next + 1 THEN f ELSE family[t]
      /\ \A t \in Token : started'[t] = IF t = next + 1 THEN start ELSE started[t]
      /\ \A t \in Token : expires'[t] = IF t = next + 1 THEN expiry ELSE expires[t]
  BY InsertType DEF TypeOK
<1>2. next \in Nat /\ f # NoFamily  BY RefreshAssumption DEF TypeOK
<1>3. \A t \in Token : t \in Nat  BY DEF Token
<1> QED  BY <1>1, <1>2, <1>3 DEF RowsInOrder, Issued

(* login: the new family has one token. *)
LEMMA LoginStep ==
  ASSUME RInv, Login PROVE RInv'
<1>0. TypeOK /\ RowsInOrder  BY DEF RInv
<1>1. PICK f \in Family : Rows(f) = {} /\ Insert(f, now + RefreshTtl, now)  BY DEF Login
<1> DEFINE n == next + 1
<1>2. now \in Nat /\ now + RefreshTtl \in Nat /\ now + RefreshTtl <= now + AbsoluteTtl
  BY <1>0, RefreshAssumption DEF TypeOK
<1>3. /\ RowsInOrder' /\ ~Issued(n)
      /\ \A t \in Token : family'[t] = IF t = n THEN f ELSE family[t]
      /\ \A t \in Token : started'[t] = IF t = n THEN now ELSE started[t]
      /\ \A t \in Token : expires'[t] = IF t = n THEN now + RefreshTtl ELSE expires[t]
  BY <1>0, <1>1, <1>2, InsertKeepsRows
<1>4. n \in Token /\ f # NoFamily /\ fresh' = fresh \union {n}
  BY <1>0, <1>1, <1>2, InsertType, RefreshAssumption DEF Insert
<1>5. UNCHANGED <<used, revoked, lock, pc, tok, at, scan, marked>>  BY DEF Login, requests
<1> HIDE DEF n
<1>6. TypeOK'  BY RefreshTypeStep DEF Next
<1>7. \A r \in Req : tok[r] \in Token  BY <1>0 DEF TypeOK
<1>8. RotationHolds'  BY <1>3, <1>4, <1>5, <1>7 DEF RInv, RotationHolds, Issued
<1>9. KnownTokens'
  <2>1. fresh \subseteq Token  BY <1>0 DEF TypeOK
  <2> QED  BY <1>3, <1>4, <1>5, <1>7, <2>1 DEF RInv, KnownTokens, Issued
<1>10. MarkedLocked' /\ OnlyRevokersMark'
  BY <1>5 DEF RInv, MarkedLocked, OnlyRevokersMark, Revoking
<1>11. \A t \in Token : family[t] # f  BY <1>1 DEF Rows
<1>12. OneUnusedPerFamily'
  BY <1>3, <1>4, <1>5, <1>11 DEF RInv, OneUnusedPerFamily, Issued
<1>13. AbsoluteLimit'
  BY <1>2, <1>3, <1>4, <1>11 DEF RInv, AbsoluteLimit, Issued
<1> QED  BY <1>3, <1>6, <1>8, <1>9, <1>10, <1>12, <1>13 DEF RInv

(* rotate's COMMIT: the token it checked is still the family's only unused  *)
(* one, since its row is locked.                                            *)
LEMMA RotationStep ==
  ASSUME RInv, NEW r \in Req, CommitRotation(r) PROVE RInv'
<1>0. TypeOK /\ RowsInOrder  BY DEF RInv
<1> DEFINE old == tok[r]
           n == next + 1
           f == FamilyOf(r)
           start == started[tok[r]]
           expiry == Least(at[r] + RefreshTtl, started[tok[r]] + AbsoluteTtl)
<1>1. Rotate(r, expiry)  BY DEF CommitRotation
<1>2. /\ old \in Token /\ Issued(old) /\ old \notin used /\ old \notin revoked
      /\ f = family[old] /\ f \in Family /\ f # NoFamily
      /\ expiry \in Nat /\ start \in Nat /\ start = started[old]
      /\ expiry <= start + AbsoluteTtl
  <2>1. old \in Token /\ Issued(old) /\ old \notin used /\ old \notin revoked
    BY <1>0, <1>1 DEF TypeOK, RInv, RotationHolds, Rotate
  <2> QED  BY <1>0, <2>1, RotatedExpiry DEF TypeOK, FamilyOf, Issued
<1>3. Insert(f, expiry, start)  BY <1>1 DEF Rotate
<1> HIDE DEF expiry, start, f
<1>4. /\ RowsInOrder' /\ ~Issued(n)
      /\ \A t \in Token : family'[t] = IF t = n THEN f ELSE family[t]
      /\ \A t \in Token : started'[t] = IF t = n THEN start ELSE started[t]
      /\ \A t \in Token : expires'[t] = IF t = n THEN expiry ELSE expires[t]
  BY <1>0, <1>2, <1>3, InsertKeepsRows
<1>5. n \in Token /\ fresh' = fresh \union {n}
  BY <1>0, <1>2, <1>3, InsertType DEF Insert
<1> HIDE DEF n
<1>6. /\ used' = used \union {old} /\ revoked' = revoked
      /\ lock' = [t \in Token |-> IF lock[t] = r THEN NoReq ELSE lock[t]]
      /\ pc' = [pc EXCEPT ![r] = "idle"]
      /\ tok' = [tok EXCEPT ![r] = 1]
      /\ marked' = [marked EXCEPT ![r] = {}]
  BY <1>1 DEF Rotate, Unlock, Answer, Goto
<1>7. /\ pc \in [Req -> PcLabels] /\ tok \in [Req -> Token]
      /\ marked \in [Req -> SUBSET Token] /\ fresh \subseteq Token
  BY <1>0 DEF TypeOK
<1>8. \A q \in Req \ {r} : pc'[q] = pc[q] /\ tok'[q] = tok[q] /\ marked'[q] = marked[q]
  BY <1>6, <1>7
<1>9. pc'[r] = "idle" /\ marked'[r] = {}  BY <1>6, <1>7
<1>10. TypeOK'  BY RefreshTypeStep DEF Next, Proceed
<1>11. RotationHolds'
  <2>1. ASSUME NEW q \in Req, q # r, pc[q] = "rotating"
        PROVE  /\ lock'[tok[q]] = q /\ Issued(tok[q])' /\ tok[q] \notin used'
    <3>1. lock[tok[q]] = q /\ Issued(tok[q]) /\ tok[q] \notin used /\ tok[q] \in Token
      BY <1>7, <2>1 DEF RInv, RotationHolds
    <3>2. tok[q] # old
      BY <1>1, <2>1, <3>1 DEF RInv, RotationHolds, Rotate
    <3> QED  BY <1>2, <1>4, <1>6, <2>1, <3>1, <3>2 DEF Issued
  <2>2. \A q \in Req : pc[q] = "rotating" => tok[q] \notin revoked'
    BY <1>6 DEF RInv, RotationHolds
  <2> QED  BY <1>8, <1>9, <2>1, <2>2 DEF RotationHolds, Issued
<1>12. KnownTokens'
  BY <1>2, <1>4, <1>5, <1>7, <1>8, <1>9 DEF RInv, KnownTokens, Issued
<1>13. MarkedLocked'
  BY <1>6, <1>7, <1>8, <1>9 DEF RInv, MarkedLocked
<1>14. OnlyRevokersMark'
  BY <1>8, <1>9 DEF RInv, OnlyRevokersMark, Revoking
<1>15. OneUnusedPerFamily'
  BY <1>2, <1>4, <1>5, <1>6 DEF RInv, OneUnusedPerFamily, Issued
<1>16. AbsoluteLimit'
  <2>1. \A t \in Token : Issued(t) /\ family[t] = f
          => started[t] = start /\ expires[t] <= start + AbsoluteTtl
    BY <1>2 DEF RInv, AbsoluteLimit
  <2>2. SUFFICES ASSUME NEW t \in Token, NEW u \in Token, Issued(t)', family'[t] = family'[u]
                 PROVE  started'[t] = started'[u] /\ expires'[t] <= started'[u] + AbsoluteTtl
    BY DEF AbsoluteLimit
  <2>3. CASE t = n \/ u = n  BY <1>2, <1>4, <2>1, <2>2, <2>3 DEF Issued
  <2>4. CASE t # n /\ u # n  BY <1>4, <2>2, <2>4 DEF RInv, AbsoluteLimit, Issued
  <2> QED  BY <2>3, <2>4
<1> QED
  BY <1>4, <1>10, <1>11, <1>12, <1>13, <1>14, <1>15, <1>16 DEF RInv

(* Steps that leave the table alone keep what is said of rows only. *)
LEMMA RowsAlone ==
  ASSUME RInv, UNCHANGED rows
  PROVE  RowsInOrder' /\ OneUnusedPerFamily' /\ AbsoluteLimit'
  BY DEF RInv, rows, RowsInOrder, OneUnusedPerFamily, AbsoluteLimit, Issued

(* The steps of other requests: a request arrives, looks at its token,      *)
(* starts, carries on or gives up a revocation, is answered; time passes.   *)
LEMMA RequestStep ==
  ASSUME RInv, [Next]_vars, UNCHANGED rows PROVE RInv'
<1>1. TypeOK /\ TypeOK'  BY RefreshTypeStep DEF RInv
<1>2. RowsInOrder' /\ OneUnusedPerFamily' /\ AbsoluteLimit'  BY RowsAlone
<1> DEFINE Own == RotationHolds /\ KnownTokens /\ MarkedLocked /\ OnlyRevokersMark
<1>3. Own  BY DEF RInv
<1>4. /\ pc \in [Req -> PcLabels] /\ tok \in [Req -> Token]
      /\ scan \in [Req -> SUBSET Token] /\ marked \in [Req -> SUBSET Token]
      /\ lock \in [Token -> Req \union {NoReq}] /\ NoReq \notin Req
      /\ fresh \subseteq Token
  BY <1>1, RefreshAssumption DEF TypeOK
<1>5. UNCHANGED <<family, used, revoked>>  BY DEF rows
<1> USE DEF RotationHolds, KnownTokens, MarkedLocked, OnlyRevokersMark, Issued, Revoking
<1>6. ASSUME NEW r \in Req, Refresh(r) PROVE Own'
  BY <1>3, <1>4, <1>5, <1>6 DEF Refresh, Goto, access
<1>7. ASSUME NEW r \in Req, Logout(r) PROVE Own'
  BY <1>3, <1>4, <1>5, <1>7 DEF Logout, Goto, access
<1>8. ASSUME NEW r \in Req, SelectForUpdate(r) PROVE Own'
  <2>1. fresh' = fresh /\ marked[r] = {}  BY <1>3, <1>8 DEF SelectForUpdate, access
  <2>2. CASE Answer(r) /\ UNCHANGED lock
    BY <1>3, <1>4, <1>5, <2>1, <2>2 DEF Answer, Goto
  <2>3. CASE /\ Issued(tok[r]) /\ tok[r] \notin revoked
             /\ lock' = [lock EXCEPT ![tok[r]] = r]
             /\ Goto(r, IF tok[r] \in used THEN "reuse" ELSE "rotating")
             /\ UNCHANGED <<tok, at, scan, marked>>
    <3>1. lock[tok[r]] = NoReq  BY <1>8 DEF SelectForUpdate
    <3>2. tok[r] \in Token  BY <1>4
    <3>3. \A t \in Token : lock'[t] = IF t = tok[r] THEN r ELSE lock[t]
      BY <1>4, <2>3
    <3>4. \A q \in Req : pc'[q] = IF q # r THEN pc[q]
                                  ELSE IF tok[r] \in used THEN "reuse" ELSE "rotating"
      BY <1>4, <2>3 DEF Goto
    <3>5. UNCHANGED <<tok, marked, fresh, family, used, revoked>>  BY <1>5, <2>1, <2>3
    <3>6. RotationHolds'
      <4>1. ASSUME NEW q \in Req, pc'[q] = "rotating"
            PROVE  lock'[tok[q]] = q /\ Issued(tok[q]) /\ tok[q] \notin used \union revoked
        <5>1. CASE q = r  BY <2>3, <3>2, <3>3, <3>4, <4>1, <5>1
        <5>2. CASE q # r
          <6>1. pc[q] = "rotating" /\ tok[q] \in Token  BY <1>4, <3>4, <4>1, <5>2
          <6>2. lock[tok[q]] = q  BY <1>3, <6>1
          <6>3. tok[q] # tok[r]  BY <1>4, <3>1, <6>2
          <6> QED  BY <1>3, <3>3, <6>1, <6>2, <6>3
        <5> QED  BY <5>1, <5>2
      <4> QED  BY <3>5, <4>1
    <3>7. KnownTokens'  BY <1>3, <1>4, <2>3, <3>4, <3>5
    <3>8. MarkedLocked'
      <4>1. ASSUME NEW q \in Req, NEW t \in marked[q] PROVE lock'[t] = q
        <5>1. lock[t] = q /\ t \in Token  BY <1>3, <1>4
        <5> QED  BY <1>4, <3>1, <3>3, <5>1
      <4> QED  BY <3>5, <4>1
    <3>9. OnlyRevokersMark'  BY <1>3, <2>1, <3>4, <3>5
    <3> QED  BY <3>6, <3>7, <3>8, <3>9
  <2> QED  BY <1>8, <2>2, <2>3 DEF SelectForUpdate, Examine
<1>9. ASSUME NEW r \in Req, StartRevoke(r) PROVE Own'
  BY <1>3, <1>4, <1>5, <1>9 DEF StartRevoke, Goto, access
<1>10. ASSUME NEW r \in Req, RevokeRow(r) PROVE Own'
  <2>1. PICK t \in scan[r] :
          /\ lock[t] \in {NoReq, r}
          /\ \/ UNCHANGED <<lock, marked>>
             \/ /\ t \notin revoked
                /\ lock' = [lock EXCEPT ![t] = r]
                /\ marked' = [marked EXCEPT ![r] = @ \union {t}]
    BY <1>10 DEF RevokeRow
  <2>2. t \in Token /\ Revoking(r) /\ UNCHANGED <<pc, tok, fresh>>
    BY <1>4, <1>10 DEF RevokeRow, access
  <2>3. CASE UNCHANGED <<lock, marked>>  BY <1>3, <1>5, <2>2, <2>3
  <2>4. CASE /\ lock' = [lock EXCEPT ![t] = r]
             /\ marked' = [marked EXCEPT ![r] = @ \union {t}]
    <3>1. \A u \in Token : lock'[u] = IF u = t THEN r ELSE lock[u]  BY <1>4, <2>4
    <3>2. \A q \in Req : marked'[q] = IF q = r THEN marked[r] \union {t} ELSE marked[q]
      BY <1>4, <2>4
    <3>3. RotationHolds'
      <4>1. ASSUME NEW q \in Req, pc[q] = "rotating" PROVE lock'[tok[q]] = q
        <5>1. lock[tok[q]] = q /\ tok[q] \in Token /\ q # r  BY <1>3, <1>4, <2>2, <4>1
        <5> QED  BY <1>4, <2>1, <3>1, <5>1
      <4> QED  BY <1>3, <1>5, <2>2, <4>1
    <3>4. KnownTokens' /\ OnlyRevokersMark'  BY <1>3, <1>5, <2>2, <3>2
    <3>5. MarkedLocked'
      <4>1. ASSUME NEW q \in Req, NEW u \in marked'[q] PROVE lock'[u] = q
        <5>1. u \in Token /\ (u \in marked[q] \/ (q = r /\ u = t))  BY <1>4, <2>2, <3>2
        <5>2. CASE u \in marked[q]
          <6>1. lock[u] = q  BY <1>3, <5>2
          <6> QED  BY <1>4, <2>1, <3>1, <5>1, <6>1
        <5>3. CASE q = r /\ u = t  BY <3>1, <5>1, <5>3
        <5> QED  BY <5>1, <5>2, <5>3
      <4> QED  BY <4>1
    <3> QED  BY <3>3, <3>4, <3>5
  <2> QED  BY <2>1, <2>3, <2>4
<1>11. ASSUME NEW r \in Req, Deny(r) PROVE Own'
  <2>1. /\ pc[r] \in {"deny family", "deny access"}
        /\ Answer(r) /\ UNCHANGED <<lock, fresh>>  BY <1>11 DEF Deny
  <2> QED  BY <1>3, <1>4, <1>5, <2>1 DEF Answer, Goto
<1>12. ASSUME NEW r \in Req, RollBack(r) PROVE Own'
  <2>1. \A q \in Req \ {r} : pc'[q] = pc[q] /\ tok'[q] = tok[q] /\ marked'[q] = marked[q]
    BY <1>4, <1>12 DEF RollBack, Answer, Goto
  <2>2. pc'[r] = "idle" /\ marked'[r] = {}
    BY <1>4, <1>12 DEF RollBack, Answer, Goto
  <2>3. \A t \in Token, q \in Req \ {r} : lock[t] = q => lock'[t] = q
    BY <1>4, <1>12 DEF RollBack, Unlock
  <2>4. fresh' = fresh  BY <1>12 DEF RollBack, access
  <2>5. RotationHolds'
    <3>1. ASSUME NEW q \in Req, pc'[q] = "rotating"
          PROVE  lock'[tok[q]] = q /\ tok'[q] = tok[q] /\ pc[q] = "rotating"
      <4>1. q \in Req \ {r} /\ pc[q] = "rotating" /\ tok[q] \in Token
        BY <1>4, <2>1, <2>2, <3>1
      <4>2. lock[tok[q]] = q  BY <1>3, <4>1
      <4> QED  BY <2>1, <2>3, <4>1, <4>2
    <3> QED  BY <1>3, <1>5, <3>1
  <2>6. KnownTokens'  BY <1>3, <1>5, <2>1, <2>2, <2>4
  <2>7. MarkedLocked'
    <3>1. ASSUME NEW q \in Req, NEW t \in marked'[q] PROVE lock'[t] = q
      <4>1. q \in Req \ {r} /\ t \in marked[q] /\ t \in Token  BY <1>4, <2>1, <2>2
      <4>2. lock[t] = q  BY <1>3, <4>1
      <4> QED  BY <2>3, <4>1, <4>2
    <3> QED  BY <3>1
  <2>8. OnlyRevokersMark'  BY <1>3, <2>1, <2>2
  <2> QED  BY <2>5, <2>6, <2>7, <2>8
<1>13. ASSUME Tick PROVE Own'
  BY <1>3, <1>5, <1>13 DEF Tick, requests
<1>14. ASSUME UNCHANGED vars PROVE Own'
  BY <1>3, <1>5, <1>14 DEF vars, requests, access
<1>15. ASSUME Login PROVE FALSE
  BY <1>1, <1>15 DEF Login, Insert, TypeOK, rows
<1>16. ASSUME NEW r \in Req, CommitRotation(r) PROVE FALSE
  BY <1>1, <1>16 DEF CommitRotation, Rotate, Insert, TypeOK, rows
<1>17. ASSUME NEW r \in Req, CommitRevoke(r) PROVE Own'
  <2>1. \A q \in Req \ {r} : pc'[q] = pc[q] /\ marked'[q] = marked[q]
    BY <1>4, <1>17 DEF CommitRevoke, Goto
  <2>2. pc[r] \notin {"idle", "select"} /\ pc'[r] \in {"deny family", "deny access"} /\ marked'[r] = {}
    BY <1>4, <1>17 DEF CommitRevoke, Goto
  <2>3. \A t \in Token, q \in Req \ {r} : lock[t] = q => lock'[t] = q
    BY <1>4, <1>17 DEF CommitRevoke, Unlock
  <2>4. UNCHANGED <<tok, fresh>>  BY <1>17 DEF CommitRevoke, access
  <2>5. RotationHolds'
    <3>1. ASSUME NEW q \in Req, pc'[q] = "rotating"
          PROVE  lock'[tok[q]] = q /\ tok'[q] = tok[q] /\ pc[q] = "rotating"
      <4>1. q \in Req \ {r} /\ pc[q] = "rotating" /\ tok[q] \in Token
        BY <1>4, <2>1, <2>2, <3>1
      <4>2. lock[tok[q]] = q  BY <1>3, <4>1
      <4> QED  BY <2>1, <2>3, <2>4, <4>1, <4>2
    <3> QED  BY <1>3, <1>5, <3>1
  <2>6. KnownTokens'  BY <1>3, <1>5, <2>1, <2>2, <2>4
  <2>7. MarkedLocked'
    <3>1. ASSUME NEW q \in Req, NEW t \in marked'[q] PROVE lock'[t] = q
      <4>1. q \in Req \ {r} /\ t \in marked[q] /\ t \in Token  BY <1>4, <2>1, <2>2
      <4>2. lock[t] = q  BY <1>3, <4>1
      <4> QED  BY <2>3, <4>1, <4>2
    <3> QED  BY <3>1
  <2>8. OnlyRevokersMark'  BY <1>3, <2>1, <2>2
  <2> QED  BY <2>5, <2>6, <2>7, <2>8
<1>18. Own'
  BY <1>6, <1>7, <1>8, <1>9, <1>10, <1>11, <1>12, <1>13, <1>14, <1>15, <1>16, <1>17
     DEF Next, Proceed, Abort, ResolveDeadlock
<1> QED  BY <1>1, <1>2, <1>18 DEF RInv

(* COMMIT of a revocation: the rows it revokes are locked by it, so none of *)
(* them is one a rotation has found alive.                                  *)
LEMMA RevocationStep ==
  ASSUME RInv, NEW r \in Req, CommitRevoke(r) PROVE RInv'
<1>1. TypeOK /\ TypeOK'  BY RefreshTypeStep DEF RInv, Next, Proceed
<1>2. /\ pc \in [Req -> PcLabels] /\ marked \in [Req -> SUBSET Token]
      /\ lock \in [Token -> Req \union {NoReq}] /\ tok \in [Req -> Token]
  BY <1>1 DEF TypeOK
<1>3. /\ UNCHANGED <<next, family, expires, started, used, tok, fresh>>
      /\ revoked' = revoked \union marked[r] /\ Revoking(r)
  BY DEF CommitRevoke, access
<1>4. RowsInOrder' /\ OneUnusedPerFamily' /\ AbsoluteLimit'
  BY <1>3 DEF RInv, RowsInOrder, OneUnusedPerFamily, AbsoluteLimit, Issued
<1>5. \A q \in Req \ {r} : pc'[q] = pc[q] /\ marked'[q] = marked[q]
  BY <1>2 DEF CommitRevoke, Goto
<1>6. pc[r] \notin {"idle", "select"} /\ pc'[r] \in {"deny family", "deny access"} /\ marked'[r] = {}
  BY <1>2, <1>3 DEF CommitRevoke, Goto, Revoking
<1>7. \A t \in Token, q \in Req \ {r} : lock[t] = q => lock'[t] = q
  BY <1>2 DEF CommitRevoke, Unlock
<1>8. RotationHolds'
  <2>1. ASSUME NEW q \in Req \ {r}, pc[q] = "rotating" PROVE tok[q] \notin marked[r]
    BY <1>2, <2>1 DEF RInv, RotationHolds, MarkedLocked
  <2>2. ASSUME NEW q \in Req, pc'[q] = "rotating" PROVE q # r /\ pc[q] = "rotating"
    BY <1>5, <1>6, <2>2
  <2>3. ASSUME NEW q \in Req \ {r}, pc[q] = "rotating"
        PROVE  /\ tok[q] \in Token /\ lock'[tok[q]] = q /\ Issued(tok[q])
               /\ tok[q] \notin used /\ tok[q] \notin revoked
    BY <1>2, <1>7, <2>3 DEF RInv, RotationHolds
  <2> QED  BY <1>3, <2>1, <2>2, <2>3 DEF RotationHolds, Issued
<1>9. KnownTokens'
  <2>1. ASSUME NEW q \in Req, pc'[q] \notin {"idle", "select"} PROVE Issued(tok[q])
    BY <1>5, <1>6, <2>1 DEF RInv, KnownTokens
  <2>2. \A t \in fresh : Issued(t)  BY DEF RInv, KnownTokens
  <2> QED  BY <1>3, <2>1, <2>2 DEF KnownTokens, Issued
<1>10. MarkedLocked'
  <2>1. ASSUME NEW q \in Req, NEW t \in marked'[q] PROVE lock'[t] = q
    <3>1. q \in Req \ {r} /\ t \in marked[q] /\ t \in Token  BY <1>2, <1>5, <1>6
    <3>2. lock[t] = q  BY <3>1 DEF RInv, MarkedLocked
    <3> QED  BY <1>7, <3>1, <3>2
  <2> QED  BY <2>1 DEF MarkedLocked
<1>11. OnlyRevokersMark'  BY <1>5, <1>6 DEF RInv, OnlyRevokersMark, Revoking
<1> QED  BY <1>1, <1>4, <1>8, <1>9, <1>10, <1>11 DEF RInv

(* Every step keeps the inductive invariant. *)
LEMMA RefreshInvStep == RInv /\ [Next]_vars => RInv'
<1> SUFFICES ASSUME RInv, [Next]_vars PROVE RInv'  OBVIOUS
<1>1. CASE Login  BY <1>1, LoginStep
<1>2. ASSUME NEW r \in Req, CommitRotation(r) PROVE RInv'  BY <1>2, RotationStep
<1>3. ASSUME NEW r \in Req, CommitRevoke(r) PROVE RInv'  BY <1>3, RevocationStep
<1>4. CASE UNCHANGED rows  BY <1>4, RequestStep
<1> QED
  BY <1>1, <1>2, <1>3, <1>4 DEF Next, Proceed, Abort, ResolveDeadlock, Refresh, Logout,
     SelectForUpdate, StartRevoke, RevokeRow, Deny, RollBack, Tick, vars

-----------------------------------------------------------------------------
(* rotate, revokeFamily and logout keep the shape of refresh_tokens and of  *)
(* the requests, for any number of them.                                    *)
THEOREM RefreshTypeCorrect == Spec => []TypeOK
<1>1. RInv => TypeOK  BY DEF RInv
<1> QED  BY <1>1, RefreshInit, RefreshInvStep, PTL DEF Spec

(* Rotation keeps every family a chain: SELECT ... FOR UPDATE lets one of   *)
(* any number of refreshes with one token issue its successor.              *)
THEOREM FamilyIsChain == Spec => []OneUnusedPerFamily
<1>1. RInv => OneUnusedPerFamily  BY DEF RInv
<1> QED  BY <1>1, RefreshInit, RefreshInvStep, PTL DEF Spec

(* No chain of rotations, however long, passes the absolute limit that      *)
(* rotate takes the LEAST with.                                             *)
THEOREM LimitIsAbsolute == Spec => []AbsoluteLimit
<1>1. RInv => AbsoluteLimit  BY DEF RInv
<1> QED  BY <1>1, RefreshInit, RefreshInvStep, PTL DEF Spec

(* A family all of whose tokens are revoked gets no further one: rotate     *)
(* holds the lock of a token it found unrevoked until it commits.           *)
THEOREM RevocationIsFinal == Spec => RevokedStaysRevoked
<1> DEFINE Stays == \A f \in Family :
                      Rows(f) # {} /\ Rows(f) \subseteq revoked => Rows(f)' \subseteq revoked'
<1>1. RInv /\ [Next]_vars => [Stays]_vars
  <2> SUFFICES ASSUME RInv, [Next]_vars PROVE Stays  OBVIOUS
  <2>0. TypeOK /\ RowsInOrder  BY DEF RInv
  <2>1. CASE UNCHANGED <<family, revoked>>  BY <2>1 DEF Rows
  <2>2. ASSUME NEW r \in Req, CommitRevoke(r) PROVE Stays
    BY <2>2 DEF CommitRevoke, Rows
  <2>3. CASE Login
    <3>1. PICK g \in Family : Rows(g) = {} /\ Insert(g, now + RefreshTtl, now)
      BY <2>3 DEF Login
    <3>2. now \in Nat /\ now + RefreshTtl \in Nat
      BY <2>0, RefreshAssumption DEF TypeOK
    <3>3. \A t \in Token : family'[t] = IF t = next + 1 THEN g ELSE family[t]
      BY <2>0, <3>1, <3>2, InsertKeepsRows
    <3> QED  BY <2>3, <3>1, <3>3 DEF Login, Rows
  <2>4. ASSUME NEW r \in Req, CommitRotation(r) PROVE Stays
    <3> DEFINE expiry == Least(at[r] + RefreshTtl, started[tok[r]] + AbsoluteTtl)
    <3>1. /\ Insert(FamilyOf(r), expiry, started[tok[r]]) /\ pc[r] = "rotating"
          /\ revoked' = revoked
      BY <2>4 DEF CommitRotation, Rotate
    <3>2. tok[r] \in Token /\ Issued(tok[r]) /\ tok[r] \notin revoked
      BY <2>0, <3>1 DEF RInv, RotationHolds, TypeOK
    <3>3. expiry \in Nat /\ started[tok[r]] \in Nat /\ FamilyOf(r) \in Family
      BY <2>0, <3>2, RotatedExpiry DEF TypeOK, FamilyOf, Issued
    <3> HIDE DEF expiry
    <3>4. \A t \in Token : family'[t] = IF t = next + 1 THEN FamilyOf(r) ELSE family[t]
      BY <2>0, <3>1, <3>3, InsertKeepsRows
    <3>5. tok[r] \in Rows(FamilyOf(r))  BY <3>2 DEF Rows, FamilyOf
    <3> QED  BY <3>1, <3>2, <3>4, <3>5 DEF Rows
  <2> QED
    BY <2>1, <2>2, <2>3, <2>4 DEF Next, Proceed, Abort, ResolveDeadlock, Refresh, Logout,
       SelectForUpdate, StartRevoke, RevokeRow, Deny, RollBack, Tick, vars, rows
<1> QED  BY <1>1, RefreshInit, RefreshInvStep, PTL DEF Spec, RevokedStaysRevoked
=============================================================================
