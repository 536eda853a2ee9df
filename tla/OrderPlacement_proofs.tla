------------------------ MODULE OrderPlacement_proofs ------------------------
(***************************************************************************)
(* Proofs about OrderPlacement, for any workload and any number of         *)
(* requests, keys, products and users.  A request decides on a row in one  *)
(* step and writes it at COMMIT; the inductive invariant says which locks  *)
(* an open transaction holds, and that what it found under them still      *)
(* holds.                                                                  *)
(***************************************************************************)
EXTENDS OrderPlacement, DataTheorems, TLAPS

KeyHeld == {"claimed", "ordered", "enqueued"}
ProductHeld == {"stock", "balance", "ordered", "enqueued"}
UserHeld == {"balance", "ordered", "enqueued"}

(* A request stands where its operation can take it. *)
OpsFit ==
  \A r \in Req :
    /\ pc[r] \in {"stock", "balance"} => OpOf(r) = "checkout"
    /\ pc[r] \in {"claimed", "committed", "replay"} => OpOf(r) = "create"
    /\ pc[r] \in {"updated", "emitted"} => OpOf(r) = "update"

(* The locks are those of the open transactions, each for its own row. *)
KeyLocks ==
  \A k \in Key, r \in Req :
    keyLock[k] = r <=> OpOf(r) = "create" /\ args[r].key = k /\ pc[r] \in KeyHeld

ProductLocks ==
  \A p \in Product, r \in Req :
    productLock[p] = r <=> OpOf(r) = "checkout" /\ args[r].product = p /\ pc[r] \in ProductHeld

UserLocks ==
  \A u \in User, r \in Req :
    userLock[u] = r <=> OpOf(r) = "checkout" /\ args[r].user = u /\ pc[r] \in UserHeld

(* What a transaction found under its locks holds until it ends. *)
FoundHolds ==
  \A r \in Req :
    /\ OpOf(r) = "create" /\ pc[r] \in KeyHeld => keyRow[args[r].key] = NoReq
    /\ OpOf(r) = "checkout" /\ pc[r] \in ProductHeld => stock[args[r].product] >= args[r].qty
    /\ OpOf(r) = "checkout" /\ pc[r] \in UserHeld => balance[args[r].user] >= Amount(r)

(* Drafts are rows of open transactions, outbox rows of committed orders. *)
EventsOfOrders ==
  /\ drafts = {r \in Req : pc[r] = "enqueued"}
  /\ outbox = {r \in Req : Exists(r)}

(* An order exists from its request's COMMIT on, and is not refused. *)
OrdersCommitted ==
  \A r \in Req :
    /\ Exists(r) => pc[r] \in {"committed", "done"} /\ answer[r].kind \notin Refusals
    /\ pc[r] = "committed" => Exists(r)
    /\ pc[r] # "done" => answer[r] = NoAnswer

(* A committed key row names the order its key created. *)
KeysOfOrders ==
  /\ \A k \in Key : keyRow[k] # NoReq =>
       Exists(keyRow[k]) /\ OpOf(keyRow[k]) = "create" /\ args[keyRow[k]].key = k
  /\ \A r \in Req : pc[r] = "replay" => keyRow[args[r].key] # NoReq

(* An answer that names an order names the one of its key and its body. *)
AnswersOfKeys ==
  \A r \in Req : OpOf(r) = "create" /\ answer[r].order # NoReq =>
    /\ keyRow[args[r].key] = answer[r].order
    /\ args[answer[r].order].body = args[r].body

PInv ==
  /\ TypeOK
  /\ OpsFit
  /\ KeyLocks
  /\ ProductLocks
  /\ UserLocks
  /\ FoundHolds
  /\ EventsOfOrders
  /\ OrdersCommitted
  /\ KeysOfOrders
  /\ AnswersOfKeys
  /\ OneOrderPerKey

-----------------------------------------------------------------------------
(* A request's arguments are of the kind its operation takes. *)
LEMMA ArgsFit ==
  ASSUME args \in Workload, NEW r \in Req
  PROVE  /\ OpOf(r) \in {"create", "update", "checkout"}
         /\ OpOf(r) = "create" => args[r].key \in Key
         /\ OpOf(r) = "update" => args[r].target \in Req /\ args[r].status # "none"
         /\ OpOf(r) = "checkout" =>
              /\ args[r].product \in Product
              /\ args[r].user \in User
              /\ args[r].qty \in Int
              /\ Amount(r) \in Int
<1>1. \/ args[r].op = "create" /\ args[r].key \in Key
      \/ args[r].op = "update" /\ args[r].target \in Req /\ args[r].status # "none"
      \/ /\ args[r].op = "checkout"
         /\ args[r].product \in Product
         /\ args[r].user \in User
         /\ args[r].qty \in Int
  BY PlacementAssumption
<1>2. args[r].product \in Product /\ args[r].qty \in Int => Amount(r) \in Int
  BY PlacementAssumption DEF Amount
<1> QED  BY <1>1, <1>2 DEF OpOf

(* Before the first request nothing is locked, born or answered. *)
LEMMA PlacementInit == Init => PInv
<1> SUFFICES ASSUME Init PROVE PInv  OBVIOUS
<1>1. \A r \in Req : pc[r] = "start" /\ ~Exists(r) /\ answer[r] = NoAnswer
  BY DEF Init, Exists
<1>2. NoAnswer.kind \notin Refusals /\ NoAnswer.order = NoReq
  BY DEF NoAnswer, AnswerOf, Refusals
<1>3. TypeOK
  BY PlacementAssumption DEF Init, TypeOK, MaybeReq
<1>4. /\ \A k \in Key : keyLock[k] = NoReq /\ keyRow[k] = NoReq
      /\ \A p \in Product : productLock[p] = NoReq
      /\ \A u \in User : userLock[u] = NoReq
      /\ drafts = {} /\ outbox = {}
      /\ NoReq \notin Req
  BY PlacementAssumption DEF Init
<1>5. OpsFit /\ FoundHolds  BY <1>1 DEF OpsFit, FoundHolds, KeyHeld, ProductHeld, UserHeld
<1>6. KeyLocks /\ ProductLocks /\ UserLocks
  BY <1>1, <1>4 DEF KeyLocks, ProductLocks, UserLocks, KeyHeld, ProductHeld, UserHeld
<1>7. EventsOfOrders  BY <1>1, <1>4 DEF EventsOfOrders
<1>8. OrdersCommitted  BY <1>1 DEF OrdersCommitted
<1>9. KeysOfOrders  BY <1>1, <1>4 DEF KeysOfOrders
<1>10. AnswersOfKeys  BY <1>1, <1>2 DEF AnswersOfKeys
<1>11. OneOrderPerKey  BY <1>1 DEF OneOrderPerKey
<1> QED  BY <1>3, <1>5, <1>6, <1>7, <1>8, <1>9, <1>10, <1>11 DEF PInv
-----------------------------------------------------------------------------
(* COMMIT and ROLLBACK give back every lock of the request and its draft,   *)
(* and nobody else's.                                                       *)
LEMMA TransactionEnds ==
  ASSUME PInv, NEW r \in Req, NEW l \in {"done", "committed"},
         EndTransaction(r), Goto(r, l), UNCHANGED args
  PROVE  /\ productLock' \in [Product -> MaybeReq]
         /\ userLock' \in [User -> MaybeReq]
         /\ keyLock' \in [Key -> MaybeReq]
         /\ drafts' = {s \in Req : pc'[s] = "enqueued"}
         /\ KeyLocks' /\ ProductLocks' /\ UserLocks'
<1>0. TypeOK /\ NoReq \notin Req  BY PlacementAssumption DEF PInv
<1>1. pc' = [pc EXCEPT ![r] = l] /\ \A s \in Req : pc'[s] = IF s = r THEN l ELSE pc[s]
  BY <1>0 DEF Goto, TypeOK
<1>2. l \notin KeyHeld /\ l \notin ProductHeld /\ l \notin UserHeld /\ l # "enqueued"
  BY DEF KeyHeld, ProductHeld, UserHeld
<1>3. /\ productLock' \in [Product -> MaybeReq]
      /\ userLock' \in [User -> MaybeReq]
      /\ keyLock' \in [Key -> MaybeReq]
  BY <1>0 DEF EndTransaction, TypeOK, MaybeReq
<1>4. drafts' = {s \in Req : pc'[s] = "enqueued"}
  BY <1>1, <1>2 DEF EndTransaction, PInv, EventsOfOrders
<1>5. KeyLocks'
  <2>1. \A k \in Key, s \in Req : keyLock'[k] = s <=> keyLock[k] = s /\ s # r
    BY <1>0 DEF EndTransaction
  <2> QED  BY <1>1, <1>2, <2>1 DEF PInv, KeyLocks, OpOf
<1>6. ProductLocks'
  <2>1. \A p \in Product, s \in Req : productLock'[p] = s <=> productLock[p] = s /\ s # r
    BY <1>0 DEF EndTransaction
  <2> QED  BY <1>1, <1>2, <2>1 DEF PInv, ProductLocks, OpOf
<1>7. UserLocks'
  <2>1. \A u \in User, s \in Req : userLock'[u] = s <=> userLock[u] = s /\ s # r
    BY <1>0 DEF EndTransaction
  <2> QED  BY <1>1, <1>2, <2>1 DEF PInv, UserLocks, OpOf
<1> QED  BY <1>3, <1>4, <1>5, <1>6, <1>7

(* An answer outside a transaction leaves the locks as they are. *)
LEMMA LocksStay ==
  ASSUME PInv, NEW r \in Req, NEW l,
         Goto(r, l), UNCHANGED <<args, locks, drafts>>,
         pc[r] \notin InTransaction, l \notin InTransaction
  PROVE  /\ drafts' = {s \in Req : pc'[s] = "enqueued"}
         /\ KeyLocks' /\ ProductLocks' /\ UserLocks'
<1>0. TypeOK  BY DEF PInv
<1>1. \A s \in Req : pc'[s] = IF s = r THEN l ELSE pc[s]
  BY <1>0 DEF Goto, TypeOK
<1>2. /\ l \notin KeyHeld /\ l \notin ProductHeld /\ l \notin UserHeld /\ l # "enqueued"
      /\ pc[r] \notin KeyHeld /\ pc[r] \notin ProductHeld /\ pc[r] \notin UserHeld
      /\ pc[r] # "enqueued"
  BY DEF KeyHeld, ProductHeld, UserHeld, InTransaction
<1>3. drafts' = {s \in Req : pc'[s] = "enqueued"}
  BY <1>1, <1>2 DEF PInv, EventsOfOrders
<1>4. KeyLocks'  BY <1>1, <1>2 DEF PInv, KeyLocks, OpOf, locks
<1>5. ProductLocks'  BY <1>1, <1>2 DEF PInv, ProductLocks, OpOf, locks
<1>6. UserLocks'  BY <1>1, <1>2 DEF PInv, UserLocks, OpOf, locks
<1> QED  BY <1>3, <1>4, <1>5, <1>6

(* A request is answered and the tables stay: the answer may name the order *)
(* of its key only, and refuses only what has left nothing.                 *)
LEMMA AnswerStep ==
  ASSUME PInv, NEW r \in Req, NEW a, pc[r] # "done",
         Reply(r, a), UNCHANGED <<args, tables>>,
         Exists(r) => a.kind \notin Refusals,
         OpOf(r) = "create" /\ a.order # NoReq =>
           keyRow[args[r].key] = a.order /\ args[a.order].body = args[r].body,
         productLock' \in [Product -> MaybeReq],
         userLock' \in [User -> MaybeReq],
         keyLock' \in [Key -> MaybeReq],
         drafts' = {s \in Req : pc'[s] = "enqueued"},
         KeyLocks', ProductLocks', UserLocks'
  PROVE  PInv'
<1>0. TypeOK  BY DEF PInv
<1>1. /\ \A s \in Req : pc'[s] = IF s = r THEN "done" ELSE pc[s]
      /\ \A s \in Req : answer'[s] = IF s = r THEN a ELSE answer[s]
  BY <1>0 DEF Reply, Goto, TypeOK
<1>2. TypeOK'
  <2>1. DOMAIN answer' = Req  BY <1>0 DEF Reply, TypeOK
  <2>2. pc' = [pc EXCEPT ![r] = "done"]  BY DEF Reply, Goto
  <2>3. UNCHANGED <<args, stock, balance, keyRow, orders, outbox, postJobs>>  BY DEF tables
  <2>4. drafts' \subseteq Req  OBVIOUS
  <2> QED  BY <1>0, <2>1, <2>2, <2>3, <2>4 DEF TypeOK, MaybeReq
<1>3. OpsFit'  BY <1>1 DEF PInv, OpsFit, OpOf
<1>4. FoundHolds'
  BY <1>1 DEF PInv, FoundHolds, OpOf, KeyHeld, ProductHeld, UserHeld, tables, Amount
<1>5. EventsOfOrders'  BY DEF PInv, EventsOfOrders, Exists, tables
<1>6. OrdersCommitted'  BY <1>1 DEF PInv, OrdersCommitted, Exists, tables
<1>7. KeysOfOrders'  BY <1>1 DEF PInv, KeysOfOrders, Exists, OpOf, tables
<1>8. AnswersOfKeys'  BY <1>1 DEF PInv, AnswersOfKeys, OpOf, tables
<1>9. OneOrderPerKey'  BY DEF PInv, OneOrderPerKey, OpOf, Exists, tables
<1> QED  BY <1>2, <1>3, <1>4, <1>5, <1>6, <1>7, <1>8, <1>9 DEF PInv
(* ROLLBACK: nothing was written, so nothing is left. *)
LEMMA RollBackStep ==
  ASSUME PInv, NEW r \in Req, NEW kind, pc[r] \notin {"committed", "done"},
         RollBack(r, kind), UNCHANGED args
  PROVE  PInv'
<1> DEFINE a == AnswerOf(kind, NoReq, "none")
<1>1. /\ Reply(r, a) /\ EndTransaction(r) /\ Goto(r, "done")
      /\ UNCHANGED tables
  BY DEF RollBack, Refuse, Reply
<1>2. ~Exists(r)  BY DEF PInv, OrdersCommitted
<1>3. a.order = NoReq  BY DEF AnswerOf
<1> HIDE DEF a
<1>4. /\ productLock' \in [Product -> MaybeReq]
      /\ userLock' \in [User -> MaybeReq]
      /\ keyLock' \in [Key -> MaybeReq]
      /\ drafts' = {s \in Req : pc'[s] = "enqueued"}
      /\ KeyLocks' /\ ProductLocks' /\ UserLocks'
  BY <1>1, TransactionEnds
<1> QED  BY <1>1, <1>2, <1>3, <1>4, AnswerStep

(* The same without a transaction to end. *)
LEMMA PlainAnswerStep ==
  ASSUME PInv, NEW r \in Req, NEW a, pc[r] \notin InTransaction \union {"done"},
         Reply(r, a), UNCHANGED <<args, tables, transactions>>,
         Exists(r) => a.kind \notin Refusals,
         OpOf(r) = "create" /\ a.order # NoReq =>
           keyRow[args[r].key] = a.order /\ args[a.order].body = args[r].body
  PROVE  PInv'
<1>1. UNCHANGED <<args, locks, drafts>> /\ UNCHANGED <<args, tables>>  BY DEF transactions
<1>2. Goto(r, "done") /\ "done" \notin InTransaction /\ pc[r] \notin InTransaction
  BY DEF Reply, InTransaction
<1>3. /\ drafts' = {s \in Req : pc'[s] = "enqueued"}
      /\ KeyLocks' /\ ProductLocks' /\ UserLocks'
  BY <1>1, <1>2, LocksStay
<1>4. /\ productLock' \in [Product -> MaybeReq]
      /\ userLock' \in [User -> MaybeReq]
      /\ keyLock' \in [Key -> MaybeReq]
  BY <1>1 DEF PInv, TypeOK, locks
<1> QED  BY <1>1, <1>3, <1>4, AnswerStep

(* A request goes on, and no table changes. *)
LEMMA MoveStep ==
  ASSUME PInv, NEW r \in Req, pc[r] \notin {"committed", "done"},
         NEW l \in {"stock", "balance", "claimed", "ordered", "enqueued", "replay"},
         Goto(r, l), UNCHANGED <<args, tables, answer>>,
         l = "replay" => keyRow[args[r].key] # NoReq,
         productLock' \in [Product -> MaybeReq],
         userLock' \in [User -> MaybeReq],
         keyLock' \in [Key -> MaybeReq],
         drafts' = {s \in Req : pc'[s] = "enqueued"},
         OpsFit', KeyLocks', ProductLocks', UserLocks', FoundHolds'
  PROVE  PInv'
<1>0. TypeOK  BY DEF PInv
<1>1. \A s \in Req : pc'[s] = IF s = r THEN l ELSE pc[s]
  BY <1>0 DEF Goto, TypeOK
<1>2. TypeOK'
  <2>1. pc' = [pc EXCEPT ![r] = l]  BY DEF Goto
  <2>2. UNCHANGED <<args, stock, balance, keyRow, orders, outbox, postJobs, answer>>  BY DEF tables
  <2> QED  BY <1>0, <2>1, <2>2 DEF TypeOK, MaybeReq
<1>3. EventsOfOrders'  BY DEF PInv, EventsOfOrders, Exists, tables
<1>4. OrdersCommitted'  BY <1>1 DEF PInv, OrdersCommitted, Exists, tables
<1>5. KeysOfOrders'  BY <1>1 DEF PInv, KeysOfOrders, Exists, OpOf, tables
<1>6. AnswersOfKeys'  BY DEF PInv, AnswersOfKeys, OpOf, tables
<1>7. OneOrderPerKey'  BY DEF PInv, OneOrderPerKey, OpOf, Exists, tables
<1> QED  BY <1>2, <1>3, <1>4, <1>5, <1>6, <1>7 DEF PInv

(* checkout's UPDATE of the stock: the lock is free, so no open checkout    *)
(* holds the product, and the stock suffices while it is held.              *)
LEMMA TakeStockStep ==
  ASSUME PInv, NEW r \in Req, TakeStock(r), UNCHANGED args
  PROVE  PInv'
<1> DEFINE p == args[r].product
<1>0. TypeOK /\ NoReq \notin Req  BY PlacementAssumption DEF PInv
<1>1. pc[r] = "start" /\ OpOf(r) = "checkout"  BY DEF TakeStock
<1>2. p \in Product  BY <1>0, <1>1, ArgsFit DEF TypeOK
<1>3. CASE RollBack(r, "no stock")  BY <1>1, <1>3, RollBackStep
<1>4. CASE /\ stock[p] >= args[r].qty /\ productLock[p] = NoReq
           /\ productLock' = [productLock EXCEPT ![p] = r]
           /\ Goto(r, "stock")
           /\ UNCHANGED <<tables, userLock, keyLock, drafts, emitted, answer>>
  <2>1. \A s \in Req : pc'[s] = IF s = r THEN "stock" ELSE pc[s]
    BY <1>0, <1>4 DEF Goto, TypeOK
  <2>2. \A q \in Product : productLock'[q] = IF q = p THEN r ELSE productLock[q]
    BY <1>0, <1>4 DEF TypeOK
  <2>3. productLock' \in [Product -> MaybeReq]  BY <1>0, <1>4 DEF TypeOK, MaybeReq
  <2>4. userLock' \in [User -> MaybeReq] /\ keyLock' \in [Key -> MaybeReq]
    BY <1>0, <1>4 DEF TypeOK
  <2>5. drafts' = {s \in Req : pc'[s] = "enqueued"}
    BY <1>1, <1>4, <2>1 DEF PInv, EventsOfOrders
  <2>6. OpsFit'  BY <1>1, <2>1 DEF PInv, OpsFit, OpOf
  <2>7. KeyLocks'  BY <1>1, <1>4, <2>1 DEF PInv, KeyLocks, OpOf
  <2>8. ProductLocks'
    BY <1>0, <1>1, <1>4, <2>1, <2>2 DEF PInv, ProductLocks, OpOf, ProductHeld
  <2>9. UserLocks'  BY <1>1, <1>4, <2>1 DEF PInv, UserLocks, OpOf, UserHeld
  <2>10. FoundHolds'
    BY <1>1, <1>4, <2>1 DEF PInv, FoundHolds, OpOf, KeyHeld, ProductHeld, UserHeld, Amount, tables
  <2>11. Goto(r, "stock") /\ UNCHANGED <<args, tables, answer>>  BY <1>4
  <2> QED  BY <1>1, <2>3, <2>4, <2>5, <2>6, <2>7, <2>8, <2>9, <2>10, <2>11, MoveStep
<1> QED  BY <1>3, <1>4 DEF TakeStock

(* checkout's UPDATE of the balance, under the user's lock. *)
LEMMA TakeBalanceStep ==
  ASSUME PInv, NEW r \in Req, TakeBalance(r), UNCHANGED args
  PROVE  PInv'
<1> DEFINE u == args[r].user
<1>0. TypeOK /\ NoReq \notin Req  BY PlacementAssumption DEF PInv
<1>1. pc[r] = "stock" /\ OpOf(r) = "checkout"  BY DEF TakeBalance, PInv, OpsFit
<1>2. u \in User  BY <1>0, <1>1, ArgsFit DEF TypeOK
<1>3. CASE RollBack(r, "no funds")  BY <1>1, <1>3, RollBackStep
<1>4. CASE /\ balance[u] >= Amount(r) /\ userLock[u] = NoReq
           /\ userLock' = [userLock EXCEPT ![u] = r]
           /\ Goto(r, "balance")
           /\ UNCHANGED <<tables, productLock, keyLock, drafts, emitted, answer>>
  <2>1. \A s \in Req : pc'[s] = IF s = r THEN "balance" ELSE pc[s]
    BY <1>0, <1>4 DEF Goto, TypeOK
  <2>2. \A v \in User : userLock'[v] = IF v = u THEN r ELSE userLock[v]
    BY <1>0, <1>4 DEF TypeOK
  <2>3. userLock' \in [User -> MaybeReq]  BY <1>0, <1>4 DEF TypeOK, MaybeReq
  <2>4. productLock' \in [Product -> MaybeReq] /\ keyLock' \in [Key -> MaybeReq]
    BY <1>0, <1>4 DEF TypeOK
  <2>5. drafts' = {s \in Req : pc'[s] = "enqueued"}
    BY <1>1, <1>4, <2>1 DEF PInv, EventsOfOrders
  <2>6. OpsFit'  BY <1>1, <2>1 DEF PInv, OpsFit, OpOf
  <2>7. KeyLocks'  BY <1>1, <1>4, <2>1 DEF PInv, KeyLocks, OpOf
  <2>8. ProductLocks'  BY <1>1, <1>4, <2>1 DEF PInv, ProductLocks, OpOf, ProductHeld
  <2>9. UserLocks'
    BY <1>0, <1>1, <1>4, <2>1, <2>2 DEF PInv, UserLocks, OpOf, UserHeld
  <2>10. FoundHolds'
    BY <1>1, <1>4, <2>1 DEF PInv, FoundHolds, OpOf, KeyHeld, ProductHeld, UserHeld, Amount, tables
  <2>11. Goto(r, "balance") /\ UNCHANGED <<args, tables, answer>>  BY <1>4
  <2> QED  BY <1>1, <2>3, <2>4, <2>5, <2>6, <2>7, <2>8, <2>9, <2>10, <2>11, MoveStep
<1> QED  BY <1>3, <1>4 DEF TakeBalance

(* INSERT INTO idempotency_keys: either the key is committed and replayed,  *)
(* or its lock is free and no open transaction has it.                      *)
LEMMA ClaimKeyStep ==
  ASSUME PInv, NEW r \in Req, ClaimKey(r), UNCHANGED args
  PROVE  PInv'
<1> DEFINE k == args[r].key
<1>0. TypeOK /\ NoReq \notin Req  BY PlacementAssumption DEF PInv
<1>1. pc[r] = "start" /\ OpOf(r) = "create"  BY DEF ClaimKey
<1>2. k \in Key  BY <1>0, <1>1, ArgsFit DEF TypeOK
<1>3. UNCHANGED <<args, tables, answer, drafts>>  BY DEF ClaimKey
<1>4. CASE keyRow[k] # NoReq /\ Goto(r, "replay") /\ UNCHANGED locks
  <2>1. \A s \in Req : pc'[s] = IF s = r THEN "replay" ELSE pc[s]
    BY <1>0, <1>4 DEF Goto, TypeOK
  <2>2. /\ drafts' = {s \in Req : pc'[s] = "enqueued"}
        /\ KeyLocks' /\ ProductLocks' /\ UserLocks'
    BY <1>1, <1>3, <1>4, LocksStay DEF InTransaction
  <2>3. OpsFit'  BY <1>1, <2>1 DEF PInv, OpsFit, OpOf
  <2>4. FoundHolds'
    BY <1>3, <2>1 DEF PInv, FoundHolds, OpOf, KeyHeld, ProductHeld, UserHeld, Amount, tables
  <2>5. /\ productLock' \in [Product -> MaybeReq]
        /\ userLock' \in [User -> MaybeReq]
        /\ keyLock' \in [Key -> MaybeReq]
    BY <1>0, <1>4 DEF TypeOK, locks
  <2> QED  BY <1>1, <1>3, <1>4, <2>2, <2>3, <2>4, <2>5, MoveStep
<1>5. CASE /\ keyRow[k] = NoReq /\ keyLock[k] = NoReq
           /\ keyLock' = [keyLock EXCEPT ![k] = r]
           /\ Goto(r, "claimed")
           /\ UNCHANGED <<productLock, userLock>>
  <2>1. \A s \in Req : pc'[s] = IF s = r THEN "claimed" ELSE pc[s]
    BY <1>0, <1>5 DEF Goto, TypeOK
  <2>2. \A j \in Key : keyLock'[j] = IF j = k THEN r ELSE keyLock[j]
    BY <1>0, <1>5 DEF TypeOK
  <2>3. keyLock' \in [Key -> MaybeReq]  BY <1>0, <1>5 DEF TypeOK, MaybeReq
  <2>4. productLock' \in [Product -> MaybeReq] /\ userLock' \in [User -> MaybeReq]
    BY <1>0, <1>5 DEF TypeOK
  <2>5. drafts' = {s \in Req : pc'[s] = "enqueued"}
    BY <1>1, <1>3, <2>1 DEF PInv, EventsOfOrders
  <2>6. OpsFit'  BY <1>1, <2>1 DEF PInv, OpsFit, OpOf
  <2>7. KeyLocks'
    BY <1>0, <1>1, <1>3, <1>5, <2>1, <2>2 DEF PInv, KeyLocks, OpOf, KeyHeld
  <2>8. ProductLocks'  BY <1>1, <1>3, <1>5, <2>1 DEF PInv, ProductLocks, OpOf
  <2>9. UserLocks'  BY <1>1, <1>3, <1>5, <2>1 DEF PInv, UserLocks, OpOf
  <2>10. FoundHolds'
    BY <1>1, <1>3, <1>5, <2>1
       DEF PInv, FoundHolds, OpOf, KeyHeld, ProductHeld, UserHeld, Amount, tables
  <2> QED
    BY <1>1, <1>3, <1>5, <2>3, <2>4, <2>5, <2>6, <2>7, <2>8, <2>9, <2>10, MoveStep
<1> QED  BY <1>4, <1>5 DEF ClaimKey
(* The INSERTs of the order and of its event: seen by nobody before COMMIT. *)
LEMMA InsertStep ==
  ASSUME PInv, NEW r \in Req, InsertOrder(r) \/ EnqueueOrderPlaced(r), UNCHANGED args
  PROVE  PInv'
<1>0. TypeOK  BY DEF PInv
<1>1. PICK l \in {"ordered", "enqueued"} :
        /\ Goto(r, l)
        /\ UNCHANGED <<tables, locks, answer>>
        /\ \/ l = "ordered" /\ drafts' = drafts /\ pc[r] \in {"balance", "claimed"}
           \/ l = "enqueued" /\ drafts' = drafts \union {r} /\ pc[r] = "ordered"
  BY DEF InsertOrder, EnqueueOrderPlaced, transactions
<1>2. \A s \in Req : pc'[s] = IF s = r THEN l ELSE pc[s]
  BY <1>0, <1>1 DEF Goto, TypeOK
<1>3. /\ OpOf(r) = "create" => (pc[r] \in KeyHeld /\ l \in KeyHeld)
      /\ OpOf(r) = "checkout" => /\ pc[r] \in ProductHeld /\ l \in ProductHeld
                                 /\ pc[r] \in UserHeld /\ l \in UserHeld
  BY <1>1 DEF PInv, OpsFit, KeyHeld, ProductHeld, UserHeld
<1>4. /\ productLock' \in [Product -> MaybeReq]
      /\ userLock' \in [User -> MaybeReq]
      /\ keyLock' \in [Key -> MaybeReq]
  BY <1>0, <1>1 DEF TypeOK, locks
<1>5. drafts' = {s \in Req : pc'[s] = "enqueued"}
  BY <1>1, <1>2 DEF PInv, EventsOfOrders
<1>6. OpsFit'  BY <1>1, <1>2 DEF PInv, OpsFit, OpOf
<1>7. KeyLocks'  BY <1>1, <1>2, <1>3 DEF PInv, KeyLocks, OpOf, locks
<1>8. ProductLocks'  BY <1>1, <1>2, <1>3 DEF PInv, ProductLocks, OpOf, locks
<1>9. UserLocks'  BY <1>1, <1>2, <1>3 DEF PInv, UserLocks, OpOf, locks
<1>10. FoundHolds'  BY <1>1, <1>2, <1>3 DEF PInv, FoundHolds, OpOf, Amount, tables
<1>11. pc[r] \notin {"committed", "done"}  BY <1>1
<1> QED
  BY <1>1, <1>4, <1>5, <1>6, <1>7, <1>8, <1>9, <1>10, <1>11, MoveStep

-----------------------------------------------------------------------------
(* COMMIT of a checkout: it alone holds the product and the user, so what   *)
(* it takes is there, and nobody else's finding is disturbed.               *)
LEMMA CommitCheckoutStep ==
  ASSUME PInv, NEW r \in Req, CommitCheckout(r), UNCHANGED args
  PROVE  PInv'
<1> DEFINE p == args[r].product
           u == args[r].user
           a == AnswerOf("paid", r, "paid")
<1>0. TypeOK  BY DEF PInv
<1>1. /\ pc[r] = "enqueued" /\ OpOf(r) = "checkout"
      /\ EndTransaction(r) /\ Goto(r, "done") /\ UNCHANGED args
      /\ answer' = [answer EXCEPT ![r] = a]
      /\ orders' = [orders EXCEPT ![r] = "paid"]
      /\ outbox' = outbox \union (drafts \intersect {r})
      /\ postJobs' = postJobs \union {r}
      /\ stock' = [stock EXCEPT ![p] = @ - args[r].qty]
      /\ balance' = [balance EXCEPT ![u] = @ - Amount(r)]
      /\ keyRow' = keyRow
  BY DEF CommitCheckout, Reply
<1>2. /\ p \in Product /\ u \in User
      /\ args[r].qty \in Int /\ Amount(r) \in Int
  BY <1>0, <1>1, ArgsFit DEF TypeOK
<1>3. /\ productLock' \in [Product -> MaybeReq]
      /\ userLock' \in [User -> MaybeReq]
      /\ keyLock' \in [Key -> MaybeReq]
      /\ drafts' = {s \in Req : pc'[s] = "enqueued"}
      /\ KeyLocks' /\ ProductLocks' /\ UserLocks'
  BY <1>1, TransactionEnds
<1>4. /\ \A s \in Req : pc'[s] = IF s = r THEN "done" ELSE pc[s]
      /\ \A s \in Req : answer'[s] = IF s = r THEN a ELSE answer[s]
      /\ \A s \in Req : orders'[s] = IF s = r THEN "paid" ELSE orders[s]
  BY <1>0, <1>1 DEF Goto, TypeOK
<1>5. \A s \in Req : Exists(s)' <=> s = r \/ Exists(s)  BY <1>4 DEF Exists
<1>6. a.kind = "paid" /\ a.kind \notin Refusals  BY DEF AnswerOf, Refusals
<1>7. stock[p] >= args[r].qty /\ balance[u] >= Amount(r)
  BY <1>1 DEF PInv, FoundHolds, ProductHeld, UserHeld
<1>8. stock' \in [Product -> Nat] /\ balance' \in [User -> Nat]
  <2>1. stock[p] - args[r].qty \in Nat /\ balance[u] - Amount(r) \in Nat
    BY <1>0, <1>2, <1>7 DEF TypeOK
  <2> QED  BY <1>0, <1>1, <2>1 DEF TypeOK
<1>9. TypeOK'
  <2>1. DOMAIN answer' = Req /\ DOMAIN orders' = Req  BY <1>0, <1>1 DEF TypeOK
  <2>2. pc' = [pc EXCEPT ![r] = "done"]  BY <1>1 DEF Goto
  <2>3. postJobs' \subseteq Req /\ outbox' \subseteq Req /\ drafts' \subseteq Req
    BY <1>0, <1>1, <1>3 DEF TypeOK
  <2> QED  BY <1>0, <1>1, <1>3, <1>8, <2>1, <2>2, <2>3 DEF TypeOK, MaybeReq
<1>10. OpsFit'  BY <1>1, <1>4 DEF PInv, OpsFit, OpOf
<1>11. FoundHolds'
  <2> SUFFICES ASSUME NEW s \in Req
               PROVE  /\ OpOf(s) = "create" /\ pc'[s] \in KeyHeld => keyRow[args[s].key] = NoReq
                      /\ OpOf(s) = "checkout" /\ pc'[s] \in ProductHeld =>
                           stock'[args[s].product] >= args[s].qty
                      /\ OpOf(s) = "checkout" /\ pc'[s] \in UserHeld =>
                           balance'[args[s].user] >= Amount(s)
    BY <1>1 DEF FoundHolds, OpOf, Amount
  <2>1. CASE s = r  BY <1>4, <2>1 DEF KeyHeld, ProductHeld, UserHeld
  <2>2. CASE s # r
    <3>1. pc'[s] = pc[s]  BY <1>4, <2>2
    <3>2. OpOf(s) = "checkout" /\ pc[s] \in ProductHeld =>
            args[s].product \in Product /\ args[s].product # p
      <4>1. OpOf(s) = "checkout" => args[s].product \in Product
        BY <1>0, ArgsFit DEF TypeOK
      <4>2. productLock[p] = r
        BY <1>1, <1>2 DEF PInv, ProductLocks, ProductHeld
      <4> QED  BY <1>2, <2>2, <4>1, <4>2 DEF PInv, ProductLocks
    <3>3. OpOf(s) = "checkout" /\ pc[s] \in UserHeld =>
            args[s].user \in User /\ args[s].user # u
      <4>1. OpOf(s) = "checkout" => args[s].user \in User
        BY <1>0, ArgsFit DEF TypeOK
      <4>2. userLock[u] = r
        BY <1>1, <1>2 DEF PInv, UserLocks, UserHeld
      <4> QED  BY <1>2, <2>2, <4>1, <4>2 DEF PInv, UserLocks
    <3> QED  BY <1>0, <1>1, <3>1, <3>2, <3>3 DEF PInv, FoundHolds, TypeOK
  <2> QED  BY <2>1, <2>2
<1>12. EventsOfOrders'
  <2>1. r \in drafts  BY <1>1 DEF PInv, EventsOfOrders
  <2> QED  BY <1>1, <1>3, <1>5, <2>1 DEF PInv, EventsOfOrders
<1>13. OrdersCommitted'
  BY <1>1, <1>4, <1>5, <1>6 DEF PInv, OrdersCommitted
<1>14. KeysOfOrders'  BY <1>0, <1>1, <1>4, <1>5 DEF PInv, KeysOfOrders, OpOf, TypeOK, MaybeReq
<1>15. AnswersOfKeys'  BY <1>1, <1>4 DEF PInv, AnswersOfKeys, OpOf
<1>16. OneOrderPerKey'  BY <1>1, <1>5 DEF PInv, OneOrderPerKey, OpOf
<1> QED
  BY <1>3, <1>9, <1>10, <1>11, <1>12, <1>13, <1>14, <1>15, <1>16 DEF PInv

(* COMMIT of a create: its key is still without an order, since it holds it. *)
LEMMA CommitCreateStep ==
  ASSUME PInv, NEW r \in Req, CommitCreate(r), UNCHANGED args
  PROVE  PInv'
<1> DEFINE k == args[r].key
<1>0. TypeOK /\ NoReq \notin Req  BY PlacementAssumption DEF PInv
<1>1. /\ pc[r] = "enqueued" /\ OpOf(r) = "create"
      /\ EndTransaction(r) /\ Goto(r, "committed") /\ UNCHANGED args
      /\ orders' = [orders EXCEPT ![r] = "created"]
      /\ outbox' = outbox \union (drafts \intersect {r})
      /\ keyRow' = [keyRow EXCEPT ![k] = r]
      /\ UNCHANGED <<stock, balance, postJobs, answer>>
  BY DEF CommitCreate
<1>2. k \in Key  BY <1>0, <1>1, ArgsFit DEF TypeOK
<1>3. /\ productLock' \in [Product -> MaybeReq]
      /\ userLock' \in [User -> MaybeReq]
      /\ keyLock' \in [Key -> MaybeReq]
      /\ drafts' = {s \in Req : pc'[s] = "enqueued"}
      /\ KeyLocks' /\ ProductLocks' /\ UserLocks'
  BY <1>1, TransactionEnds
<1>4. /\ \A s \in Req : pc'[s] = IF s = r THEN "committed" ELSE pc[s]
      /\ \A s \in Req : orders'[s] = IF s = r THEN "created" ELSE orders[s]
      /\ \A j \in Key : keyRow'[j] = IF j = k THEN r ELSE keyRow[j]
  BY <1>0, <1>1 DEF Goto, TypeOK
<1>5. \A s \in Req : Exists(s)' <=> s = r \/ Exists(s)  BY <1>4 DEF Exists
<1>6. keyRow[k] = NoReq  BY <1>1 DEF PInv, FoundHolds, KeyHeld
<1>7. answer[r] = NoAnswer /\ NoAnswer.kind \notin Refusals
  BY <1>1 DEF PInv, OrdersCommitted, NoAnswer, AnswerOf, Refusals
<1>8. \A s \in Req : OpOf(s) = "create" => args[s].key \in Key
  BY <1>0, ArgsFit DEF TypeOK
<1>9. TypeOK'
  <2>1. DOMAIN answer' = Req /\ DOMAIN orders' = Req  BY <1>0, <1>1 DEF TypeOK
  <2>2. pc' = [pc EXCEPT ![r] = "committed"]  BY <1>1 DEF Goto
  <2>3. outbox' \subseteq Req /\ drafts' \subseteq Req
    BY <1>0, <1>1, <1>3 DEF TypeOK
  <2>4. keyRow' \in [Key -> MaybeReq]  BY <1>0, <1>1 DEF TypeOK, MaybeReq
  <2> QED  BY <1>0, <1>1, <1>3, <2>1, <2>2, <2>3, <2>4 DEF TypeOK, MaybeReq
<1>10. OpsFit'  BY <1>1, <1>4 DEF PInv, OpsFit, OpOf
<1>11. FoundHolds'
  <2> SUFFICES ASSUME NEW s \in Req
               PROVE  /\ OpOf(s) = "create" /\ pc'[s] \in KeyHeld => keyRow'[args[s].key] = NoReq
                      /\ OpOf(s) = "checkout" /\ pc'[s] \in ProductHeld =>
                           stock[args[s].product] >= args[s].qty
                      /\ OpOf(s) = "checkout" /\ pc'[s] \in UserHeld =>
                           balance[args[s].user] >= Amount(s)
    BY <1>1 DEF FoundHolds, OpOf, Amount
  <2>1. CASE s = r  BY <1>4, <2>1 DEF KeyHeld, ProductHeld, UserHeld
  <2>2. CASE s # r
    <3>1. pc'[s] = pc[s]  BY <1>4, <2>2
    <3>2. OpOf(s) = "create" /\ pc[s] \in KeyHeld => args[s].key # k
      <4>1. keyLock[k] = r  BY <1>1, <1>2 DEF PInv, KeyLocks, KeyHeld
      <4> QED  BY <1>2, <2>2, <4>1 DEF PInv, KeyLocks
    <3> QED  BY <1>4, <1>8, <3>1, <3>2 DEF PInv, FoundHolds
  <2> QED  BY <2>1, <2>2
<1>12. EventsOfOrders'
  <2>1. r \in drafts  BY <1>1 DEF PInv, EventsOfOrders
  <2> QED  BY <1>1, <1>3, <1>5, <2>1 DEF PInv, EventsOfOrders
<1>13. OrdersCommitted'
  BY <1>1, <1>4, <1>5, <1>7 DEF PInv, OrdersCommitted
<1>14. KeysOfOrders'
  <2>1. ASSUME NEW j \in Key, keyRow'[j] # NoReq
        PROVE  /\ orders'[keyRow'[j]] # "none"
               /\ OpOf(keyRow'[j]) = "create" /\ args[keyRow'[j]].key = j
    <3>1. CASE j = k  BY <1>1, <1>4, <3>1
    <3>2. CASE j # k
      <4>1. keyRow[j] \in Req /\ keyRow'[j] = keyRow[j]
        BY <1>0, <1>4, <2>1, <3>2 DEF TypeOK, MaybeReq
      <4> QED  BY <1>4, <2>1, <4>1 DEF PInv, KeysOfOrders, Exists
    <3> QED  BY <3>1, <3>2
  <2>2. \A s \in Req : pc'[s] = "replay" => keyRow'[args[s].key] # NoReq
    BY <1>0, <1>1, <1>4, <1>8 DEF PInv, KeysOfOrders, OpsFit
  <2> QED  BY <1>1, <2>1, <2>2 DEF KeysOfOrders, OpOf, Exists
<1>15. AnswersOfKeys'
  <2> SUFFICES ASSUME NEW s \in Req, OpOf(s) = "create", answer[s].order # NoReq
               PROVE  /\ keyRow'[args[s].key] = answer[s].order
                      /\ args[answer[s].order].body = args[s].body
    BY <1>1 DEF AnswersOfKeys, OpOf
  <2>1. /\ keyRow[args[s].key] = answer[s].order
        /\ args[answer[s].order].body = args[s].body
    BY DEF PInv, AnswersOfKeys
  <2> QED  BY <1>4, <1>6, <1>8, <2>1
<1>16. OneOrderPerKey'
  <2> SUFFICES ASSUME NEW s \in Req, OpOf(s) = "create", Exists(s)'
               PROVE  keyRow'[args[s].key] = s
    BY <1>1 DEF OneOrderPerKey, OpOf
  <2>1. CASE s = r  BY <1>2, <1>4, <2>1
  <2>2. CASE s # r
    <3>1. keyRow[args[s].key] = s  BY <1>5, <2>2 DEF PInv, OneOrderPerKey
    <3> QED  BY <1>0, <1>4, <1>6, <1>8, <3>1
  <2> QED  BY <2>1, <2>2
<1> QED
  BY <1>3, <1>9, <1>10, <1>11, <1>12, <1>13, <1>14, <1>15, <1>16 DEF PInv
-----------------------------------------------------------------------------
(* updateStatus changes the status of an order, never whether it exists;    *)
(* emitStatusChanged changes no table.                                      *)
LEMMA UpdateStep ==
  ASSUME PInv, NEW r \in Req, UNCHANGED args,
         \/ EmitStatus(r)
         \/ UpdateStatus(r) /\ Exists(args[r].target)
  PROVE  PInv'
<1>0. TypeOK  BY DEF PInv
<1>1. PICK l \in {"updated", "emitted"} :
        /\ Goto(r, l)
        /\ UNCHANGED <<stock, balance, keyRow, outbox, postJobs, args, locks, drafts, answer>>
        /\ pc[r] \in {"start", "updated"} /\ OpOf(r) = "update"
        /\ \/ orders' = orders
           \/ orders' = [orders EXCEPT ![args[r].target] = args[r].status]
                /\ Exists(args[r].target)
  <2>1. EmitStatus(r) => /\ Goto(r, "emitted") /\ pc[r] = "updated"
                         /\ UNCHANGED <<stock, balance, keyRow, outbox, postJobs, locks, drafts,
                                        answer, orders>>
    BY DEF EmitStatus, tables, transactions
  <2>2. UpdateStatus(r) /\ Exists(args[r].target) =>
          /\ Goto(r, "updated") /\ pc[r] = "start" /\ OpOf(r) = "update"
          /\ orders' = [orders EXCEPT ![args[r].target] = args[r].status]
          /\ UNCHANGED <<stock, balance, keyRow, outbox, postJobs, locks, drafts, answer>>
    BY DEF UpdateStatus, transactions
  <2>3. EmitStatus(r) => OpOf(r) = "update"  BY DEF EmitStatus, PInv, OpsFit
  <2> QED  BY <2>1, <2>2, <2>3
<1>2. \A s \in Req : pc'[s] = IF s = r THEN l ELSE pc[s]
  BY <1>0, <1>1 DEF Goto, TypeOK
<1>3. DOMAIN orders' = Req /\ \A s \in Req : Exists(s)' <=> Exists(s)
  <2>1. OpOf(r) = "update" => args[r].target \in Req /\ args[r].status # "none"
    BY <1>0, ArgsFit DEF TypeOK
  <2> QED  BY <1>0, <1>1, <2>1 DEF TypeOK, Exists
<1>4. /\ drafts' = {s \in Req : pc'[s] = "enqueued"}
      /\ KeyLocks' /\ ProductLocks' /\ UserLocks'
  BY <1>1, LocksStay DEF InTransaction
<1>5. ~Exists(r)  BY <1>1 DEF PInv, OrdersCommitted
<1>6. TypeOK'
  <2>1. pc' = [pc EXCEPT ![r] = l]  BY <1>1 DEF Goto
  <2>2. UNCHANGED <<productLock, userLock, keyLock>>  BY <1>1 DEF locks
  <2> QED  BY <1>0, <1>1, <1>3, <1>4, <2>1, <2>2 DEF TypeOK, MaybeReq
<1>7. OpsFit'  BY <1>1, <1>2 DEF PInv, OpsFit, OpOf
<1>8. FoundHolds'
  BY <1>1, <1>2 DEF PInv, FoundHolds, OpOf, KeyHeld, ProductHeld, UserHeld, Amount
<1>9. EventsOfOrders'  BY <1>1, <1>3, <1>4 DEF PInv, EventsOfOrders
<1>10. OrdersCommitted'  BY <1>1, <1>2, <1>3, <1>5 DEF PInv, OrdersCommitted
<1>11. KeysOfOrders'
  <2>1. ASSUME NEW k \in Key, keyRow[k] # NoReq
        PROVE  orders'[keyRow[k]] # "none" /\ OpOf(keyRow[k]) = "create" /\ args[keyRow[k]].key = k
    <3>1. keyRow[k] \in Req  BY <1>0, <2>1 DEF TypeOK, MaybeReq
    <3> QED  BY <1>3, <2>1, <3>1 DEF PInv, KeysOfOrders, Exists
  <2>2. \A s \in Req : pc'[s] = "replay" => keyRow[args[s].key] # NoReq
    BY <1>1, <1>2 DEF PInv, KeysOfOrders
  <2> QED  BY <1>1, <2>1, <2>2 DEF KeysOfOrders, Exists, OpOf
<1>12. AnswersOfKeys'  BY <1>1 DEF PInv, AnswersOfKeys, OpOf
<1>13. OneOrderPerKey'  BY <1>1, <1>3 DEF PInv, OneOrderPerKey, OpOf
<1> QED
  BY <1>4, <1>6, <1>7, <1>8, <1>9, <1>10, <1>11, <1>12, <1>13 DEF PInv

(* The answers given outside a transaction. *)
LEMMA OtherStep ==
  ASSUME PInv, NEW r \in Req, UNCHANGED args,
         \/ RejectQuantity(r) \/ AnswerCreated(r) \/ AnswerReplay(r) \/ AnswerUpdate(r)
         \/ LoseAnswer(r) \/ (UpdateStatus(r) /\ ~Exists(args[r].target))
  PROVE  PInv'
<1>0. TypeOK  BY DEF PInv
<1> DEFINE o == keyRow[args[r].key]
<1>1. PICK a :
        /\ Reply(r, a)
        /\ UNCHANGED <<tables, transactions>>
        /\ pc[r] \in {"start", "committed", "replay", "updated", "emitted"}
        /\ a.kind \in Refusals => pc[r] # "committed"
        /\ \/ a.order = NoReq
           \/ OpOf(r) = "update"
           \/ pc[r] = "committed" /\ a.order = r
           \/ pc[r] = "replay" /\ a.order = o /\ args[o].body = args[r].body
  <2>1. CASE RejectQuantity(r)
    <3> DEFINE b == AnswerOf("bad request", NoReq, "none")
    <3>1. Reply(r, b) /\ UNCHANGED <<tables, transactions>> /\ pc[r] = "start"
      BY <2>1 DEF RejectQuantity, Refuse
    <3>2. b.order = NoReq  BY DEF AnswerOf
    <3> HIDE DEF b
    <3> QED  BY <3>1, <3>2
  <2>2. CASE AnswerCreated(r)
    <3> DEFINE b == AnswerOf("created", r, "created")
    <3>1. Reply(r, b) /\ UNCHANGED <<tables, transactions>> /\ pc[r] = "committed"
      BY <2>2 DEF AnswerCreated
    <3>2. b.order = r /\ b.kind \notin Refusals  BY DEF AnswerOf, Refusals
    <3> HIDE DEF b
    <3> QED  BY <3>1, <3>2
  <2>3. CASE AnswerReplay(r)
    <3> DEFINE b == AnswerOf("conflict", NoReq, "none")
               c == AnswerOf("replayed", o, orders[o])
    <3>1. /\ UNCHANGED <<tables, transactions>> /\ pc[r] = "replay"
          /\ \/ Reply(r, b)
             \/ Reply(r, c) /\ args[o].body = args[r].body
      BY <2>3 DEF AnswerReplay, Refuse
    <3>2. b.order = NoReq /\ c.order = o  BY DEF AnswerOf
    <3> HIDE DEF b, c, o
    <3> QED  BY <3>1, <3>2
  <2>4. CASE AnswerUpdate(r)
    <3> DEFINE b == AnswerOf("updated", args[r].target, orders[args[r].target])
    <3>1. Reply(r, b) /\ UNCHANGED <<tables, transactions>> /\ pc[r] = "emitted"
      BY <2>4 DEF AnswerUpdate
    <3>2. OpOf(r) = "update"  BY <3>1 DEF PInv, OpsFit
    <3> HIDE DEF b
    <3> QED  BY <3>1, <3>2
  <2>5. CASE LoseAnswer(r)
    <3> DEFINE b == AnswerOf("lost", NoReq, "none")
    <3>1. /\ Reply(r, b) /\ UNCHANGED <<tables, transactions>>
          /\ pc[r] \in {"committed", "updated", "emitted"}
      BY <2>5 DEF LoseAnswer
    <3>2. b.order = NoReq /\ b.kind \notin Refusals  BY DEF AnswerOf, Refusals
    <3> HIDE DEF b
    <3> QED  BY <3>1, <3>2
  <2>6. CASE UpdateStatus(r) /\ ~Exists(args[r].target)
    <3> DEFINE b == AnswerOf("not found", NoReq, "none")
    <3>1. Reply(r, b) /\ UNCHANGED <<tables, transactions>> /\ pc[r] = "start"
      BY <2>6 DEF UpdateStatus, Refuse, tables
    <3>2. b.order = NoReq  BY DEF AnswerOf
    <3> HIDE DEF b
    <3> QED  BY <3>1, <3>2
  <2> QED  BY <2>1, <2>2, <2>3, <2>4, <2>5, <2>6
<1>2. Exists(r) => a.kind \notin Refusals  BY <1>1 DEF PInv, OrdersCommitted
<1>3. OpOf(r) = "create" /\ a.order # NoReq =>
        keyRow[args[r].key] = a.order /\ args[a.order].body = args[r].body
  BY <1>1 DEF PInv, OrdersCommitted, OneOrderPerKey
<1>4. pc[r] \notin InTransaction \union {"done"}  BY <1>1 DEF InTransaction
<1> QED  BY <1>1, <1>2, <1>3, <1>4, PlainAnswerStep

(* Every step keeps the inductive invariant. *)
LEMMA PlacementInvStep == PInv /\ [Next]_vars => PInv'
<1> SUFFICES ASSUME PInv, [Next]_vars PROVE PInv'  OBVIOUS
<1>1. CASE UNCHANGED vars
  BY <1>1 DEF vars, tables, transactions, locks, PInv, TypeOK, OpsFit, KeyLocks, ProductLocks,
     UserLocks, FoundHolds, EventsOfOrders, OrdersCommitted, KeysOfOrders, AnswersOfKeys,
     OneOrderPerKey, Exists, OpOf, Amount
<1>2. ASSUME NEW r \in Req, Step(r) PROVE PInv'
  <2>1. UNCHANGED args  BY <1>2 DEF Step
  <2>2. CASE TakeStock(r)  BY <2>1, <2>2, TakeStockStep
  <2>3. CASE TakeBalance(r)  BY <2>1, <2>3, TakeBalanceStep
  <2>4. CASE CommitCheckout(r)  BY <2>1, <2>4, CommitCheckoutStep
  <2>5. CASE ClaimKey(r)  BY <2>1, <2>5, ClaimKeyStep
  <2>6. CASE RejectBody(r)  BY <2>1, <2>6, RollBackStep DEF RejectBody
  <2>7. CASE CommitCreate(r)  BY <2>1, <2>7, CommitCreateStep
  <2>8. CASE InsertOrder(r) \/ EnqueueOrderPlaced(r)  BY <2>1, <2>8, InsertStep
  <2>9. CASE UpdateStatus(r)
    <3>1. CASE Exists(args[r].target)  BY <2>1, <2>9, <3>1, UpdateStep
    <3>2. CASE ~Exists(args[r].target)  BY <2>1, <2>9, <3>2, OtherStep
    <3> QED  BY <3>1, <3>2
  <2>10. CASE EmitStatus(r)  BY <2>1, <2>10, UpdateStep
  <2>11. CASE RejectQuantity(r) \/ AnswerCreated(r) \/ AnswerReplay(r) \/ AnswerUpdate(r)
    BY <2>1, <2>11, OtherStep
  <2> QED  BY <1>2, <2>2, <2>3, <2>4, <2>5, <2>6, <2>7, <2>8, <2>9, <2>10, <2>11 DEF Step
<1>3. ASSUME NEW r \in Req, Fault(r) PROVE PInv'
  <2>1. UNCHANGED args  BY <1>3 DEF Fault
  <2>2. CASE Abort(r)  BY <2>1, <2>2, RollBackStep DEF Abort, InTransaction
  <2>3. CASE LoseAnswer(r)  BY <2>1, <2>3, OtherStep
  <2> QED  BY <1>3, <2>2, <2>3 DEF Fault
<1> QED  BY <1>1, <1>2, <1>3 DEF Next, AllAnswered

-----------------------------------------------------------------------------
(* Sums over paid orders, as functions of all requests. *)
Qty == [r \in Req |-> args[r].qty]
Due == [r \in Req |-> Amount(r)]

(* What is left and what the paid orders took is what there was; an order   *)
(* is paid once, for a quantity that passed the check, at its COMMIT.       *)
Accounts ==
  /\ \A r \in Req : OpOf(r) = "checkout" /\ pc[r] \in ProductHeld => args[r].qty > 0
  /\ \A r \in postJobs : OpOf(r) = "checkout" /\ pc[r] = "done" /\ args[r].qty > 0
  /\ \A p \in Product : stock[p] + SumFunctionOnSet(Qty, Sold(p)) = InitStock[p]
  /\ \A u \in User : balance[u] + SumFunctionOnSet(Due, Bought(u)) = InitBalance[u]

(* Paid orders are finitely many, each for a number of goods and cents.     *)
LEMMA PaidFinite ==
  ASSUME TypeOK, Accounts
  PROVE  /\ \A p \in Product : IsFiniteSet(Sold(p)) /\ Sold(p) \subseteq Req
         /\ \A u \in User : IsFiniteSet(Bought(u)) /\ Bought(u) \subseteq Req
         /\ \A r \in postJobs : Qty[r] \in Nat /\ Due[r] \in Nat
<1>1. \A p \in Product : IsFiniteSet(Sold(p)) /\ Sold(p) \subseteq Req
  BY PlacementAssumption, FS_Subset DEF Sold
<1>2. \A u \in User : IsFiniteSet(Bought(u)) /\ Bought(u) \subseteq Req
  BY PlacementAssumption, FS_Subset DEF Bought
<1>3. ASSUME NEW r \in postJobs PROVE Qty[r] \in Nat /\ Due[r] \in Nat
  <2>1. /\ r \in Req /\ args[r].product \in Product
        /\ args[r].qty \in Int /\ args[r].qty > 0
    BY <1>3, ArgsFit DEF TypeOK, Accounts
  <2>2. Price[args[r].product] \in Nat /\ args[r].qty \in Nat
    BY <2>1, PlacementAssumption
  <2>3. Price[args[r].product] * args[r].qty \in Nat  BY <2>2
  <2> QED  BY <2>1, <2>2, <2>3 DEF Qty, Due, Amount
<1> QED  BY <1>1, <1>2, <1>3

(* Nothing is sold before the first request. *)
LEMMA AccountsInit == Init => Accounts
<1> SUFFICES ASSUME Init PROVE Accounts  OBVIOUS
<1>1. /\ \A r \in Req : pc[r] = "start"
      /\ postJobs = {} /\ stock = InitStock /\ balance = InitBalance
  BY DEF Init
<1>2. /\ \A p \in Product : Sold(p) = {} /\ InitStock[p] \in Nat
      /\ \A u \in User : Bought(u) = {} /\ InitBalance[u] \in Nat
  BY <1>1, PlacementAssumption DEF Init, Sold, Bought, Paid
<1>3. ASSUME NEW p \in Product PROVE stock[p] + SumFunctionOnSet(Qty, Sold(p)) = InitStock[p]
  <2>1. SumFunctionOnSet(Qty, Sold(p)) = SumFunctionOnSet(Qty, {})  BY <1>2
  <2>2. SumFunctionOnSet(Qty, {}) = 0  BY SumEmpty
  <2> QED  BY <1>1, <1>2, <2>1, <2>2
<1>4. ASSUME NEW u \in User PROVE balance[u] + SumFunctionOnSet(Due, Bought(u)) = InitBalance[u]
  <2>1. SumFunctionOnSet(Due, Bought(u)) = SumFunctionOnSet(Due, {})  BY <1>2
  <2>2. SumFunctionOnSet(Due, {}) = 0  BY SumEmpty
  <2> QED  BY <1>1, <1>2, <2>1, <2>2
<1> QED  BY <1>1, <1>3, <1>4 DEF Accounts, ProductHeld

(* Where no order is paid, the accounts stay. *)
LEMMA AccountsKept ==
  ASSUME Accounts, UNCHANGED <<args, stock, balance, postJobs>>,
         \A r \in Req : OpOf(r) = "checkout" /\ pc'[r] \in ProductHeld => args[r].qty > 0,
         \A r \in postJobs : pc'[r] = "done"
  PROVE  Accounts'
<1>1. /\ \A p : Sold(p)' = Sold(p)
      /\ \A u : Bought(u)' = Bought(u)
      /\ Qty' = Qty /\ Due' = Due
      /\ \A r : OpOf(r)' = OpOf(r)
  BY DEF Sold, Bought, Paid, Qty, Due, Amount, OpOf
<1> QED  BY <1>1 DEF Accounts

(* COMMIT of a checkout moves its quantity and its amount, once. *)
LEMMA AccountsCommit ==
  ASSUME TypeOK, Accounts, NEW r \in Req, OpOf(r) = "checkout", CommitCheckout(r), UNCHANGED args
  PROVE  Accounts'
<1> DEFINE p == args[r].product
           u == args[r].user
<1>1. /\ pc[r] = "enqueued"
      /\ stock' = [stock EXCEPT ![p] = @ - args[r].qty]
      /\ balance' = [balance EXCEPT ![u] = @ - Amount(r)]
      /\ postJobs' = postJobs \union {r}
      /\ pc' = [pc EXCEPT ![r] = "done"]
  BY DEF CommitCheckout, Reply, Goto
<1>2. p \in Product /\ u \in User /\ args[r].qty \in Int /\ Amount(r) \in Int
  BY ArgsFit DEF TypeOK
<1>3. args[r].qty > 0 /\ r \notin postJobs
  BY <1>1 DEF Accounts, ProductHeld
<1>4. Qty' = Qty /\ Due' = Due /\ Qty[r] = args[r].qty /\ Due[r] = Amount(r)
  BY DEF Qty, Due, Amount
<1>5. \A q \in Product : IF q = p THEN Sold(q)' = Sold(q) \union {r} /\ r \notin Sold(q)
                                  ELSE Sold(q)' = Sold(q)
  BY <1>1, <1>3 DEF Sold, Paid
<1>6. \A v \in User : IF v = u THEN Bought(v)' = Bought(v) \union {r} /\ r \notin Bought(v)
                               ELSE Bought(v)' = Bought(v)
  BY <1>1, <1>3 DEF Bought, Paid
<1> HIDE DEF p, u
<1>7. ASSUME NEW q \in Product PROVE stock'[q] + SumFunctionOnSet(Qty', Sold(q)') = InitStock[q]
  <2>1. stock[q] + SumFunctionOnSet(Qty, Sold(q)) = InitStock[q]  BY DEF Accounts
  <2>2. IsFiniteSet(Sold(q)) /\ \A s \in Sold(q) : Qty[s] \in Int
    BY PaidFinite DEF Sold, Paid
  <2>3. SumFunctionOnSet(Qty, Sold(q)) \in Int /\ stock[q] \in Int
    BY <2>2, SumType DEF TypeOK
  <2>4. CASE q = p
    <3>1. Sold(q)' = Sold(q) \union {r} /\ r \notin Sold(q)  BY <1>5, <2>4
    <3>2. SumFunctionOnSet(Qty, Sold(q) \union {r}) = SumFunctionOnSet(Qty, Sold(q)) + Qty[r]
      <4>1. \A s \in Sold(q) \union {r} : Qty[s] \in Int  BY <1>2, <1>4, <2>2
      <4> QED  BY <2>2, <3>1, <4>1, SumAdds
    <3>3. stock'[q] = stock[q] - args[r].qty  BY <1>1, <2>4 DEF TypeOK
    <3> QED  BY <1>2, <1>4, <2>1, <2>3, <3>1, <3>2, <3>3
  <2>5. CASE q # p  BY <1>1, <1>4, <1>5, <2>1, <2>5 DEF TypeOK
  <2> QED  BY <2>4, <2>5
<1>8. ASSUME NEW v \in User PROVE balance'[v] + SumFunctionOnSet(Due', Bought(v)') = InitBalance[v]
  <2>1. balance[v] + SumFunctionOnSet(Due, Bought(v)) = InitBalance[v]  BY DEF Accounts
  <2>2. IsFiniteSet(Bought(v)) /\ \A s \in Bought(v) : Due[s] \in Int
    BY PaidFinite DEF Bought, Paid
  <2>3. SumFunctionOnSet(Due, Bought(v)) \in Int /\ balance[v] \in Int
    BY <2>2, SumType DEF TypeOK
  <2>4. CASE v = u
    <3>1. Bought(v)' = Bought(v) \union {r} /\ r \notin Bought(v)  BY <1>6, <2>4
    <3>2. SumFunctionOnSet(Due, Bought(v) \union {r}) = SumFunctionOnSet(Due, Bought(v)) + Due[r]
      <4>1. \A s \in Bought(v) \union {r} : Due[s] \in Int  BY <1>2, <1>4, <2>2
      <4> QED  BY <2>2, <3>1, <4>1, SumAdds
    <3>3. balance'[v] = balance[v] - Amount(r)  BY <1>1, <2>4 DEF TypeOK
    <3> QED  BY <1>2, <1>4, <2>1, <2>3, <3>1, <3>2, <3>3
  <2>5. CASE v # u  BY <1>1, <1>4, <1>6, <2>1, <2>5 DEF TypeOK
  <2> QED  BY <2>4, <2>5
<1>9. \A s \in Req : OpOf(s)' = "checkout" /\ pc'[s] \in ProductHeld => args'[s].qty > 0
  BY <1>1 DEF Accounts, OpOf, ProductHeld, TypeOK
<1>10. \A s \in postJobs' : OpOf(s)' = "checkout" /\ pc'[s] = "done" /\ args'[s].qty > 0
  BY <1>1, <1>3 DEF Accounts, OpOf, TypeOK
<1> QED  BY <1>7, <1>8, <1>9, <1>10 DEF Accounts

(* Every step keeps the accounts: one COMMIT moves them, and a request that *)
(* is done never moves again.                                               *)
LEMMA AccountsStep == PInv /\ Accounts /\ [Next]_vars => Accounts'
<1> SUFFICES ASSUME PInv, Accounts, [Next]_vars PROVE Accounts'  OBVIOUS
<1>0. TypeOK  BY DEF PInv
<1>1. CASE UNCHANGED vars
  BY <1>1, AccountsKept DEF vars, tables, Accounts
<1>2. ASSUME NEW r \in Req, NEW l, Goto(r, l), pc[r] # "done", UNCHANGED <<args, tables>>,
             l \in ProductHeld /\ OpOf(r) = "checkout" => args[r].qty > 0
      PROVE  Accounts'
  <2>1. pc' = [pc EXCEPT ![r] = l]  BY <1>2 DEF Goto
  <2>2. \A s \in Req : OpOf(s) = "checkout" /\ pc'[s] \in ProductHeld => args[s].qty > 0
    BY <1>0, <1>2, <2>1 DEF Accounts, TypeOK
  <2>3. \A s \in postJobs : pc'[s] = "done"
    BY <1>0, <1>2, <2>1 DEF Accounts, TypeOK
  <2> QED  BY <1>2, <2>2, <2>3, AccountsKept DEF tables
<1>3. \A r \in Req : \A kind : RollBack(r, kind) => Goto(r, "done") /\ UNCHANGED tables
  BY DEF RollBack, Refuse, Reply
<1>4. "done" \notin ProductHeld  BY DEF ProductHeld
<1>5. ASSUME NEW r \in Req, Step(r) PROVE Accounts'
  <2>1. UNCHANGED args  BY <1>5 DEF Step
  <2>2. CASE TakeStock(r)
    <3>1. pc[r] = "start" /\ ~BadQuantity(r) /\ OpOf(r) = "checkout" /\ UNCHANGED tables
      BY <2>2, <1>3 DEF TakeStock
    <3>2. args[r].qty > 0  BY <1>0, <3>1, ArgsFit DEF BadQuantity, TypeOK
    <3>3. Goto(r, "stock") \/ Goto(r, "done")  BY <2>2, <1>3 DEF TakeStock
    <3> QED  BY <1>2, <1>4, <2>1, <3>1, <3>2, <3>3
  <2>3. CASE TakeBalance(r)
    <3>1. pc[r] = "stock" /\ UNCHANGED tables  BY <2>3, <1>3 DEF TakeBalance
    <3>2. OpOf(r) = "checkout" => args[r].qty > 0  BY <3>1 DEF Accounts, ProductHeld
    <3>3. Goto(r, "balance") \/ Goto(r, "done")  BY <2>3, <1>3 DEF TakeBalance
    <3> QED  BY <1>2, <1>4, <2>1, <3>1, <3>2, <3>3
  <2>4. CASE InsertOrder(r) \/ EnqueueOrderPlaced(r)
    <3>1. UNCHANGED tables /\ (Goto(r, "ordered") \/ Goto(r, "enqueued"))
      BY <2>4 DEF InsertOrder, EnqueueOrderPlaced
    <3>2. pc[r] = "balance" \/ pc[r] = "ordered" \/ pc[r] = "claimed"
      BY <2>4 DEF InsertOrder, EnqueueOrderPlaced
    <3>3. OpOf(r) = "checkout" => args[r].qty > 0
      BY <3>2 DEF Accounts, ProductHeld, PInv, OpsFit
    <3> QED  BY <1>2, <2>1, <3>1, <3>2, <3>3
  <2>5. CASE CommitCheckout(r)
    <3>1. OpOf(r) = "checkout"  BY <2>5 DEF CommitCheckout
    <3> QED  BY <1>0, <2>1, <2>5, <3>1, AccountsCommit
  <2>6. CASE CommitCreate(r) \/ UpdateStatus(r)
    <3>1. /\ UNCHANGED <<stock, balance, postJobs>>
          /\ pc[r] \in {"start", "enqueued"}
          /\ \E l \in {"committed", "updated", "done"} : Goto(r, l)
      BY <2>6 DEF CommitCreate, UpdateStatus, Refuse, Reply
    <3>2. PICK l \in {"committed", "updated", "done"} : pc' = [pc EXCEPT ![r] = l]
      BY <3>1 DEF Goto
    <3>3. \A s \in Req : OpOf(s) = "checkout" /\ pc'[s] \in ProductHeld => args[s].qty > 0
      BY <1>0, <3>2 DEF Accounts, TypeOK, ProductHeld
    <3>4. \A s \in postJobs : pc'[s] = "done"
      BY <1>0, <3>1, <3>2 DEF Accounts, TypeOK
    <3> QED  BY <2>1, <3>1, <3>3, <3>4, AccountsKept
  <2>7. CASE ClaimKey(r)
    <3>1. /\ UNCHANGED tables /\ pc[r] = "start" /\ OpOf(r) = "create"
          /\ Goto(r, "replay") \/ Goto(r, "claimed")
      BY <2>7 DEF ClaimKey
    <3> QED  BY <1>2, <2>1, <3>1
  <2>8. CASE EmitStatus(r)
    <3>1. UNCHANGED tables /\ pc[r] = "updated" /\ Goto(r, "emitted")  BY <2>8 DEF EmitStatus
    <3>2. "emitted" \notin ProductHeld  BY DEF ProductHeld
    <3> QED  BY <1>2, <2>1, <3>1, <3>2
  <2>9. CASE RejectQuantity(r) \/ RejectBody(r) \/ AnswerCreated(r) \/ AnswerReplay(r)
               \/ AnswerUpdate(r)
    <3>1. UNCHANGED tables /\ Goto(r, "done")
      BY <2>9, <1>3 DEF RejectQuantity, RejectBody, AnswerCreated, AnswerReplay, AnswerUpdate,
                        Refuse, Reply
    <3>2. pc[r] # "done"
      BY <2>9 DEF RejectQuantity, RejectBody, AnswerCreated, AnswerReplay, AnswerUpdate
    <3> QED  BY <1>2, <1>4, <2>1, <3>1, <3>2
  <2> QED  BY <1>5, <2>2, <2>3, <2>4, <2>5, <2>6, <2>7, <2>8, <2>9 DEF Step
<1>6. ASSUME NEW r \in Req, Fault(r) PROVE Accounts'
  <2>1. UNCHANGED args /\ UNCHANGED tables /\ Goto(r, "done")
    BY <1>3, <1>6 DEF Fault, Abort, LoseAnswer, Reply
  <2>2. pc[r] # "done"  BY <1>6 DEF Fault, Abort, LoseAnswer, InTransaction
  <2> QED  BY <1>2, <1>4, <2>1, <2>2
<1> QED  BY <1>1, <1>5, <1>6 DEF Next, AllAnswered

-----------------------------------------------------------------------------
(* Neither stock nor balance falls below zero, whatever checkouts run at    *)
(* once: the columns stay naturals, and the rest of the state in shape.     *)
THEOREM PlacementTypeCorrect == Spec => []TypeOK
<1>1. PInv => TypeOK  BY DEF PInv
<1> QED  BY <1>1, PlacementInit, PlacementInvStep, PTL DEF Spec

(* createIdempotent: of any number of requests with one key at most one     *)
(* creates an order, and the key row names it.                              *)
THEOREM KeyStandsForOneOrder == Spec => []OneOrderPerKey
<1>1. PInv => OneOrderPerKey  BY DEF PInv
<1> QED  BY <1>1, PlacementInit, PlacementInvStep, PTL DEF Spec

(* Answers under one key name one order, made from one body.                *)
THEOREM ReplaysAgree == Spec => []AnswersAgree
<1>1. PInv => AnswersAgree  BY DEF PInv, AnswersOfKeys, AnswersAgree
<1> QED  BY <1>1, PlacementInit, PlacementInvStep, PTL DEF Spec

(* The order and its outbox row are born together, and a request that was   *)
(* refused or rolled back has left no row, no draft and no lock.            *)
THEOREM OrderAndEventTogether == Spec => []AllOrNothing
<1>1. PInv => AllOrNothing
  <2> SUFFICES ASSUME PInv PROVE AllOrNothing  OBVIOUS
  <2>1. outbox = {r \in Req : Exists(r)}  BY DEF PInv, EventsOfOrders
  <2>2. ASSUME NEW r \in Req, answer[r].kind \in Refusals
        PROVE  /\ ~Exists(r) /\ r \notin outbox \union drafts
               /\ \A p \in Product : productLock[p] # r
               /\ \A u \in User : userLock[u] # r
               /\ \A k \in Key : keyLock[k] # r
    <3>0. NoAnswer.kind \notin Refusals  BY DEF NoAnswer, AnswerOf, Refusals
    <3>1. pc[r] = "done" /\ ~Exists(r)  BY <2>2, <3>0 DEF PInv, OrdersCommitted
    <3>2. pc[r] \notin KeyHeld /\ pc[r] \notin ProductHeld /\ pc[r] \notin UserHeld
      BY <3>1 DEF KeyHeld, ProductHeld, UserHeld
    <3> QED  BY <2>1, <3>1, <3>2 DEF PInv, EventsOfOrders, KeyLocks, ProductLocks, UserLocks
  <2> QED  BY <2>1, <2>2 DEF AllOrNothing
<1> QED  BY <1>1, PlacementInit, PlacementInvStep, PTL DEF Spec

(* checkout: no two buyers are sold the same goods and no cent is lost:     *)
(* stock and balance are what the paid orders have left of them.            *)
THEOREM CheckoutConserves == Spec => []GoodsAndMoneyConserved
<1>1. PInv /\ Accounts => GoodsAndMoneyConserved
  <2> SUFFICES ASSUME PInv, Accounts PROVE GoodsAndMoneyConserved  OBVIOUS
  <2>0. TypeOK  BY DEF PInv
  <2>1. ASSUME NEW p \in Product
        PROVE  /\ stock[p] \in 0 .. InitStock[p]
               /\ stock[p] + SumFunction([r \in Sold(p) |-> args[r].qty]) = InitStock[p]
    <3> DEFINE f == [r \in Sold(p) |-> args[r].qty]
    <3>1. /\ IsFiniteSet(Sold(p)) /\ \A r \in Sold(p) : Qty[r] = f[r] /\ Qty[r] \in Nat
      BY <2>0, PaidFinite DEF Sold, Paid, Qty
    <3>2. DOMAIN f = Sold(p)  OBVIOUS
    <3> HIDE DEF f
    <3>3. SumFunctionOnSet(Qty, Sold(p)) = SumFunctionOnSet(f, Sold(p))  BY <3>1, SumSame
    <3>4. SumFunction(f) = SumFunctionOnSet(f, Sold(p))  BY <3>2 DEF SumFunction
    <3>5. SumFunctionOnSet(Qty, Sold(p)) \in Nat  BY <3>1, SumType
    <3>6. /\ stock[p] \in Nat /\ InitStock[p] \in Nat
          /\ stock[p] + SumFunctionOnSet(Qty, Sold(p)) = InitStock[p]
      BY <2>0, PlacementAssumption DEF TypeOK, Accounts
    <3>7. stock[p] + SumFunction(f) = InitStock[p]  BY <3>3, <3>4, <3>6
    <3>8. stock[p] \in 0 .. InitStock[p]  BY <3>5, <3>6
    <3> QED  BY <3>7, <3>8 DEF f
  <2>2. ASSUME NEW u \in User
        PROVE  /\ balance[u] \in 0 .. InitBalance[u]
               /\ balance[u] + SumFunction([r \in Bought(u) |-> Amount(r)]) = InitBalance[u]
    <3> DEFINE f == [r \in Bought(u) |-> Amount(r)]
    <3>1. /\ IsFiniteSet(Bought(u)) /\ \A r \in Bought(u) : Due[r] = f[r] /\ Due[r] \in Nat
      BY <2>0, PaidFinite DEF Bought, Paid, Due
    <3>2. DOMAIN f = Bought(u)  OBVIOUS
    <3> HIDE DEF f
    <3>3. SumFunctionOnSet(Due, Bought(u)) = SumFunctionOnSet(f, Bought(u))  BY <3>1, SumSame
    <3>4. SumFunction(f) = SumFunctionOnSet(f, Bought(u))  BY <3>2 DEF SumFunction
    <3>5. SumFunctionOnSet(Due, Bought(u)) \in Nat  BY <3>1, SumType
    <3>6. /\ balance[u] \in Nat /\ InitBalance[u] \in Nat
          /\ balance[u] + SumFunctionOnSet(Due, Bought(u)) = InitBalance[u]
      BY <2>0, PlacementAssumption DEF TypeOK, Accounts
    <3>7. balance[u] + SumFunction(f) = InitBalance[u]  BY <3>3, <3>4, <3>6
    <3>8. balance[u] \in 0 .. InitBalance[u]  BY <3>5, <3>6
    <3> QED  BY <3>7, <3>8 DEF f
  <2> QED  BY <2>1, <2>2 DEF GoodsAndMoneyConserved
<1>2. Init => PInv /\ Accounts  BY PlacementInit, AccountsInit
<1>3. PInv /\ Accounts /\ [Next]_vars => (PInv /\ Accounts)'
  BY PlacementInvStep, AccountsStep
<1> QED  BY <1>1, <1>2, <1>3, PTL DEF Spec
=============================================================================
