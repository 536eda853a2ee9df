--------------------------- MODULE OrderPlacement ---------------------------
(***************************************************************************)
(* The two ways an order is born and the one way it changes:               *)
(* OrdersService.createIdempotent behind POST /orders, checkout(), and     *)
(* OrdersService.updateStatus.  Requests run concurrently, each in its own *)
(* READ COMMITTED transaction: what it writes is seen at COMMIT, the row   *)
(* and unique-key locks it takes last until COMMIT or ROLLBACK.            *)
(*                                                                         *)
(* orders.id comes from a sequence, so an order is named by the request    *)
(* that created it.  Cached product cards are outside this module.         *)
(***************************************************************************)
EXTENDS Integers, Sequences, FiniteSets, Functions

CONSTANTS Req,          \* requests in flight
          NoReq,        \* no request, no order
          Workload,     \* what the clients may ask: functions from Req to arguments
          Key,          \* idempotency keys, already scoped by user
          BadBody,      \* bodies naming a product that does not exist
          Product, User,
          Price,        \* Price[p], in cents
          InitStock, InitBalance

(* create:   [op, key, body]; update: [op, target, status];                *)
(* checkout: [op, product, user, qty]                                      *)
ASSUME PlacementAssumption ==
  /\ IsFiniteSet(Req)
  /\ NoReq \notin Req
  /\ \A w \in Workload, r \in Req :
       \/ w[r].op = "create" /\ w[r].key \in Key
       \/ w[r].op = "update" /\ w[r].target \in Req /\ w[r].status # "none"
       \/ /\ w[r].op = "checkout"
          /\ w[r].product \in Product
          /\ w[r].user \in User
          /\ w[r].qty \in Int
  /\ Price \in [Product -> Nat]
  /\ InitStock \in [Product -> Nat]
  /\ InitBalance \in [User -> Nat]

VARIABLES args,      \* args[r]: operation and arguments of request r
          stock, balance,          \* committed columns
          productLock, userLock,   \* row locks of open transactions
          keyRow,    \* keyRow[k]: order_id of the committed idempotency row
          keyLock,   \* keyLock[k]: transaction that inserted k, uncommitted
          orders,    \* orders[r]: status of the order r created, or "none"
          outbox,    \* orders with an outbox row
          drafts,    \* orders whose outbox row is in an open transaction
          postJobs,  \* orders with a post_processing_jobs row
          emitted,   \* order.status events, oldest first
          pc,        \* pc[r]: where the handler of r stands
          answer     \* answer[r]: what the client got

tables == <<stock, balance, keyRow, orders, outbox, postJobs>>
locks == <<productLock, userLock, keyLock>>
transactions == <<locks, drafts>>
vars == <<args, tables, transactions, emitted, pc, answer>>

-----------------------------------------------------------------------------
OpOf(r) == args[r].op
Exists(o) == orders[o] # "none"
Amount(r) == Price[args[r].product] * args[r].qty
AnswerOf(kind, o, status) == [kind |-> kind, order |-> o, status |-> status]
Refusals == {"bad request", "conflict", "no stock", "no funds", "not found", "error"}
NoAnswer == AnswerOf("none", NoReq, "none")

Goto(r, l) == pc' = [pc EXCEPT ![r] = l]

Reply(r, a) == Goto(r, "done") /\ answer' = [answer EXCEPT ![r] = a]

Refuse(r, kind) == kind \in Refusals /\ Reply(r, AnswerOf(kind, NoReq, "none"))

(* The transaction of r ends, by COMMIT or ROLLBACK. *)
EndTransaction(r) ==
  /\ productLock' = [p \in Product |-> IF productLock[p] = r THEN NoReq ELSE productLock[p]]
  /\ userLock' = [u \in User |-> IF userLock[u] = r THEN NoReq ELSE userLock[u]]
  /\ keyLock' = [k \in Key |-> IF keyLock[k] = r THEN NoReq ELSE keyLock[k]]
  /\ drafts' = drafts \ {r}

RollBack(r, kind) ==
  /\ Refuse(r, kind)
  /\ EndTransaction(r)
  /\ UNCHANGED <<tables, emitted>>

-----------------------------------------------------------------------------
(* checkout: the quantity is checked before any transaction is opened. *)
BadQuantity(r) == args[r].qty <= 0

RejectQuantity(r) ==
  /\ pc[r] = "start" /\ OpOf(r) = "checkout" /\ BadQuantity(r)
  /\ Refuse(r, "bad request")
  /\ UNCHANGED <<tables, transactions, emitted>>

(* Mutant: a read of the stock that does not wait for the row lock. *)
TakeStockUnlocked(r) ==
  LET p == args[r].product IN
  /\ pc[r] = "start" /\ OpOf(r) = "checkout" /\ ~BadQuantity(r)
  /\ \/ stock[p] < args[r].qty /\ RollBack(r, "no stock")
     \/ /\ stock[p] >= args[r].qty
        /\ Goto(r, "stock")
        /\ UNCHANGED <<tables, transactions, emitted, answer>>

(* UPDATE product SET stock = stock - qty WHERE stock >= qty.  A committed  *)
(* stock that is too small matches no row at once; otherwise the statement  *)
(* waits for the row lock and evaluates its WHERE again.                    *)
TakeStock(r) ==
  LET p == args[r].product IN
  /\ pc[r] = "start" /\ OpOf(r) = "checkout" /\ ~BadQuantity(r)
  /\ \/ stock[p] < args[r].qty /\ RollBack(r, "no stock")
     \/ /\ stock[p] >= args[r].qty /\ productLock[p] = NoReq
        /\ productLock' = [productLock EXCEPT ![p] = r]
        /\ Goto(r, "stock")
        /\ UNCHANGED <<tables, userLock, keyLock, drafts, emitted, answer>>

(* UPDATE users SET balanceCents = balanceCents - amount WHERE ... *)
TakeBalance(r) ==
  LET u == args[r].user IN
  /\ pc[r] = "stock"
  /\ \/ balance[u] < Amount(r) /\ RollBack(r, "no funds")
     \/ /\ balance[u] >= Amount(r) /\ userLock[u] = NoReq
        /\ userLock' = [userLock EXCEPT ![u] = r]
        /\ Goto(r, "balance")
        /\ UNCHANGED <<tables, productLock, keyLock, drafts, emitted, answer>>

-----------------------------------------------------------------------------
(* Both paths: the order, its items and, for a checkout, its job.  *)
InsertOrder(r) ==
  /\ \/ pc[r] = "balance"
     \/ pc[r] = "claimed" /\ args[r].body \notin BadBody
  /\ Goto(r, "ordered")
  /\ UNCHANGED <<tables, transactions, emitted, answer>>

(* Mutant: the INSERT goes to a connection of its own, not the manager's.   *)
EnqueueOutside(r) ==
  /\ pc[r] = "ordered"
  /\ outbox' = outbox \union {r}
  /\ Goto(r, "enqueued")
  /\ UNCHANGED <<stock, balance, keyRow, orders, postJobs, transactions, emitted, answer>>

(* enqueueOrderPlaced, by the manager of the order's transaction. *)
EnqueueOrderPlaced(r) ==
  /\ pc[r] = "ordered"
  /\ drafts' = drafts \union {r}
  /\ Goto(r, "enqueued")
  /\ UNCHANGED <<tables, locks, emitted, answer>>

CommitCheckout(r) ==
  /\ pc[r] = "enqueued" /\ OpOf(r) = "checkout"
  /\ stock' = [stock EXCEPT ![args[r].product] = @ - args[r].qty]
  /\ balance' = [balance EXCEPT ![args[r].user] = @ - Amount(r)]
  /\ orders' = [orders EXCEPT ![r] = "paid"]
  /\ postJobs' = postJobs \union {r}
  /\ outbox' = outbox \union (drafts \intersect {r})
  /\ EndTransaction(r)
  /\ Reply(r, AnswerOf("paid", r, "paid"))
  /\ UNCHANGED <<keyRow, emitted>>

(* UPDATE of order_id in the idempotency row, COMMIT. *)
CommitCreate(r) ==
  /\ pc[r] = "enqueued" /\ OpOf(r) = "create"
  /\ orders' = [orders EXCEPT ![r] = "created"]
  /\ outbox' = outbox \union (drafts \intersect {r})
  /\ keyRow' = [keyRow EXCEPT ![args[r].key] = r]
  /\ EndTransaction(r)
  /\ Goto(r, "committed")
  /\ UNCHANGED <<stock, balance, postJobs, emitted, answer>>

-----------------------------------------------------------------------------
(* Mutant: SELECT for the key first, INSERT later, not atomically. *)
ClaimKeyUnlocked(r) ==
  LET k == args[r].key IN
  /\ pc[r] = "start" /\ OpOf(r) = "create"
  /\ IF keyRow[k] # NoReq THEN Goto(r, "replay") ELSE Goto(r, "claimed")
  /\ UNCHANGED <<tables, transactions, emitted, answer>>

-----------------------------------------------------------------------------
(* createIdempotent: INSERT INTO idempotency_keys ... ON CONFLICT DO        *)
(* NOTHING.  A committed row is a conflict; an uncommitted one makes the    *)
(* INSERT wait for the end of its transaction.                              *)
ClaimKey(r) ==
  LET k == args[r].key IN
  /\ pc[r] = "start" /\ OpOf(r) = "create"
  /\ \/ keyRow[k] # NoReq /\ Goto(r, "replay") /\ UNCHANGED locks
     \/ /\ keyRow[k] = NoReq /\ keyLock[k] = NoReq
        /\ keyLock' = [keyLock EXCEPT ![k] = r]
        /\ Goto(r, "claimed")
        /\ UNCHANGED <<productLock, userLock>>
  /\ UNCHANGED <<tables, drafts, emitted, answer>>

(* insertOrderWithEvent meets an unknown product: 400, and the ROLLBACK     *)
(* gives the key back.                                                      *)
RejectBody(r) ==
  /\ pc[r] = "claimed" /\ args[r].body \in BadBody
  /\ RollBack(r, "bad request")

(* After COMMIT: invalidateCards, then 201 with the saved entity. *)
AnswerCreated(r) ==
  /\ pc[r] = "committed"
  /\ Reply(r, AnswerOf("created", r, "created"))
  /\ UNCHANGED <<tables, transactions, emitted>>

(* Mutant: the request hash is not compared. *)
ReplayAnyBody(r) ==
  LET o == keyRow[args[r].key] IN
  /\ pc[r] = "replay"
  /\ Reply(r, AnswerOf("replayed", o, orders[o]))
  /\ UNCHANGED <<tables, transactions, emitted>>

(* A key that is taken: 422 when the hashes differ, else findOne, which     *)
(* reads the order as it is now.                                            *)
AnswerReplay(r) ==
  LET o == keyRow[args[r].key] IN
  /\ pc[r] = "replay"
  /\ \/ args[o].body # args[r].body /\ Refuse(r, "conflict")
     \/ args[o].body = args[r].body /\ Reply(r, AnswerOf("replayed", o, orders[o]))
  /\ UNCHANGED <<tables, transactions, emitted>>

-----------------------------------------------------------------------------
(* updateStatus: one UPDATE, autocommitted; no row means 404. *)
UpdateStatus(r) ==
  LET o == args[r].target IN
  /\ pc[r] = "start" /\ OpOf(r) = "update"
  /\ \/ ~Exists(o) /\ Refuse(r, "not found") /\ UNCHANGED orders
     \/ /\ Exists(o)
        /\ orders' = [orders EXCEPT ![o] = args[r].status]
        /\ Goto(r, "updated")
        /\ UNCHANGED answer
  /\ UNCHANGED <<stock, balance, keyRow, outbox, postJobs, transactions, emitted>>

(* emitStatusChanged, once the UPDATE is known to have been applied. *)
EmitStatus(r) ==
  /\ pc[r] = "updated"
  /\ emitted' = Append(emitted, <<args[r].target, args[r].status>>)
  /\ Goto(r, "emitted")
  /\ UNCHANGED <<tables, transactions, answer>>

AnswerUpdate(r) ==
  LET o == args[r].target IN
  /\ pc[r] = "emitted"
  /\ Reply(r, AnswerOf("updated", o, orders[o]))
  /\ UNCHANGED <<tables, transactions, emitted>>

-----------------------------------------------------------------------------
InTransaction == {"stock", "balance", "claimed", "ordered", "enqueued"}

(* Mutant: an error path that forgets to end the transaction. *)
AbortKeepingLocks(r) ==
  /\ pc[r] \in InTransaction
  /\ Refuse(r, "error")
  /\ UNCHANGED <<tables, transactions, emitted>>

(* A statement fails (an int4 out of range, a lost connection) or the       *)
(* process dies inside the transaction.                                     *)
Abort(r) == pc[r] \in InTransaction /\ RollBack(r, "error")

(* The process dies, or the client is gone, after COMMIT: the order stands  *)
(* and the client does not know.                                            *)
LoseAnswer(r) ==
  /\ pc[r] \in {"committed", "updated", "emitted"}
  /\ Reply(r, AnswerOf("lost", NoReq, "none"))
  /\ UNCHANGED <<tables, transactions, emitted>>

AllAnswered == (\A r \in Req : pc[r] = "done") /\ UNCHANGED vars

-----------------------------------------------------------------------------
Init ==
  /\ args \in Workload
  /\ stock = InitStock
  /\ balance = InitBalance
  /\ productLock = [p \in Product |-> NoReq]
  /\ userLock = [u \in User |-> NoReq]
  /\ keyRow = [k \in Key |-> NoReq]
  /\ keyLock = [k \in Key |-> NoReq]
  /\ orders = [r \in Req |-> "none"]
  /\ outbox = {}
  /\ drafts = {}
  /\ postJobs = {}
  /\ emitted = <<>>
  /\ pc = [r \in Req |-> "start"]
  /\ answer = [r \in Req |-> NoAnswer]

Step(r) ==
  /\ \/ RejectQuantity(r) \/ TakeStock(r) \/ TakeBalance(r) \/ CommitCheckout(r)
     \/ ClaimKey(r) \/ RejectBody(r) \/ CommitCreate(r)
     \/ InsertOrder(r) \/ EnqueueOrderPlaced(r)
     \/ AnswerCreated(r) \/ AnswerReplay(r)
     \/ UpdateStatus(r) \/ EmitStatus(r) \/ AnswerUpdate(r)
  /\ UNCHANGED args

Fault(r) == (Abort(r) \/ LoseAnswer(r)) /\ UNCHANGED args

Next ==
  \/ \E r \in Req : Step(r) \/ Fault(r)
  \/ AllAnswered

Spec == Init /\ [][Next]_vars

(* The event loop and PostgreSQL carry every request on. *)
FairSpec == Spec /\ \A r \in Req : WF_vars(Step(r))

-----------------------------------------------------------------------------
MaybeReq == Req \union {NoReq}

(* The state is of the shape the entities and migrations give it. *)
TypeOK ==
  /\ args \in Workload
  /\ stock \in [Product -> Nat]
  /\ balance \in [User -> Nat]
  /\ productLock \in [Product -> MaybeReq]
  /\ userLock \in [User -> MaybeReq]
  /\ keyRow \in [Key -> MaybeReq]
  /\ keyLock \in [Key -> MaybeReq]
  /\ outbox \subseteq Req
  /\ drafts \subseteq Req
  /\ postJobs \subseteq Req
  /\ DOMAIN orders = Req
  /\ DOMAIN answer = Req
  /\ pc \in [Req -> {"start", "stock", "balance", "claimed", "ordered", "enqueued", "committed",
                     "replay", "updated", "emitted", "done"}]

Paid(r) == r \in postJobs

(* The paid orders of a product, and of a user. *)
Sold(p) == {r \in Req : Paid(r) /\ args[r].product = p}
Bought(u) == {r \in Req : Paid(r) /\ args[r].user = u}

(* Concurrent checkouts neither oversell nor invent goods or money: what is *)
(* left of a stock plus what the paid orders took is what there was, every  *)
(* cent taken from a balance is in a paid order, and neither grows or falls *)
(* below zero.                                                              *)
GoodsAndMoneyConserved ==
  /\ \A p \in Product :
       /\ stock[p] \in 0 .. InitStock[p]
       /\ stock[p] + SumFunction([r \in Sold(p) |-> args[r].qty]) = InitStock[p]
  /\ \A u \in User :
       /\ balance[u] \in 0 .. InitBalance[u]
       /\ balance[u] + SumFunction([r \in Bought(u) |-> Amount(r)]) = InitBalance[u]

(* A request leaves all or nothing, on both paths and whatever aborts: an   *)
(* order exists together with its order.placed row, and a refused request   *)
(* has left neither of them, no draft and no lock.                          *)
AllOrNothing ==
  /\ outbox = {r \in Req : Exists(r)}
  /\ \A r \in Req :
       answer[r].kind \in Refusals =>
         /\ ~Exists(r) /\ r \notin outbox \union drafts
         /\ \A p \in Product : productLock[p] # r
         /\ \A u \in User : userLock[u] # r
         /\ \A k \in Key : keyLock[k] # r

(* An Idempotency-Key stands for one order: however many requests carry it  *)
(* at once, at most one creates an order, and the key row names that order. *)
OneOrderPerKey ==
  \A r \in Req : OpOf(r) = "create" /\ Exists(r) => keyRow[args[r].key] = r

(* A client that repeats a request is told of the order its body made:      *)
(* answers under one key agree on the order, and the body is the same.      *)
AnswersAgree ==
  \A r, s \in Req :
    /\ OpOf(r) = "create" /\ OpOf(s) = "create"
    /\ args[r].key = args[s].key
    /\ answer[r].order # NoReq /\ answer[s].order # NoReq
    => answer[r].order = answer[s].order /\ args[r].body = args[s].body

(* Locks are taken in one order and always given back: every request ends.  *)
EveryRequestAnswered ==
  \A r \in Req : pc[r] = "start" ~> pc[r] = "done"

(* The API documentation of POST /orders: the same key with the same body   *)
(* returns the answer saved earlier.                                        *)
ReplayIsSavedAnswer ==
  \A r, s \in Req :
    answer[r].kind = "created" /\ answer[s].kind = "replayed"
      /\ answer[s].order = answer[r].order
    => answer[s].status = answer[r].status
=============================================================================
