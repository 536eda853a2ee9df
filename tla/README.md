# Marketplace API: TLA+ models, checks and proofs

This directory models the parts of the marketplace API in which processes, transactions,
messages and failures meet: placing orders, carrying their events through the outbox and
RabbitMQ to an idempotent consumer, keeping user sessions with rotating refresh tokens and
a denylist, and the services around them: event streams, caches, limits, HTTP sessions,
job queues, listings and the rotations of the database password and of the signing keys.
Source paths below are relative to `src/src/` of the repository.

## 1. The system and its inventory

| Component | State | Operations | Talks to |
|---|---|---|---|
| Order placement (`orders/orders.service.ts`) | `orders`, `order_items`, `idempotency_keys` | `createIdempotent`, `create`, `updateStatus`, reads with ownership | outbox (same transaction), product cards (invalidation after COMMIT), order events |
| Checkout (`checkout.ts`) | `product.stock`, `users.balanceCents`, `orders`, `post_processing_jobs` | `checkout` | outbox (same transaction) |
| Outbox and relay (`outbox/`) | `outbox` rows: `created_at`, `published_at`, `attempts` | `enqueueOrderPlaced`, `relayOnce`, `relayLoop` | publisher |
| Publisher (`messaging/publisher.ts`, `lib/with-timeout.ts`) | a confirm channel, opened lazily | `publish`, `close` | RabbitMQ |
| Topology (`messaging/topology.ts`) | exchanges, the quorum queue, DLQ, alternate exchange | `assertTopology` | RabbitMQ |
| Consumer and inbox (`messaging/consumer.ts`, `run-consumer.ts`, `pg-store.ts`) | `processed_messages`, `processed_order_events`, unacknowledged deliveries | `handleMessage`, `applyOrderPlacedEffect`, shutdown | receipt queue, PostgreSQL |
| Receipt queue, worker, scheduler (`queue/`) | BullMQ jobs | `enqueueReceipt`, worker, `cleanupOutbox` | Redis, outbox |
| Refresh tokens (`auth/refresh-token.service.ts`, `auth.service.ts`) | `refresh_tokens` | `login`, `rotate`, `revokeFamily`, `logout` | denylist |
| Denylist and guards (`auth/access-denylist.ts`, `auth.guard.ts`, `roles.guard.ts`, `token.service.ts`) | `deny:jti:*`, `deny:fam:*` in Redis | `revokeAccess`, `revokeFamily`, `isDenied`, `canActivate` | Redis |
| Signing keys (`auth/key-store.ts`, `config/auth-env.ts`, `scripts/gen-jwt-keys.mjs`, `scripts/with-secrets.sh`) | five files of the secret store; per process the key it signs with and those it verifies with | `--rotate`, start-up, sign, verify | access tokens |
| Order events, SSE, WebSocket (`orders/order-events.service.ts`, `orders.gateway.ts`) | one history of the last 200 events, rooms | emit, subscribe, replay, join | updateStatus |
| Product cards (`products/product-card.service.ts`, `cache/`) | cached cards, load locks in Redis | `getCard`, `invalidate` | products, orders |
| Rate limiter, login throttle (`ratelimit/`, `auth/login-throttle.ts`) | sorted sets in Redis | `consume` | guards |
| HTTP sessions (`sessions/`) | sessions in Redis | create, get, destroy | middleware |
| Post-processing workers, retry (`demo-workers.ts`, `demo-retry.ts`) | `post_processing_jobs` | claim, finish; retry on serialization failure | PostgreSQL |
| Pagination (`common/pagination.ts`) | cursors the clients hold | encode, decode, the last page | products, orders |
| Database password (`database/`, `outbox/pool.ts`, `rotate.sh`, `health/`) | password of the role, file, userlist, pools | rotation, connecting, health check, restart | PostgreSQL, PgBouncer |
| Configuration, migrations, seed, report, backups, demos | none of their own | - | - |

What is hard here, and what makes each part correct:

- **Dual writes.** An order and its event must appear together and the event must reach
  the broker at least once although the relay may die between any two steps. Duplicates
  are allowed, but every one must have a cause.
- **At-least-once delivery.** Copies of an event are handled concurrently, redelivered
  after a crash, and handled by functions that outlive their channel. The effect has to be
  applied once; the ack has to come last; redelivery has to end.
- **Concurrent requests.** The same idempotency key, the last item in stock, the last
  cents of a balance: one transaction must win and the others must wait, be refused or be
  told of the winner, and no request may wait forever.
- **Token families.** Two refreshes with one token, a reuse racing a rotation, a logout
  racing a rotation, two revocations waiting for each other.
- **Checks that outlive what they checked.** A socket is checked at its handshake and
  lives on; a role, a denylist entry or a key changes between two awaits of a guard; the
  clocks of Redis, of a timer and of a token's `exp` do not round alike.
- **Caches and locks with a lifetime.** The lock expires under its leader, a card is stored
  after its invalidation, a command is abandoned by its timeout and runs all the same.
- **Files that are replaced one by one.** The rotation scripts can be killed between two
  files and run again too early, while processes restart in any order and read what is
  there at that moment.
- **Connections that close late.** Every attempt of the publisher to open a channel has
  handlers that clear fields which may belong to a later attempt by then.
- **Repeating.** Serialization failures, stalled and forgotten jobs, SKIP LOCKED without
  free rows, pages requested while rows are inserted, streams that reconnect.

`PROJECT.json` lists each of these places as a hazard at its line, with the properties
that watch it.

## 2. Modules

| Module | What it models |
|---|---|
| `Relay` | the outbox table, relay processes, publisher, start-up of the topology, clean-up of sent rows |
| `Consumer` | the queue with prefetch, delivery limit and DLQ; consumer processes, their handlers, the inbox, the receipt jobs |
| `Pipeline` | `Relay` and `Consumer` composed; the variable `copies` is what they share |
| `OrderEffect` | abstract specification of the chain: an order is placed, its effect is applied after that, at most once |
| `OrderPlacement` | `createIdempotent`, `checkout` and `updateStatus` as concurrent requests with locks |
| `RefreshTokens` | login, rotation, reuse detection, logout, revocation row by row, denylist, expiry |
| `Access`, `AccessParameters` | access tokens, denylist, roles, the guards of HTTP requests, the sockets of the gateway; its constants |
| `KeyRotation` | `gen-jwt-keys.mjs --rotate` file by file, the start-up check, the instances with the keys they sign and verify with |
| `OrderEvents` | `updateStatus`, the bounded history, SSE streams with replay by Last-Event-ID, restarts |
| `RateLimiter` | the Lua script of the sliding window and its two users, failing open and failing closed |
| `Sessions` | one HTTP session: idle lifetime, absolute age, requests in flight |
| `OrderTasks` | the receipt job of one order: id, attempts, backoff, stalls, retention |
| `PostProcessing` | workers that claim jobs with SKIP LOCKED |
| `Listing` | keyset pages of products and orders while rows are inserted and roles change |
| `Publisher` | the connection and channel a process's publishes share |
| `Retry` | read-modify-write transactions repeated after a serialization failure |
| `ProductCard` | cached card, load lock, readers await by await, invalidation |
| `PasswordRotation` | `rotate.sh`, the password file, PgBouncer's userlist, the pools |
| `Services` | the twelve modules above from `Access` on, side by side |
| `Selection` | ascending order and filters, for `OrderEvents`, `RateLimiter` and `Listing` |
| `Relay_proofs`, `Consumer_proofs`, `Pipeline_proofs`, `OrderPlacement_proofs`, `RefreshTokens_proofs`, `Access_proofs`, `Services_proofs` | theorems and proofs |
| `DataTheorems` | lemmas about sums over finite sets and about selections, which these proofs cite |
| `MCRelay`, `MCConsumer`, `MCPipeline`, `MCOrderPlacement`, `MCRefreshTokens`, `MCServices` | instances for TLC |

Operators whose comment begins with "Mutant:" are plausible defects of the definition
that follows them. No specification uses them; substituting one for its definition makes
TLC violate the property it belongs to, which shows that the property bites.

### Relay

`row[e]` is the life of an outbox row: absent, written by an open transaction, rolled
back or committed ("pending"), published, deleted. The row, the order and the event are
in one-to-one correspondence (`eventId` is derived from the order id), so one set `Event`
stands for all of them. A relay's pass is `SelectBatch` (BEGIN and the locking SELECT, in
`created_at` order), then one `PublishConfirmed` or `PublishFails` per row, `EndOfBatch`,
and `MarkAndCommit` (both UPDATEs and COMMIT, which become visible together). A failed
publish stops the batch, as the `break` does, and has three outcomes: the message never
left; the broker stored it and the confirm was lost; or `withTimeout` gave up while it
was under way (`late`), because `Promise.race` cancels nothing. `created` is fixed when
the order's transaction begins, not when it commits, so a younger row can be published
before an older one. `Rollback`, `Crash` and `Stop` end passes and processes.
PostgreSQL's row locks are `locked[r]`; SKIP LOCKED is the condition in `Eligible`.
`DeclareTopology` is `assertTopology` in two observable steps, because a relay can publish
in between: the exchange with its alternate exchange exists before the queue is bound.

### Consumer

A message is a pair of an event and the number of its copy. `place` is where the broker
has it, `returns` its delivery count, `unacked[w]` what channel `w` holds. `step[w][c]` is
the point a call of `handleMessage` has reached: received, key claimed in an open
transaction, effect applied, job enqueued. `Claim` is the INSERT into
`processed_messages`: it waits while another transaction holds the key, finds a duplicate
when the key is committed. `Fail` is the catch block, reachable from every await.
`Shutdown` closes the channel before the handlers have finished, so `EndHandler` has to
say what a settle on a closed channel does: nothing, the broker has taken the message
back. The queue's behaviour (`ReturnCopies`, `SettleCopy`) is modelled from the arguments
`assertTopology` declares it with.

### OrderPlacement

A request is a process with a program counter; `args` says what each request asks and is
chosen once, at `Init`, from the constant `Workload`. An order is named by the request
that created it, as ids come from a sequence. Writes take effect at COMMIT; row locks and
the unique-key lock of the idempotency row are explicit and last until COMMIT or
ROLLBACK. A guarded UPDATE (`stock >= qty`) fails at once when the committed value is too
small, and otherwise waits for the row lock and evaluates its condition again. The outbox
row is written after the order and before COMMIT; until then it is one of the `drafts`,
which vanish with a ROLLBACK, so that an enqueueing outside the transaction would show.
`LoseAnswer` is a client or process lost after COMMIT, `Abort` a failure inside the
transaction. Integer overflow of `price * quantity` is one of the causes of `Abort`.

### RefreshTokens

Tokens are numbered as they are issued. `rotate` is `SelectForUpdate` with its early
returns in the code's order (unknown, revoked, used, expired), then `CommitRotation`, or
the revocation of the family. `revokeFamily` is one UPDATE, but its row visits interleave
with other transactions: `StartRevoke` fixes the rows it will visit (the statement's
snapshot), `RevokeRow` visits one when its lock is free and evaluates the condition
again, `CommitRevoke` ends it. `ResolveDeadlock` is PostgreSQL's detector. The clock has
units longer than an access token lives, so a tick empties the access tokens and the
denylist. `closed` is a history variable: families whose revocation has been carried out.
`auth.service.ts` signs the access token after the rotation has committed; the model does
both in one step, since nothing the properties mention can tell them apart.

### Access

Tokens are numbered as they are signed, and `exp` is what they claim; that a process may
not know a token's key is `KeyRotation`'s subject, and here an answer of 401 like any
other. A request of a client is its token, whether it needs the admin role, and a program
counter for the awaits of `AuthGuard` and `RolesGuard`: verification, the two denylist
reads, the role read. A
handshake and a join of the gateway go the same way, and `CloseExpired` is the timer that
`handleConnection` sets. A denylist entry has an end of its own: `Logout` writes the rest
of the token's life rounded up (`Ceiling`), a reuse denies the family (`DenyFamily`), and
`Tick` drops what has expired. The clock counts parts of a second, because the roundings
are what could go wrong. An expired token is refused without the denylist; a socket that is
open when its user logs out goes on receiving events until `exp`. `Restart` is a process
that goes with the requests and sockets of some clients.

### KeyRotation

A key pair is a number, and a token carries the pair of a kid and a key: a kid is a date,
so a later key can get the kid of an earlier one, and `WriteKid` excludes only the kid the
script found, as the code does. `--rotate` is one action per file, in the script's order
(previous_public.pem, previous_kid, private.pem, public.pem, kid); it can be killed before
each (`Die`) and run again at once, and it overwrites the previous slot without looking at
it. Instances restart one at a time whenever they like (`Redeploy`), from the files as
they are; the previous pair counts only when both files are there (`with-secrets.sh`), and
an instance does not start from files that do not belong together (`StoreIsValid`).
Nothing makes the operator wait before a second rotation or before removing the previous
pair, and the model does not either. `RefusalHasCause` therefore says of each refusal of
an unexpired token why it happens: the key is newer than the refusing instance, which is
the window of 401s README line 986 of the repository accepts for a rolling deploy; or its
key left the previous slot (by `DropPrevious` or by a later `StartRotate`) before
`ACCESS_TTL` had passed since the last instance stopped signing with it; those keys are in
`givenUp`. A killed script, or a restart in the middle of it, costs no token by itself.

### Services

The twelve modules share no variable (`Access` has its clock, program counters and role
under other names there), so `Services` adds nothing to any of them: `picked`
chooses at `Init` whose behaviour this is, and each disjunct of `Next` is one service's
`Next` with the others unchanged. It exists so that one instance checks them all.

- `OrderEvents`. `updateStatus` is `Update` (COMMIT) and `Emit` (append to `log`, cut to
  `HISTORY_LIMIT`), with the updates of other orders in between; a stream is `Connect` (an
  await), `Open` (replay and subscription, no await between them), `Receive` and `Drop`.
  A `Restart` begins the ids again, and a client that comes back with a larger
  Last-Event-ID is not given the events of the new history up to that id, although README
  line 525 of the repository promises them: finding 7. `StreamIsExact` keeps these events
  (`hidden`) apart from those that had left the history (`missed`) and says that a client
  lacks no others. Updates overlap freely: `rivals` are those still to be announced when
  the last one committed, `unsaid` those a restart left unannounced, and
  `QuietMeansCurrent` says with which status subscribers can be left: the order's own, or
  a rival's when the emissions come in the opposite order of the UPDATEs.
- `RateLimiter`. `Record` and `TurnAway` are the two branches of the script; `Failing` is
  the catch, with `FailOpen` for orders and `FailClosed` for logins; `Lose` is an evicted
  key, after which counting starts again.
- `Sessions`. GETEX renews before the age is examined (`Renew`, then `Serve` or
  `RejectOld`), which is the point of both properties. The DEL of a session that is too
  old may fail; the session is refused all the same and stays until a later request or its
  idle lifetime ends it.
- `OrderTasks`. BullMQ as the code configures it; `Stall` hands a job to a second worker
  while the first may still be running.
- `PostProcessing`. `FindNone` is SKIP LOCKED without a free row, `CountLeft` the count
  that decides whether the worker stops.
- `Listing`. A row may become visible after one with a larger id, which a client that has
  passed it does not see: `due` are the rows that were visible when it began. A limit of 0
  gives no rows and no cursor.
- `Publisher`. An attempt of `openChannel` goes through the phases of its awaits. `Reset`
  is the handler of both close events and clears the fields whichever attempt they hold.
  The relay is the one caller in a process; there are two in the model, because the shared
  promise is written for several. An attempt whose channel fails while it opens leaves its
  connection open.
- `Retry`. A bump reads under its snapshot, waits for the row, and fails when the row has
  a newer version.
- `ProductCard`. `getCard` is split at its awaits: cache, lock, second look, load, store,
  release, or polling until the wait budget is used up. `StoreLate` is a SET that
  `commandTimeout` abandoned and that runs all the same. `ChangeSilently` is a change
  without invalidation (`checkout`). That a card read before an invalidation is stored
  after it, and lives until its TTL, is documented (README line 792); `StaleHasCause` says
  that nothing else makes a card stale. README line 805, that two leaders write the same
  value, holds only if no change falls between their reads.
- `PasswordRotation`. Passwords are numbered. A pool has the password its process started
  with. `DATABASE_URL` is taken to be the one `scripts/with-secrets.sh` builds; README
  line 50 says that the application does not use it, `pg-connection-options.ts:24` prefers
  it to the file.

## 3. Runs

| Run | Result | What it shows |
|---|---|---|
| `RelayRun` | holds, 455,014 states | a marked row reached the broker; every duplicate is paid for by a counted attempt or a lost pass; a marked row is not sent again; the outbox drains |
| `ConsumerRun` | holds, 342,684 states | one effect per event, inbox and effect together; acked implies effect and job; settled messages stay settled |
| `PipelineRun` | holds, 47,524 states | the composition implements `OrderEffect`; nothing is lost across the components; every committed order is handled; every copy settles |
| `PlacementRun` | holds, 47,846 states | one order per key, agreeing answers; an order, its event and its job together or not at all; goods and money conserved; everyone is answered |
| `RefreshRun` | holds, 383,801 states | a family is a chain; the absolute limit holds; a fully revoked family is not revived; every request ends |
| `ServicesRun` | holds, 476,673 states | the twenty properties of the twelve services, listed in `Services`; among them: a token whose logout was answered is refused; a demotion counts at once; every socket is closed; a token is refused before its time for two known reasons only |
| `RelayUnroutable` | violated | see finding 5 |
| `ConsumerReceipt` | violated | see finding 4 |
| `PlacementReplay` | violated | see finding 2 |
| `RefreshRevocationRace` | violated | see finding 1 |
| `ServicesRotation` | violated | see finding 6 |
| `ServicesStreams` | violated | see finding 7 |

**Bounds.** `RelayRun`: two rows and two relays are the least at which batches can
overlap, a row can be behind a failing one, and one relay can take over from another;
`MaxAttempts = 1` and `MaxAborts = 1` allow, for the same row, a timed-out publish that
arrives late, a lost pass and the successful one. `ConsumerRun`: two copies of an event,
two processes with a window of two, a limit of one return and a poison event give
concurrent duplicates within and between processes, a dead-lettered message and a handler
of a closed channel. `PipelineRun` has one event, one relay and one consumer with a window
of two and up to three copies; the refinement is proved for all constants, so the run is
kept small enough for the liveness properties. `PlacementRun`: six requests per workload,
with stock and balance for some only, a body that fails, a key that is freed by a
rollback, a quantity below zero.
`RefreshRun`: three tokens make a chain with two used tokens (two reuses that deadlock),
two requests, and a clock that reaches both the idle expiry and a rotation the absolute
limit cuts short. `ServicesRun`: for access one client with a request and a socket, two
tokens of one family with a life of two ticks and a clock of four, so that both lives can
pass one after the other; for the signing keys two instances, three key pairs under two
kids, so that a second rotation overwrites a slot that is in use and a kid comes back, and
a clock of three ticks, one and a half lives of a token; a history of two with four events
overflows, a client comes back twice and once across a restart; a window of five ticks at
a limit of two moves past its first entries; two visitors renew a session that is two
idle lifetimes old; three adds of a job with two attempts and two workers let it stall and
be forgotten; three hands and three jobs; five rows whose commits are out of order, pages
of up to two; two publishers with two faults need up to seven attempts; three bumps with
two attempts each; two readers, two changes and two faults of a card; two processes and
two rotations. Symmetry is used where no liveness is checked. The artificial bounds are
the constants whose comment says "bound:", and `MaxToken`, `MaxTime`, `MaxAttempts`,
`MaxAborts` and `MaxCopies` of the first modules. Deadlock is checked except in the runs
of `Services`: listings, jobs, bumps and bounded clocks come to an end there.

**Fairness.** A relay that lives goes on (`relayLoop` never returns by itself), a dead
process is restarted (docker-compose), the topology is declared at start-up, an order's
transaction ends. The consumer's handlers are run on by the event loop; strong fairness is
assumed of a delivery (a consumer that keeps coming up keeps being given messages) and of
a handler (PostgreSQL serves a waiting INSERT when the key comes free). Requests of
`OrderPlacement` need weak fairness only: a lock is never taken by infinitely many others.
In `RefreshTokens` a request may be overtaken at a row lock, hence strong fairness, and
PostgreSQL notices deadlocks. In `Services` the clock of
access passes and its timers fire; the
session's clock runs and a request that has been answered by Redis goes on; a card's
readers proceed, and the wait budget of a reader that keeps losing the lock runs out
(strong fairness: the deadline is looked at in every turn of the loop); callers of the
publisher go on publishing and its attempts go on. Nothing is assumed of failures except that the relay's are
finite; the consumer's need not be, the delivery limit ends them.

## 4. Findings

1. **A revoked family can keep a live token** (`auth/refresh-token.service.ts:109`). The
   UPDATE of `revokeFamily` waits for the row a concurrent rotation has locked; the
   successor that rotation inserts was not there when the statement began and is not
   revoked. README lines 925 and 938 say the whole family is revoked and that no new pair
   can be had after a logout. What does hold is checked as `RevokedStaysRevoked`.
2. **A replay is not the saved answer** (`orders/orders.service.ts:164`). `findOne` reads
   the order as it is now; the API documentation (`orders/orders.controller.ts:67`)
   promises the answer saved earlier.
3. **Ctrl+C does not finish the consumer's batch** (`messaging/run-consumer.ts:46`; no run
   of its own). `shutdown` closes the channel first, the action `Shutdown` returns all
   unacknowledged messages to the queue, and each return counts towards the delivery
   limit; README line 732 says that the current batch is finished. `SettledStays` and
   `EffectOnce` show that this is harmless apart from the delay and the count.
4. **An applied effect may stay without a receipt** (`messaging/consumer.ts:132`). If
   enqueueing fails, or the process dies before it, until the delivery limit is reached,
   the message is dead-lettered and the job never exists; README line 833 says that
   redelivery restores it.
5. **Unroutable messages are not returned** (`messaging/topology.ts:38`). Between the
   declaration of the exchange and the binding of the queue the alternate exchange takes
   the message, the broker confirms it, and the row is marked published; README line 587
   expects `basic.return` and an `UnroutableMessageError`. `EveryOrderHandled` shows that
   the copy is still in `shop.unrouted`.
6. **A password rotation needs a restart** (`database/pg-connection-options.ts:41`). The
   options are resolved once and the pool is given a string; the workers take `DB_PASSWORD`
   of their start. After `rotate.sh` and the change of `userlist.txt` new connections are
   refused until the process starts again. README line 98 says that the password is passed
   as a function and never cached, line 63 that the file is read at every connection. That
   a restart does cure it, wherever the script was interrupted, is `RestartCures`.
7. **A restart hides buffered events from a returning stream**
   (`orders/order-events.service.ts:40`). `getEventsAfter` compares ids only, and a new
   process numbers from 1 (line 16). A client whose `EventSource` remembers an id of the
   process before is sent only what is numbered above it; the buffered events below are
   lost to it without a sign. README line 525 says that `Last-Event-ID` lets a client
   catch up on exactly the missed events of the buffer. `CatchesUpUntilRestart` proves
   that a restart is the only cause.

Two smaller remarks, without a run: README lines 922-925 describe the detection of a reuse
by `revoked_at`, the code goes by `used_at`; and `basic.return`, on which
`UnroutableMessageError` depends, cannot happen while the exchange has an alternate one.

## 5. Proofs

TLAPS checks these for every value of the constants, from the assumptions named in the
modules (`RelayAssumption`, `ConsumerAssumption`, `PipelineAssumption`,
`PlacementAssumption`, `RefreshAssumption`, `AccessAssumption`, `ServicesAssumption`):
bounds are naturals; batch, prefetch, limits, windows and lifetimes positive; requests
carry the arguments of their operation; a status is never "none"; the refresh lifetime is
at most the absolute one. Where something is counted or added up, what there is to count
is finite: events and relays, requests of `OrderPlacement`, bumps, workers and readers.
Every invariant and every action property of the passing runs is the statement of a
theorem. None is inductive alone; what has to be added is this.

- **Relay.** `TypeCorrect`, `AtLeastOnce`, `Disjoint`, `MarkIsFinal`: `IInv` adds how a
  pass is related to the table. Rows a relay still has to try, has sent or has seen fail
  are among the rows it has locked; a locked row is pending and locked once; a sent row
  has a copy at the broker; a running late publish belongs to a committed row; an idle or
  dead relay holds nothing. `MarkAndCommit` then marks only rows with a copy, and a
  publish adds a copy only of a locked, hence committed and unmarked, row.
  `DuplicatesArePaidFor`: the account of copies, attempts and passes is itself inductive
  once a row is known to be tried once in a pass (`PassInv`); late publishes are summed
  over the relays.
- **Consumer.** `ConsumerTypeCorrect`, `ExactlyOnceEffect`, `AckIsLast`,
  `SettledIsFinal`. `CInv` adds that at most one handler holds an uncommitted claim of an
  event and then the event is not in the inbox, that a handler past the commit has its
  event in the inbox and one past the enqueueing has its job, that a handler past the
  parse belongs to an accepted readable message, and that a message on a channel is
  "unacked" at the broker. The last is what makes a settled message final.
- **Pipeline.** `PipelineImplements`: `Spec => ImplementsOrderEffect`. The component
  invariants are carried over to the composition by instantiating the two proof modules;
  each relay step either commits one order or leaves the abstract state alone, and each
  consumer step either applies one committed order's effect for the first time or leaves
  it alone. `ChainLosesNothing` puts `AtLeastOnce` and `AckIsLast` together.
- **OrderPlacement.** `PlacementTypeCorrect` (with it: no stock and no balance falls
  below zero), `KeyStandsForOneOrder`, `ReplaysAgree`, `OrderAndEventTogether`. A request
  decides in one step and writes at COMMIT, so `PInv` says exactly which locks an open
  transaction holds (`KeyLocks`, `ProductLocks`, `UserLocks`, each an equivalence, hence
  mutual exclusion) and that what was found under them still holds (`FoundHolds`: the key
  without an order, enough stock, enough money). A COMMIT then writes rows nobody else has
  decided on. `KeysOfOrders` and `AnswersOfKeys` tie key rows, orders and answers together;
  `EventsOfOrders` ties drafts to open transactions and outbox rows to orders.
  `CheckoutConserves`: `Accounts` says product by product and user by user that what is
  left and what the paid orders took is what there was, and that an order is paid once.
- **RefreshTokens.** `RefreshTypeCorrect`, `FamilyIsChain`, `LimitIsAbsolute`,
  `RevocationIsFinal`. `RInv` says that what `SELECT ... FOR UPDATE` has found of a token
  (issued, unused, not revoked) holds while its row is locked (`RotationHolds`), that a
  revocation has locked every row it has updated (`MarkedLocked`, `OnlyRevokersMark`), so
  that it cannot revoke under a rotation, and that tokens are numbered without gaps
  (`RowsInOrder`, `KnownTokens`).
- **Access** (`Access_proofs`). `AccessTypeCorrect`; with the invariant carried over to
  `Services` by an instance of this module, `LogoutHolds` and `DemotionHolds`
  (`Services_proofs`). Two clocks meet: `exp` counts seconds, a denylist entry ends at a
  tick. `AInv` says that what was put out is over or denied until it is (`OutIsShut`,
  which needs the rounding up in `Ceiling`), and that a request past `isDenied` carries
  nothing that was out when it came (`AdmittedIsNotOut`).
- **Services.** Each theorem has an invariant over one service's variables, which the
  steps of the others leave alone (`OneService`).
  - Order events. `LastNewsIsCurrent`: whatever is still to be announced is the last
    committed update or one that was waiting when it committed, and so is the last news
    once the last update is not waiting any more (`EventsInv`); updates may overlap in any
    way. `StreamCarriesAll`: `StreamsInv` says that ids rise along the
    history and along each stream, that what a client has lies before what is on its way
    and up to the id it will reconnect with, and that nothing up to that id is neither
    seen, missed nor hidden. `CatchesUpUntilRestart`: before the first restart nothing is
    hidden, and what is missed has left the history (`CatchUpInv`).
  - Limiter. `WindowHolds` and `WaitingIsEnough`: `LimiterInv` compares, for every moment
    of the window, how many requests were let through after it with how many scores lie
    after it and how many went unchecked; the key outlives its scores; and the advice
    given to the last refused client leaves fewer scores than the limit.
  - `NoRevival`: a session in use has been issued (`SessionsInv`). `EachJobOnce`: a working
    worker holds a job that is still new and no other's (`WorkersInv`).
    `NoReceiptWithoutCause`: receipts, runs under way and the run that waits are covered by
    causes (`TasksInv`). `NoLostBump`: a bump about to commit holds the row and read the
    present balance, and each failed attempt stands for a newer version (`BumpsInv`).
  - Product cards. `StaleForAReason`: every loaded or stored card lacks escaped changes
    only (`CardsInv`). `LockIsOwned`. `EachLoadHasAReason`: the readers that are going to
    load, and a missing card nobody is replacing, are covered by unused excuses
    (`LoadsInv`).
  - `NoRowIsSkipped`: what a client has lies up to its cursor, and no row due to it up to
    the cursor is missing (`ListingInv`); `PageIsFirst` says what a page is.
  - `RestartIsEnough`: the file lags behind the role only when it is known to, and a
    process that started from the right file has the role's password (`RotationInv`).
  - `TokensOutliveRotation`: a kid and key that sign, or have signed a token still valid,
    are in the store as the current or the previous pair unless the key was given up, and
    every running instance which is not older than the key trusts them (`SignersFit`).
    That rests on what the files are at each point of the script, also when it was killed
    there (`FilesFit`), and on the end of tokens: a token ends no later than `ACCESS_TTL`
    after its key was last signed with (`TokensEnd`, seconds against ticks), so that a key
    out of use for that long has none left.
- **Data** (`DataTheorems`). Sums over a finite set do not depend on the order of adding
  and change by what is added or removed; the induction this needs is by a least
  counterexample. `Ascending` and `Selected` are defined without recursion
  (`Selection`), by the rank of an element, so that it can be proved what they keep, that
  they keep its order, and how many of a selection lie beyond a moment.

Proved and not run any more: the type invariants of the relay and of the consumers and
`BatchesDisjoint`, which are parts of the inductive invariants.

Only model-checked: the liveness properties (`EveryEventPublished`, `EveryOrderHandled`,
`EveryCopySettles`, `EveryRequestAnswered`, `EveryRequestEnds`, `EverySocketCloses`,
`EverySessionEnds`, `EveryReaderAnswered`, `PublisherRecovers`), since fairness and ENABLED
are out of the prover's reach; of the publisher there is therefore no theorem.

## 6. Not modelled

Configuration, migrations as such, seeding, reports, OpenAPI, backups and the demos have no
behaviour of their own or only drive the components from outside; `messaging/dlq.ts` reads
and prints, `messaging/publish-order-placed.ts` is called by nobody. Reading, changing and
deleting one product is a single statement. When the scheduler fires the clean-up is left
open: it may run at any time. In the modelled parts: bodies and hashes are model values
that are equal or not; a signature is a key that is known or not; the encoding of a cursor
is one-to-one and left out; logging is left out; `notBefore` and the lock modes of
`relayOnce` other than the default belong to the demos; a user deleted between rotation
and answer is not represented; PgBouncer is represented by what it accepts.

Left out on purpose, each a configuration or an input of its own:

- a consumer started with its queue disabled (`messaging/run-consumer.ts:10-14`): it
  acknowledges without a receipt job, so `AckedIsComplete` and `NothingLost` are about the
  configuration with Redis;
- a negative `limit` (`products/products.controller.ts:38`): with -1 `take` is
  zero and TypeORM asks for all rows, with less PostgreSQL refuses the query; `Listing` has
  limits from 0 on;
- the subscription a client leaves behind when it disconnects during `assertCanView`
  (`orders/orders.controller.ts:106-129`), before its close handler is installed: it writes
  to a closed response and no property depends on it;
- `gen-jwt-keys.mjs --force`, which is meant to void all tokens, and the two-stage rotation
  of README line 986, which operators do by hand with the same files;
- a file that is read while it is being written: the scripts' single writes are whole.

## 7. What could be added

1. Refinement, with proofs: `Retry` as an implementation of atomic additions,
   `PostProcessing` of a set of jobs that are done in some order, the readers of
   `ProductCard` of reads of a value with bounded staleness.
2. Safety of the publisher apart from its recovery: at most one channel in use, and no
   more connections left open than attempts that failed half-way.
3. The clean-up scheduler with its interval, and the restart of the worker around it.
