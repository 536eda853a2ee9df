----------------------------- MODULE OrderEvents ------------------------------
(***************************************************************************)
(* Status changes on their way to subscribers: OrdersService.updateStatus, *)
(* the bounded history of OrderEventsService, and the SSE stream of the    *)
(* orders controller with its replay by Last-Event-ID                      *)
(* (orders/order-events.service.ts, orders/orders.controller.ts).  The     *)
(* rooms of orders/orders.gateway.ts get the same events as they are       *)
(* emitted, and no replay.                                                 *)
(*                                                                         *)
(* Clients watch one order; updates of all the others share its history.   *)
(* The status an update sets is represented by the number of the update.   *)
(***************************************************************************)
EXTENDS Integers, Sequences, Selection

CONSTANTS Client,        \* SSE clients of the watched order
          HistoryLimit,  \* HISTORY_LIMIT
          MaxEvents,     \* bound: committed updates
          MaxDrops,      \* bound: connections lost
          MaxRestarts    \* bound: restarts of the process

VARIABLES status,    \* the last committed update of the watched order
          changes,   \* number of committed updates, of all orders
          updating,  \* updates of the watched order committed, not emitted
          nextId, log,          \* nextEventId; the history, <<id, update>>
          conn,      \* conn[c]: "closed", "opening" (assertCanView) or "open"
          asked,     \* asked[c]: the header Last-Event-ID of the connection
          lastId,    \* lastId[c]: what c's EventSource remembers
          wire,      \* wire[c]: events written to c's response, not received
          drops, restarts,
          news,      \* the update the last event of the watched order told of
          emitted,   \* ids of the watched order's events since start-up (history)
          seen,      \* seen[c]: those c has received (history)
          missed,    \* missed[c]: those that left the history first (history)
          foreign,   \* clients whose lastId is of an earlier process (history)
          hidden,    \* hidden[c]: those such a lastId hid from c (history)
          rivals,    \* updates not yet emitted when the last one committed (history)
          unsaid     \* updates that a restart left un-emitted (history)

server == <<nextId, log>>
database == <<status, changes>>
streams == <<conn, asked, wire>>
history == <<news, emitted, seen, missed, foreign, hidden, rivals, unsaid>>
vars == <<database, updating, server, streams, lastId, drops, restarts, history>>

NotWatched == 0

-----------------------------------------------------------------------------
(* Mutant: a failed UPDATE is announced as well. *)
UpdateMaybe ==
  /\ changes < MaxEvents
  /\ changes' = changes + 1
  /\ status' \in {changes', status}
  /\ updating' = updating \union {changes'}
  /\ rivals' = updating
  /\ UNCHANGED <<server, streams, lastId, drops, restarts,
                 news, emitted, seen, missed, foreign, hidden, unsaid>>

(* updateStatus: the UPDATE commits; it may also fail, or find no order,    *)
(* and then nothing has happened.                                           *)
Update ==
  /\ changes < MaxEvents
  /\ changes' = changes + 1
  /\ status' = changes'
  /\ updating' = updating \union {changes'}
  /\ rivals' = updating
  /\ UNCHANGED <<server, streams, lastId, drops, restarts,
                 news, emitted, seen, missed, foreign, hidden, unsaid>>

Remember(event) ==
  LET longer == Append(log, event) IN
  IF Len(longer) > HistoryLimit THEN Tail(longer) ELSE longer

(* emitStatusChanged: numbered, kept, and handed to all subscribers.        *)
Emit(u) ==
  /\ u \in updating
  /\ updating' = updating \ {u}
  /\ nextId' = nextId + 1
  /\ log' = Remember(<<nextId, u>>)
  /\ wire' = [c \in Client |->
                IF conn[c] = "open" THEN Append(wire[c], <<nextId, u>>) ELSE wire[c]]
  /\ emitted' = emitted \union {nextId}
  /\ news' = u
  /\ UNCHANGED <<database, conn, asked, lastId, drops, restarts,
                 seen, missed, foreign, hidden, rivals, unsaid>>

(* A status change of another order takes an id and a place in the history. *)
EmitForeign ==
  /\ changes < MaxEvents
  /\ changes' = changes + 1
  /\ nextId' = nextId + 1
  /\ log' = Remember(<<nextId, NotWatched>>)
  /\ UNCHANGED <<status, updating, streams, lastId, drops, restarts, history>>

-----------------------------------------------------------------------------
(* streamEvents: the request, with the id its EventSource remembers. *)
Connect(c) ==
  /\ conn[c] = "closed"
  /\ conn' = [conn EXCEPT ![c] = "opening"]
  /\ asked' = [asked EXCEPT ![c] = lastId[c]]
  /\ UNCHANGED <<database, updating, server, wire, lastId, drops, restarts, history>>

Replay(c) ==
  Selected(log, {k \in DOMAIN log : log[k][1] > asked[c] /\ log[k][2] # NotWatched})

(* What c has not got and the replay does not bring: events that left the   *)
(* history, and events in the history that an id of an earlier process      *)
(* hides, as the restarted process numbers from 1 again.                    *)
Serve(c, replay) ==
  /\ conn[c] = "opening"
  /\ conn' = [conn EXCEPT ![c] = "open"]
  /\ wire' = [wire EXCEPT ![c] = replay]
  /\ missed' = [missed EXCEPT ![c] =
       @ \union {i \in emitted \ seen[c] : \A k \in DOMAIN log : log[k][1] # i}]
  /\ hidden' = [hidden EXCEPT ![c] =
       IF c \in foreign THEN @ \union {i \in emitted \ seen[c] : i <= asked[c]} ELSE @]
  /\ UNCHANGED <<database, updating, server, asked, lastId, drops, restarts,
                 news, emitted, seen, foreign, rivals, unsaid>>

(* Mutant: the replay begins with the event the client has. *)
OpenInclusive(c) ==
  Serve(c, Selected(log, {k \in DOMAIN log : log[k][1] >= asked[c] /\ log[k][2] # NotWatched}))

(* The client may see the order: replay, then subscribe, with no await in   *)
(* between.                                                                 *)
Open(c) == Serve(c, Replay(c))

(* EventSource takes the next event and remembers its id. *)
Receive(c) ==
  /\ wire[c] # <<>>
  /\ lastId' = [lastId EXCEPT ![c] = Head(wire[c])[1]]
  /\ seen' = [seen EXCEPT ![c] = @ \union {Head(wire[c])[1]}]
  /\ wire' = [wire EXCEPT ![c] = Tail(@)]
  /\ foreign' = foreign \ {c}
  /\ UNCHANGED <<database, updating, server, conn, asked, drops, restarts,
                 news, emitted, missed, hidden, rivals, unsaid>>

(* The connection breaks; what was under way is lost, the close handler     *)
(* unsubscribes.                                                            *)
Drop(c) ==
  /\ conn[c] # "closed"
  /\ drops < MaxDrops
  /\ drops' = drops + 1
  /\ conn' = [conn EXCEPT ![c] = "closed"]
  /\ wire' = [wire EXCEPT ![c] = <<>>]
  /\ UNCHANGED <<database, updating, server, asked, lastId, restarts, history>>

(* The process restarts: history, ids and connections are gone, and an      *)
(* update that was committed is not announced any more.                     *)
Restart ==
  /\ restarts < MaxRestarts
  /\ restarts' = restarts + 1
  /\ nextId' = 1 /\ log' = <<>>
  /\ updating' = {}
  /\ unsaid' = unsaid \union updating
  /\ conn' = [c \in Client |-> "closed"]
  /\ wire' = [c \in Client |-> <<>>]
  /\ emitted' = {}
  /\ seen' = [c \in Client |-> {}]
  /\ missed' = [c \in Client |-> {}]
  /\ foreign' = {c \in Client : lastId[c] > 0}
  /\ hidden' = [c \in Client |-> {}]
  /\ UNCHANGED <<database, asked, lastId, drops, news, rivals>>

-----------------------------------------------------------------------------
Init ==
  /\ status = 0 /\ changes = 0 /\ updating = {}
  /\ nextId = 1 /\ log = <<>>
  /\ conn = [c \in Client |-> "closed"]
  /\ asked = [c \in Client |-> 0]
  /\ lastId = [c \in Client |-> 0]
  /\ wire = [c \in Client |-> <<>>]
  /\ drops = 0 /\ restarts = 0
  /\ news = 0 /\ emitted = {}
  /\ seen = [c \in Client |-> {}]
  /\ missed = [c \in Client |-> {}]
  /\ foreign = {}
  /\ hidden = [c \in Client |-> {}]
  /\ rivals = {} /\ unsaid = {}

Next ==
  \/ Update \/ EmitForeign \/ Restart
  \/ \E u \in updating : Emit(u)
  \/ \E c \in Client : Connect(c) \/ Open(c) \/ Receive(c) \/ Drop(c)

Spec == Init /\ [][Next]_vars

-----------------------------------------------------------------------------
Waiting(c) == {wire[c][k][1] : k \in DOMAIN wire[c]}

(* An open stream carries the events of its order exactly once and in       *)
(* order, across reconnections: nothing falls between replay and            *)
(* subscription, and nothing comes twice.  A client lacks only what had     *)
(* left the history before it came back, and what StreamCatchesUp is about. *)
StreamIsExact ==
  \A c \in Client : conn[c] = "open" =>
    /\ emitted \subseteq seen[c] \union Waiting(c) \union missed[c] \union hidden[c]
    /\ seen[c] \intersect Waiting(c) = {}
    /\ \A j, k \in DOMAIN wire[c] : j < k => wire[c][j][1] < wire[c][k][1]

(* What README.md:525 promises of Last-Event-ID: a client that is back has  *)
(* got, or is being sent, every event of its order the history holds.  Not  *)
(* so after a restart: the new process numbers its events from 1 and        *)
(* compares them with an id of the old one.                                 *)
StreamCatchesUp ==
  \A c \in Client : conn[c] = "open" =>
    \A k \in DOMAIN log :
      log[k][2] # NotWatched => log[k][1] \in seen[c] \union Waiting(c)

(* Where subscribers end, once every update is through: with the status the *)
(* order has, or, as UPDATE and emission are not one step, with an update   *)
(* that was still to be announced when the last one committed.  Only a      *)
(* process that dies in between leaves them with something older.           *)
QuietMeansCurrent ==
  updating = {} => news \in {status} \union rivals \/ status \in unsaid
=============================================================================
