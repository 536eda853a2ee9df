------------------------------ MODULE Services -------------------------------
(***************************************************************************)
(* Twelve services that share no state: the order events, the rate         *)
(* limiter, the session store, the receipt queue, the post-processing      *)
(* workers, the listings, the publisher's channel, the retried             *)
(* transactions, the product cards, the rotation of the database password, *)
(* that of the signing keys, and the access by tokens and roles.  None     *)
(* reads or writes a variable of another, so running them side by side     *)
(* adds no behaviour to any of them: a behaviour of this module is one of  *)
(* the service it has picked at the start, and every property is one of    *)
(* that service.                                                           *)
(***************************************************************************)
EXTENDS AccessParameters, FiniteSets

CONSTANTS HistoryLimit, MaxEvents, MaxDrops, MaxRestarts,
          Limit, Window, MaxClock, MaxOutages,
          Visitor, IdleTtl, AbsoluteTtl, MaxErrors,
          Worker, NoWorker, Attempts, MaxStalled, MaxAdds,
          Hand, JobCount,
          Mine, MaxRows, MaxLimit,
          Caller, MaxFaults,
          Bump, MaxAttempts, MaxBroken,
          Req, NoReq, MaxVersion, MaxCardFaults,
          Process, MaxRotations,
          Instance, Kid, NoKid, MaxKey, LastTick

(* What the modules assume beyond AccessAssumption, together. *)
ASSUME ServicesAssumption ==
  /\ {HistoryLimit, Limit, Window, IdleTtl, AbsoluteTtl, Attempts, MaxAttempts,
      MaxKey}
       \subseteq Nat \ {0}
  /\ {MaxEvents, MaxDrops, MaxRestarts, MaxClock, MaxOutages, MaxErrors,
      MaxStalled, MaxAdds, JobCount, MaxRows, MaxLimit, MaxFaults, MaxBroken,
      MaxVersion, MaxCardFaults, MaxRotations, LastTick}
       \subseteq Nat
  /\ Bump \subseteq Int /\ IsFiniteSet(Bump)
  /\ IsFiniteSet(Worker) /\ IsFiniteSet(Req)
  /\ NoWorker \notin Worker /\ NoReq \notin Req
  /\ Kid # {} /\ NoKid \notin Kid

VARIABLES picked,   \* the service this behaviour is about
          status, changes, updating, nextId, log, conn, asked, lastId, wire,
          drops, restarts, news, emitted, seen, missed, foreign, hidden, rivals,
          unsaid,
          clock, failOpen, zset, keyEnds, outages, granted, unchecked, advice,
          stored, age, left, visit, errors, issued, ended,
          job, owner, tries, stalls, at, adds, receipts, causes,
          todo, processed, claim, loop,
          rows, pending, nextRow, pageLimit, admin, reader, seesAll, cursor,
          got, due,
          phase, link, channel, current, pub, uses, returned, faults,
          balance, version, snapshot, read, holder, attempt, turn, broken,
          db, card, late, lock, pc, leading, loaded, unsent, cardFaults,
          escaped, excuses,
          role, file, userlist, script, pool, held, health, behind, early,
          now, private, public, kid, previousPublic, previousKid, newest, step,
          signs, trusts, signed, usedUntil, givenUp,
          time, exp, denyJti, denyFam, isAdmin, request, tok, needs, socket, room,
          out, outBefore, wasAdmin

E == INSTANCE OrderEvents
R == INSTANCE RateLimiter
S == INSTANCE Sessions
T == INSTANCE OrderTasks
P == INSTANCE PostProcessing
L == INSTANCE Listing
C == INSTANCE Publisher
B == INSTANCE Retry
K == INSTANCE ProductCard WITH got <- loaded, pending <- unsent,
                               faults <- cardFaults, MaxFaults <- MaxCardFaults
D == INSTANCE PasswordRotation
G == INSTANCE KeyRotation
A == INSTANCE Access WITH now <- time, admin <- isAdmin, pc <- request

events == <<status, changes, updating, nextId, log, conn, asked, lastId, wire,
            drops, restarts, news, emitted, seen, missed, foreign, hidden,
            rivals, unsaid>>
limiter == <<clock, failOpen, zset, keyEnds, outages, granted, unchecked, advice>>
sessions == <<stored, age, left, visit, errors, issued, ended>>
tasks == <<job, owner, tries, stalls, at, adds, receipts, causes>>
workers == <<todo, processed, claim, loop>>
listing == <<rows, pending, nextRow, pageLimit, admin, reader, seesAll, cursor,
             got, due>>
publisher == <<phase, link, channel, current, pub, uses, returned, faults>>
bumps == <<balance, version, snapshot, read, holder, attempt, turn, broken>>
cards == <<db, card, late, lock, pc, leading, loaded, unsent, cardFaults,
           escaped, excuses>>
rotation == <<role, file, userlist, script, pool, held, health, behind, early>>
keyring == <<now, private, public, kid, previousPublic, previousKid, newest,
             step, signs, trusts, signed, usedUntil, givenUp>>
access == <<time, exp, denyJti, denyFam, isAdmin, request, tok, needs, socket,
            room, out, outBefore, wasAdmin>>
vars == <<picked, events, limiter, sessions, tasks, workers, listing,
          publisher, bumps, cards, rotation, keyring, access>>

Service == {"events", "limiter", "sessions", "tasks", "workers", "listing",
            "publisher", "bumps", "cards", "rotation", "keys", "access"}

-----------------------------------------------------------------------------
Init ==
  /\ picked \in Service
  /\ E!Init /\ R!Init /\ S!Init /\ T!Init /\ P!Init /\ L!Init
  /\ C!Init /\ B!Init /\ K!Init /\ D!Init /\ G!Init /\ A!Init
  /\ picked # "limiter" => failOpen
  /\ picked # "listing" => admin /\ pageLimit = 0
  /\ picked # "access" => isAdmin

Next ==
  /\ UNCHANGED picked
  /\ \/ /\ picked = "events" /\ E!Next
        /\ UNCHANGED <<limiter, sessions, tasks, workers, listing,
                       publisher, bumps, cards, rotation, keyring, access>>
     \/ /\ picked = "limiter" /\ R!Next
        /\ UNCHANGED <<events, sessions, tasks, workers, listing,
                       publisher, bumps, cards, rotation, keyring, access>>
     \/ /\ picked = "sessions" /\ S!Next
        /\ UNCHANGED <<events, limiter, tasks, workers, listing,
                       publisher, bumps, cards, rotation, keyring, access>>
     \/ /\ picked = "tasks" /\ T!Next
        /\ UNCHANGED <<events, limiter, sessions, workers, listing,
                       publisher, bumps, cards, rotation, keyring, access>>
     \/ /\ picked = "workers" /\ P!Next
        /\ UNCHANGED <<events, limiter, sessions, tasks, listing,
                       publisher, bumps, cards, rotation, keyring, access>>
     \/ /\ picked = "listing" /\ L!Next
        /\ UNCHANGED <<events, limiter, sessions, tasks, workers,
                       publisher, bumps, cards, rotation, keyring, access>>
     \/ /\ picked = "publisher" /\ C!Next
        /\ UNCHANGED <<events, limiter, sessions, tasks, workers,
                       listing, bumps, cards, rotation, keyring, access>>
     \/ /\ picked = "bumps" /\ B!Next
        /\ UNCHANGED <<events, limiter, sessions, tasks, workers,
                       listing, publisher, cards, rotation, keyring, access>>
     \/ /\ picked = "cards" /\ K!Next
        /\ UNCHANGED <<events, limiter, sessions, tasks, workers,
                       listing, publisher, bumps, rotation, keyring, access>>
     \/ /\ picked = "rotation" /\ D!Next
        /\ UNCHANGED <<events, limiter, sessions, tasks, workers,
                       listing, publisher, bumps, cards, keyring, access>>
     \/ /\ picked = "keys" /\ G!Next
        /\ UNCHANGED <<events, limiter, sessions, tasks, workers, listing,
                       publisher, bumps, cards, rotation, access>>
     \/ /\ picked = "access" /\ A!Next
        /\ UNCHANGED <<events, limiter, sessions, tasks, workers, listing,
                       publisher, bumps, cards, rotation, keyring>>

Spec == Init /\ [][Next]_vars

(* The session store's and the cards', whose steps are disabled while there *)
(* is no session and no reader, and the publisher's: callers publish again  *)
(* and again and their calls proceed, and so do the attempts, each of which *)
(* has few steps to take; and that of access: time passes and timers fire.  *)
Fairness ==
  /\ S!Fairness
  /\ K!Fairness
  /\ \A p \in Caller : /\ WF_publisher(picked = "publisher" /\ C!GetChannel(p))
                       /\ WF_publisher(picked = "publisher" /\ C!Proceed(p))
  /\ WF_publisher(picked = "publisher" /\ C!AdvanceAny)
  /\ WF_access(picked = "access" /\ A!Tick)
  /\ \A c \in Client : WF_access(picked = "access" /\ A!CloseExpired(c))

FairSpec == Spec /\ Fairness

-----------------------------------------------------------------------------
(* Order events: across reconnections an open stream carries the events of  *)
(* its order exactly once and in order.                                     *)
StreamIsExact == E!StreamIsExact

(* Order events: what README.md:525 says of Last-Event-ID.                  *)
StreamCatchesUp == E!StreamCatchesUp

(* Order events: once the updates are through, the last announced status is *)
(* the one the order has or that of an update in flight with the last one.  *)
QuietMeansCurrent == E!QuietMeansCurrent

(* Rate limiter: no window, wherever it begins, lets more requests through  *)
(* than the limit, but for those that pass because Redis failed.            *)
SlidingLimit == R!SlidingLimit

(* Rate limiter: a client that waits as Retry-After tells it finds room.    *)
RetryAfterIsHonest == R!RetryAfterIsHonest

(* Sessions: no request in flight revives a session that has ended.         *)
EndedStaysEnded == S!EndedStaysEnded

(* Sessions: steady use does not keep a session for ever.                   *)
EverySessionEnds == S!EverySessionEnds

(* Receipt queue: no second receipt without a removed or a stalled job.     *)
ReceiptHasCause == T!ReceiptHasCause

(* Post-processing: each job once, and all of them before a worker stops.   *)
JobsDoneOnce == P!JobsDoneOnce

(* Listings: pages without a gap or a repetition while rows are inserted.   *)
ListingIsComplete == L!ListingIsComplete

(* Publisher: in whatever order connections close, earlier attempts reset   *)
(* the channel and new ones open it, publishing works again once the faults *)
(* are over; no dead channel is handed to every later publish.              *)
PublisherRecovers == []<>(picked = "publisher" => C!Published)

(* Retried transactions: no bump is lost or applied twice.                  *)
BumpsAddUp == B!BumpsAddUp

(* Product cards: a stale card has a cause.                                 *)
StaleHasCause == K!StaleHasCause

(* Product cards: nobody releases the lock of another.                      *)
ForeignLockSurvives == K!ForeignLockSurvives

(* Product cards: the database is asked once per reason to ask it.          *)
LoadsAccounted == K!LoadsAccounted

(* Product cards: no reader hangs.                                          *)
EveryReaderAnswered == K!EveryReaderAnswered

(* Password: a restart makes a process accepted again.                      *)
RestartCures == D!RestartCures

(* Signing keys: a token refused before its time is newer than the process  *)
(* that refuses it, or its key was taken out of the store too early.        *)
RefusalHasCause == G!RefusalHasCause

(* Access: after the 204 of a logout its token opens nothing.               *)
LoggedOutIsRefused == A!LoggedOutIsRefused

(* Access: a role taken away counts at once, whatever the token says.       *)
DemotionIsImmediate == A!DemotionIsImmediate

(* Access: a socket does not outlive the token it was opened with.          *)
EverySocketCloses == A!EverySocketCloses

(* Password: what README.md:98 says of a rotation without a restart.        *)
RotationNeedsNoRestart == D!RotationNeedsNoRestart
=============================================================================
