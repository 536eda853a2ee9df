------------------------------- MODULE Access --------------------------------
(***************************************************************************)
(* Who is let in: access tokens, the denylist in Redis, roles in the       *)
(* database, the guards of an HTTP request, and the sockets of the gateway *)
(* (auth/token.service.ts, auth/access-denylist.ts, auth/auth.guard.ts,    *)
(* auth/roles.guard.ts, orders/orders.gateway.ts).  The keys that sign the *)
(* tokens and their rotation are KeyRotation's: here a process that does   *)
(* not know the key is one that answers 401, which changes nothing.        *)
(*                                                                         *)
(* One user, whose role changes.  A request needs the admin role when its  *)
(* route says so or when it asks for an order of someone else; otherwise   *)
(* the token is enough.  The clock counts parts of a second, as Redis and  *)
(* timers do; a token's exp is in whole seconds.                           *)
(***************************************************************************)
EXTENDS AccessParameters, FiniteSets

Token == 1 .. MaxToken
NoToken == 0

VARIABLES now,
          exp,            \* exp[t]: the claim of t in seconds, 0: not signed
          denyJti,        \* denyJti[t]: when the entry deny:jti of t expires
          denyFam,        \* denyFam[f]: when the entry deny:fam of f expires
          admin,          \* the user's row says admin
          pc,             \* pc[c]: where the request of c stands
          tok, needs,     \* tok[c], needs[c]: its token, and whether it needs admin
          socket,         \* socket[c]: token of c's open socket, or NoToken
          room,           \* clients whose socket is in an order's room
          out,            \* tokens a logout or a reuse has put out (history)
          outBefore,      \* outBefore[c]: out when c's request arrived (history)
          wasAdmin        \* clients that had the role since then (history)

denylist == <<denyJti, denyFam>>
requests == <<pc, tok, needs>>
sockets == <<socket, room>>
history == <<out, outBefore, wasAdmin>>
vars == <<now, exp, denylist, admin, requests, sockets, history>>

-----------------------------------------------------------------------------
Second == now \div PerSecond
Ceiling(n) == (n + PerSecond - 1) \div PerSecond
Signed(t) == exp[t] # 0
Expired(t) == Second >= exp[t]

(* verifyAccess compares exp in seconds. *)
Verifies(t) == Signed(t) /\ ~Expired(t)

Denied(t) == now < denyJti[t] \/ now < denyFam[FamilyOf[t]]

Goto(c, l) == pc' = [pc EXCEPT ![c] = l]

(* The request of c is answered; what it knew is gone. *)
Answer(c) ==
  /\ Goto(c, "idle")
  /\ tok' = [tok EXCEPT ![c] = NoToken]
  /\ needs' = [needs EXCEPT ![c] = FALSE]
  /\ outBefore' = [outBefore EXCEPT ![c] = {}]
  /\ wasAdmin' = wasAdmin \ {c}

Continue(c, l) == Goto(c, l) /\ UNCHANGED <<tok, needs, outBefore, wasAdmin>>

Disconnect(c) ==
  /\ socket' = [socket EXCEPT ![c] = NoToken]
  /\ room' = room \ {c}

-----------------------------------------------------------------------------
(* signAccess, for a login or a refresh. *)
SignAccess ==
  /\ Second + AccessTtl <= MaxTime \div PerSecond
  /\ \E t \in Token :
       /\ \A u \in Token : Signed(u) <=> u < t
       /\ exp' = [exp EXCEPT ![t] = Second + AccessTtl]
  /\ UNCHANGED <<now, denylist, admin, requests, sockets, history>>

(* A request, a handshake, or a join of a room arrives.  A join uses the    *)
(* principal the handshake stored and looks at its exp again.               *)
Arrive(c, label, t, adminOnly) ==
  /\ pc[c] = "idle"
  /\ Goto(c, label)
  /\ tok' = [tok EXCEPT ![c] = t]
  /\ needs' = [needs EXCEPT ![c] = adminOnly]
  /\ outBefore' = [outBefore EXCEPT ![c] = out]
  /\ wasAdmin' = IF admin THEN wasAdmin \union {c} ELSE wasAdmin \ {c}
  /\ UNCHANGED <<now, exp, denylist, admin, sockets, out>>

Request(c) ==
  \E t \in Token, adminOnly \in BOOLEAN : Verifies(t) /\ Arrive(c, "http", t, adminOnly)

Handshake(c) ==
  /\ socket[c] = NoToken
  /\ \E t \in Token : Verifies(t) /\ Arrive(c, "handshake", t, FALSE)

Join(c) ==
  /\ socket[c] # NoToken
  /\ now < exp[socket[c]] * PerSecond
  /\ \E foreign \in BOOLEAN : Arrive(c, "join", socket[c], foreign)

(* isDenied.  A failing Redis refuses the request (503), as an entry does;  *)
(* a join with a denied token also loses its socket.                        *)
CheckDenylist(c) ==
  /\ pc[c] \in {"http", "handshake", "join"}
  /\ \/ Answer(c) /\ UNCHANGED sockets
     \/ /\ Denied(tok[c]) /\ pc[c] = "join"
        /\ Answer(c)
        /\ Disconnect(c)
     \/ /\ ~Denied(tok[c])
        /\ Continue(c, IF needs[c] THEN IF pc[c] = "http" THEN "http role" ELSE "join role"
                       ELSE CASE pc[c] = "http" -> "served"
                              [] pc[c] = "join" -> "joining"
                              [] OTHER -> "opening")
        /\ UNCHANGED sockets
  /\ UNCHANGED <<now, exp, denylist, admin, out>>

(* Mutant: the role claimed when the request came in. *)
ReadClaimedRole(c) ==
  /\ pc[c] \in {"http role", "join role"}
  /\ Continue(c, IF pc[c] = "http role" THEN "served" ELSE "joining")
  /\ UNCHANGED <<now, exp, denylist, admin, sockets, out>>

(* RolesGuard and assertCanView read the role in the database. *)
ReadRole(c) ==
  /\ pc[c] \in {"http role", "join role"}
  /\ IF admin THEN Continue(c, IF pc[c] = "http role" THEN "served" ELSE "joining")
              ELSE Answer(c)
  /\ UNCHANGED <<now, exp, denylist, admin, sockets, out>>

(* The handler runs, the socket opens, or it enters the room if it is open. *)
Finish(c) ==
  /\ pc[c] \in {"served", "opening", "joining"}
  /\ Answer(c)
  /\ socket' = IF pc[c] = "opening" THEN [socket EXCEPT ![c] = tok[c]] ELSE socket
  /\ room' = IF pc[c] = "joining" /\ socket[c] # NoToken THEN room \union {c} ELSE room
  /\ UNCHANGED <<now, exp, denylist, admin, out>>

(* Mutant: the connection is accepted without a timer. *)
NoTimer(c) == FALSE

(* The timer handleConnection set for exp, or a join that finds it passed.  *)
CloseExpired(c) ==
  /\ socket[c] # NoToken
  /\ now >= exp[socket[c]] * PerSecond
  /\ Disconnect(c)
  /\ UNCHANGED <<now, exp, denylist, admin, requests, history>>

Leave(c) ==
  /\ socket[c] # NoToken
  /\ Disconnect(c)
  /\ UNCHANGED <<now, exp, denylist, admin, requests, history>>

-----------------------------------------------------------------------------
(* Mutant: the rest of the token's life rounded down. *)
LogoutRoundedDown(c) ==
  /\ pc[c] = "served"
  /\ LET rest == (exp[tok[c]] * PerSecond - now) \div PerSecond IN
     denyJti' = [denyJti EXCEPT ![tok[c]] = IF rest > 0 THEN now + rest * PerSecond ELSE @]
  /\ out' = out \union {tok[c]}
  /\ Answer(c)
  /\ UNCHANGED <<now, exp, denyFam, admin, sockets>>

(* The handler is POST /auth/logout: revokeAccess, then 204.  When Redis    *)
(* fails the answer is 503 and nothing has been promised (Finish).          *)
Logout(c) ==
  /\ pc[c] = "served"
  /\ LET rest == Ceiling(exp[tok[c]] * PerSecond - now) IN
     denyJti' = [denyJti EXCEPT ![tok[c]] = IF rest > 0 THEN now + rest * PerSecond ELSE @]
  /\ out' = out \union {tok[c]}
  /\ Answer(c)
  /\ UNCHANGED <<now, exp, denyFam, admin, sockets>>

(* A refresh token was used twice: revokeFamily in Redis. *)
DenyFamily ==
  /\ \E f \in Family :
       /\ denyFam' = [denyFam EXCEPT ![f] = now + AccessTtl * PerSecond]
       /\ out' = out \union {t \in Token : Signed(t) /\ FamilyOf[t] = f}
  /\ UNCHANGED <<now, exp, denyJti, admin, requests, sockets, outBefore, wasAdmin>>

ChangeRole ==
  /\ admin' = ~admin
  /\ wasAdmin' = IF admin THEN wasAdmin ELSE {c \in Client : pc[c] # "idle"}
  /\ UNCHANGED <<now, exp, denylist, requests, sockets, out, outBefore>>

-----------------------------------------------------------------------------
(* A process restarts: the requests and the sockets of its clients are gone.*)
Restart(lost) ==
  /\ pc' = [c \in Client |-> IF c \in lost THEN "idle" ELSE pc[c]]
  /\ tok' = [c \in Client |-> IF c \in lost THEN NoToken ELSE tok[c]]
  /\ needs' = [c \in Client |-> needs[c] /\ c \notin lost]
  /\ outBefore' = [c \in Client |-> IF c \in lost THEN {} ELSE outBefore[c]]
  /\ wasAdmin' = wasAdmin \ lost
  /\ socket' = [c \in Client |-> IF c \in lost THEN NoToken ELSE socket[c]]
  /\ room' = room \ lost
  /\ UNCHANGED <<now, exp, denylist, admin, out>>

(* Redis drops an entry when its time has come. *)
Remaining(end) == IF end > now + 1 THEN end ELSE 0

Tick ==
  /\ now < MaxTime
  /\ now' = now + 1
  /\ denyJti' = [t \in Token |-> Remaining(denyJti[t])]
  /\ denyFam' = [f \in Family |-> Remaining(denyFam[f])]
  /\ UNCHANGED <<exp, admin, requests, sockets, history>>

-----------------------------------------------------------------------------
Init ==
  /\ now = 0
  /\ exp = [t \in Token |-> 0]
  /\ denyJti = [t \in Token |-> 0]
  /\ denyFam = [f \in Family |-> 0]
  /\ admin \in BOOLEAN
  /\ pc = [c \in Client |-> "idle"]
  /\ tok = [c \in Client |-> NoToken]
  /\ needs = [c \in Client |-> FALSE]
  /\ socket = [c \in Client |-> NoToken]
  /\ room = {}
  /\ out = {}
  /\ outBefore = [c \in Client |-> {}]
  /\ wasAdmin = {}

Next ==
  \/ SignAccess
  \/ \E c \in Client :
       \/ Request(c) \/ Handshake(c) \/ Join(c)
       \/ CheckDenylist(c) \/ ReadRole(c) \/ Finish(c) \/ Logout(c)
       \/ CloseExpired(c) \/ Leave(c)
  \/ DenyFamily \/ ChangeRole \/ Tick
  \/ \E lost \in SUBSET Client : Restart(lost)

Spec == Init /\ [][Next]_vars

-----------------------------------------------------------------------------
(* After the 204 of a logout its access token opens nothing: no request,    *)
(* handshake or join that arrives later gets through while the token's exp  *)
(* is still to come, although the denylist entry has a TTL of its own.      *)
LoggedOutIsRefused ==
  \A c \in Client :
    pc[c] \in {"served", "opening", "joining"} /\ tok[c] \in outBefore[c] => Expired(tok[c])

(* A role taken away counts at once: whoever gets through to an admin route *)
(* or into the room of a foreign order was admin after asking.              *)
DemotionIsImmediate ==
  \A c \in Client : pc[c] \in {"served", "joining"} /\ needs[c] => c \in wasAdmin

(* Sockets outlive the check at the handshake but not the token: whatever   *)
(* socket a client opens is closed again, and leaves its rooms.             *)
EverySocketCloses == \A c \in Client : []<>(socket[c] = NoToken)
=============================================================================
