---------------------------- MODULE Access_proofs -----------------------------
(***************************************************************************)
(* Proofs about Access, for any number of clients, tokens and families,    *)
(* any lifetime and any resolution of the clock.  Two clocks meet here: a  *)
(* token's exp counts seconds, a denylist entry ends at a tick.  The       *)
(* inductive invariant relates them: whatever a logout has put out is      *)
(* denied as long as it could be verified, and a request past the denylist *)
(* carries no such token.                                                  *)
(***************************************************************************)
EXTENDS Access, TLAPS

PcLabels == {"idle", "http", "handshake", "join", "http role", "join role",
             "served", "opening", "joining"}

(* Past isDenied. *)
Admitted == {"http role", "join role", "served", "opening", "joining"}

(* The type invariant: tokens are numbered, times are ticks.                *)
TypeOK ==
  /\ now \in Nat
  /\ exp \in [Token -> Nat]
  /\ denyJti \in [Token -> Nat] /\ denyFam \in [Family -> Nat]
  /\ admin \in BOOLEAN
  /\ pc \in [Client -> PcLabels]
  /\ tok \in [Client -> 0 .. MaxToken] /\ needs \in [Client -> BOOLEAN]
  /\ socket \in [Client -> 0 .. MaxToken] /\ room \subseteq Client
  /\ out \subseteq Token /\ outBefore \in [Client -> SUBSET Token]
  /\ wasAdmin \subseteq Client

(* The first tick at which t is no longer verified. *)
End(t) == exp[t] * PerSecond

(* No token outlives ACCESS_TTL_SEC, and only signed ones are put out,      *)
(* carried by a request or held by a socket.                                *)
KnownTokens ==
  /\ \A t \in Token : Signed(t) => End(t) <= now + AccessTtl * PerSecond
  /\ \A t \in out : Signed(t)
  /\ \A c \in Client : pc[c] # "idle" => tok[c] \in Token /\ Signed(tok[c])
  /\ \A c \in Client : socket[c] # NoToken => Signed(socket[c])

(* A token that was put out is over, or an entry denies it until it is. *)
OutIsShut ==
  \A t \in out : now >= End(t) \/ denyJti[t] >= End(t) \/ denyFam[FamilyOf[t]] >= End(t)

(* Requests that passed isDenied had no token that was out when they came. *)
AdmittedIsNotOut ==
  /\ \A c \in Client : outBefore[c] \subseteq out
  /\ \A c \in Client :
       pc[c] \in Admitted /\ tok[c] \in outBefore[c] => now >= End(tok[c])

(* What wasAdmin remembers, and what a request that needs the role read. *)
RoleWasRead ==
  /\ \A c \in Client : admin /\ pc[c] # "idle" => c \in wasAdmin
  /\ DemotionIsImmediate

AInv ==
  /\ TypeOK
  /\ KnownTokens
  /\ OutIsShut
  /\ AdmittedIsNotOut
  /\ RoleWasRead

-----------------------------------------------------------------------------
(* Whole seconds against ticks: the second e has begun when now reaches it. *)
LEMMA SecondsAndTicks ==
  ASSUME NEW n \in Int, NEW e \in Int, NEW p \in Nat \ {0}
  PROVE  /\ n \div p \in Int
         /\ (n \div p) * p <= n
         /\ n \div p >= e <=> n >= e * p
<1> DEFINE q == n \div p
<1>1. q \in Int /\ p \in Int /\ p > 0  OBVIOUS
<1>2. p * q <= n  OBVIOUS
<1>3. n < p * q + p  OBVIOUS
<1> HIDE DEF q
<1>4. ASSUME q >= e PROVE n >= e * p
  <2>1. PICK k \in Nat : q = e + k  BY <1>1, <1>4
  <2>2. p * q = p * e + p * k /\ p * k >= 0  BY <2>1
  <2> QED  BY <2>2, <1>1, <1>2
<1>5. ASSUME ~ (q >= e) PROVE n < e * p
  <2>1. PICK k \in Nat : e = q + 1 + k  BY <1>1, <1>5
  <2>2. e * p = p * q + p + p * k /\ p * k >= 0  BY <2>1, <1>1
  <2> QED  BY <2>2, <1>1, <1>3
<1> QED  BY <1>1, <1>2, <1>4, <1>5 DEF q

(* A TTL rounded up to whole seconds covers the rest it was made for. *)
LEMMA CeilingCovers ==
  ASSUME NEW n \in Int, PerSecond \in Nat \ {0}
  PROVE  /\ Ceiling(n) \in Int
         /\ Ceiling(n) * PerSecond >= n
         /\ Ceiling(n) <= 0 => n <= 0
<1> DEFINE e == Ceiling(n)
<1>1. e \in Int /\ e = (n + PerSecond - 1) \div PerSecond
  BY SecondsAndTicks DEF Ceiling
<1>2. ~ (e >= e + 1)  BY <1>1
<1>3. ~ (n + PerSecond - 1 >= (e + 1) * PerSecond)
  BY <1>1, <1>2, SecondsAndTicks
<1>4. (e + 1) * PerSecond = e * PerSecond + PerSecond  BY <1>1
<1>5. e * PerSecond >= n  BY <1>1, <1>3, <1>4
<1>6. e <= 0 => n <= 0
  <2>1. SUFFICES ASSUME e <= 0 PROVE n <= 0  OBVIOUS
  <2>2. (n + PerSecond - 1) \div PerSecond < 1  BY <1>1, <2>1
  <2>3. ~ (n + PerSecond - 1 >= 1 * PerSecond)  BY <2>2, SecondsAndTicks
  <2> QED  BY <2>3
<1> QED  BY <1>1, <1>5, <1>6 DEF e

(* A token is expired from the tick End(t) on. *)
LEMMA EndOfToken ==
  ASSUME TypeOK, NEW t \in Token
  PROVE  /\ End(t) \in Nat /\ AccessTtl * PerSecond \in Nat
         /\ Expired(t) <=> now >= End(t)
<1>1. exp[t] \in Nat /\ now \in Nat  BY DEF TypeOK
<1>2. now \div PerSecond >= exp[t] <=> now >= exp[t] * PerSecond
  <2>1. now \in Int /\ exp[t] \in Int /\ PerSecond \in Nat \ {0}
    BY <1>1, AccessAssumption
  <2> QED  BY ONLY <2>1, SecondsAndTicks
<1>3. exp[t] * PerSecond \in Nat /\ AccessTtl * PerSecond \in Nat
  BY <1>1, AccessAssumption
<1> QED  BY <1>2, <1>3 DEF Expired, Second, End

(* A request has a token from its arrival to its answer. *)
LEMMA AnswerKeeps ==
  ASSUME AInv, NEW c \in Client, Answer(c)
  PROVE  /\ pc' = [pc EXCEPT ![c] = "idle"] /\ pc' \in [Client -> PcLabels]
         /\ tok' \in [Client -> 0 .. MaxToken] /\ needs' \in [Client -> BOOLEAN]
         /\ outBefore' \in [Client -> SUBSET Token] /\ wasAdmin' \subseteq Client
         /\ \A d \in Client : pc'[d] # "idle" =>
              /\ d # c /\ pc'[d] = pc[d] /\ tok'[d] = tok[d] /\ needs'[d] = needs[d]
              /\ outBefore'[d] = outBefore[d] /\ (d \in wasAdmin => d \in wasAdmin')
         /\ \A d \in Client : outBefore'[d] \subseteq outBefore[d]
<1>1. NoToken \in 0 .. MaxToken  BY AccessAssumption DEF NoToken
<1>2. TypeOK  BY DEF AInv
<1> QED  BY <1>1, <1>2 DEF TypeOK, Answer, Goto, PcLabels

-----------------------------------------------------------------------------
(* At the start nothing is signed, denied or asked. *)
LEMMA AccessInit == Init => AInv
<1>1. SUFFICES ASSUME Init PROVE AInv  OBVIOUS
<1>2. TypeOK  BY <1>1, AccessAssumption DEF Init, TypeOK, PcLabels, Token, NoToken
<1>3. KnownTokens  BY <1>1 DEF Init, KnownTokens, Signed, Token
<1>4. OutIsShut /\ AdmittedIsNotOut /\ RoleWasRead
  BY <1>1 DEF Init, OutIsShut, AdmittedIsNotOut, RoleWasRead, DemotionIsImmediate, Admitted
<1> QED  BY <1>2, <1>3, <1>4 DEF AInv

(* A new token ends within its lifetime; it is nobody's yet. *)
LEMMA SignAccessKeeps == ASSUME AInv, SignAccess PROVE AInv'
<1> USE DEF AInv
<1>1. PICK t \in Token :
        /\ \A u \in Token : Signed(u) <=> u < t
        /\ exp' = [exp EXCEPT ![t] = Second + AccessTtl]
  BY DEF SignAccess
<1>2. UNCHANGED <<now, denylist, admin, requests, sockets, history>>
  BY DEF SignAccess
<1> USE <1>2 DEF denylist, requests, sockets, history
<1>3. ~ Signed(t)  BY <1>1 DEF Token
<1>4. Second \in Nat /\ Second * PerSecond <= now
  <2>1. Second \in Int /\ Second * PerSecond <= now
    BY SecondsAndTicks, AccessAssumption DEF TypeOK, Second
  <2>2. now >= 0 * PerSecond /\ now \in Int /\ 0 \in Int /\ PerSecond \in Nat \ {0}
    BY AccessAssumption DEF TypeOK
  <2>3. now \div PerSecond >= 0  BY ONLY <2>2, SecondsAndTicks
  <2> QED  BY <2>1, <2>3 DEF Second
<1>5. TypeOK'
  <2>1. Second + AccessTtl \in Nat  BY <1>4, AccessAssumption
  <2>2. exp' \in [Token -> Nat]  BY <1>1, <2>1 DEF TypeOK
  <2> QED  BY <1>1, <2>2 DEF TypeOK
<1>6. \A u \in Token : u # t => End(u)' = End(u) /\ exp'[u] = exp[u]
  BY <1>1 DEF TypeOK, End
<1>7. Signed(t)' /\ End(t)' <= now + AccessTtl * PerSecond
  <2>1. exp'[t] # 0  BY <1>1, <1>4, AccessAssumption DEF TypeOK
  <2>2. End(t)' = (Second + AccessTtl) * PerSecond  BY <1>1 DEF TypeOK, End
  <2>3. (Second + AccessTtl) * PerSecond = Second * PerSecond + AccessTtl * PerSecond
    BY <1>4, AccessAssumption
  <2>4. AccessTtl * PerSecond \in Nat /\ Second * PerSecond \in Int /\ now \in Nat
    BY <1>4, AccessAssumption DEF TypeOK
  <2> QED  BY <2>1, <2>2, <2>3, <2>4, <1>4 DEF Signed
<1>8. \A u \in Token : Signed(u) => u # t /\ Signed(u)' /\ End(u)' = End(u)
  BY <1>3, <1>6 DEF Signed
<1>9. KnownTokens'
  <2>1. \A u \in Token : Signed(u)' => u = t \/ Signed(u)  BY <1>6 DEF Signed
  <2> QED  BY <1>6, <1>7, <1>8, <2>1 DEF KnownTokens, TypeOK, NoToken, Token
<1>10. OutIsShut'  BY <1>8 DEF OutIsShut, KnownTokens, TypeOK
<1>11. AdmittedIsNotOut'
  BY <1>8 DEF AdmittedIsNotOut, KnownTokens, TypeOK, Admitted
<1>12. RoleWasRead'  BY DEF RoleWasRead, DemotionIsImmediate
<1> QED  BY <1>5, <1>9, <1>10, <1>11, <1>12

(* An arriving request has a signed token and remembers what is out now. *)
LEMMA ArriveKeeps ==
  ASSUME AInv, NEW c \in Client, NEW label \in {"http", "handshake", "join"},
         NEW t \in Token, NEW adminOnly \in BOOLEAN, Signed(t),
         Arrive(c, label, t, adminOnly)
  PROVE  AInv'
<1> USE DEF AInv
<1>1. /\ pc' = [pc EXCEPT ![c] = label]
      /\ tok' = [tok EXCEPT ![c] = t]
      /\ needs' = [needs EXCEPT ![c] = adminOnly]
      /\ outBefore' = [outBefore EXCEPT ![c] = out]
      /\ wasAdmin' = IF admin THEN wasAdmin \union {c} ELSE wasAdmin \ {c}
      /\ UNCHANGED <<now, exp, denyJti, denyFam, admin,
                     socket, room, out>>
  BY DEF Arrive, Goto, denylist, sockets
<1>2. TypeOK'
  <2>1. t \in 0 .. MaxToken  BY AccessAssumption DEF Token
  <2> QED  BY <1>1, <2>1 DEF TypeOK, PcLabels
<1>3. KnownTokens'  BY <1>1 DEF KnownTokens, TypeOK, Signed, End
<1>4. OutIsShut'  BY <1>1 DEF OutIsShut, End
<1>5. AdmittedIsNotOut'  BY <1>1 DEF AdmittedIsNotOut, TypeOK, Admitted, End
<1>6. RoleWasRead'  BY <1>1 DEF RoleWasRead, DemotionIsImmediate, TypeOK
<1> QED  BY <1>2, <1>3, <1>4, <1>5, <1>6

LEMMA ArrivalsKeep ==
  ASSUME AInv, NEW c \in Client, Request(c) \/ Handshake(c) \/ Join(c)
  PROVE  AInv'
<1>1. CASE Request(c)  BY <1>1, ArriveKeeps DEF Request, Verifies
<1>2. CASE Handshake(c)  BY <1>2, ArriveKeeps DEF Handshake, Verifies
<1>3. CASE Join(c)
  <2>1. socket[c] \in Token /\ Signed(socket[c])
    BY <1>3, AccessAssumption DEF Join, AInv, TypeOK, KnownTokens, Token, NoToken
  <2> QED  BY <1>3, <2>1, ArriveKeeps DEF Join
<1> QED  BY <1>1, <1>2, <1>3

-----------------------------------------------------------------------------
(* The steps of a request that only move it on, or answer it. *)
LEMMA AnswerKeepsInvariant ==
  ASSUME AInv, NEW c \in Client, Answer(c), TypeOK',
         UNCHANGED <<now, exp, denylist, admin, out>>,
         \A d \in Client : socket'[d] # NoToken => Signed(socket'[d])
  PROVE  AInv'
<1> USE DEF AInv
<1>1. UNCHANGED <<now, exp, denyJti, denyFam, admin, out>>
  BY DEF denylist
<1>2. /\ \A d \in Client : pc'[d] # "idle" =>
           /\ d # c /\ pc'[d] = pc[d] /\ tok'[d] = tok[d] /\ needs'[d] = needs[d]
           /\ outBefore'[d] = outBefore[d] /\ (d \in wasAdmin => d \in wasAdmin')
      /\ \A d \in Client : outBefore'[d] \subseteq outBefore[d]
  BY AnswerKeeps
<1>3. KnownTokens'  BY <1>1, <1>2 DEF KnownTokens, Signed, End
<1>4. OutIsShut'  BY <1>1 DEF OutIsShut, End
<1>5. AdmittedIsNotOut'
  <2>1. \A d \in Client : pc'[d] \in Admitted => pc'[d] # "idle"  BY DEF Admitted
  <2> QED  BY <1>1, <1>2, <2>1 DEF AdmittedIsNotOut, End
<1>6. RoleWasRead'  BY <1>1, <1>2 DEF RoleWasRead, DemotionIsImmediate
<1> QED  BY <1>3, <1>4, <1>5, <1>6

(* A request that goes on does so with a token that isDenied let pass, and  *)
(* reaches its handler only if it needs no role or has been seen with it.   *)
LEMMA ContinueKeeps ==
  ASSUME AInv, NEW c \in Client, NEW l \in Admitted, Continue(c, l),
         UNCHANGED <<now, exp, denylist, admin, sockets, out>>,
         pc[c] # "idle",
         tok[c] \in outBefore[c] => now >= End(tok[c]),
         l \in {"served", "joining"} /\ needs[c] => c \in wasAdmin
  PROVE  AInv'
<1> USE DEF AInv
<1>1. /\ UNCHANGED <<now, exp, denyJti, denyFam, admin, out>>
      /\ UNCHANGED <<tok, needs, outBefore, wasAdmin, socket, room>>
      /\ pc' = [pc EXCEPT ![c] = l]
  BY DEF denylist, sockets, Continue, Goto
<1>2. TypeOK'
  <2>1. l \in PcLabels  BY DEF Admitted, PcLabels
  <2> QED  BY <1>1, <2>1 DEF TypeOK
<1>3. KnownTokens'  BY <1>1 DEF KnownTokens, TypeOK, Signed, End
<1>4. OutIsShut'  BY <1>1 DEF OutIsShut, End
<1>5. AdmittedIsNotOut'  BY <1>1 DEF AdmittedIsNotOut, TypeOK, End
<1>6. RoleWasRead'  BY <1>1 DEF RoleWasRead, DemotionIsImmediate, TypeOK
<1> QED  BY <1>2, <1>3, <1>4, <1>5, <1>6

(* The types after an answer that leaves all but the sockets alone. *)
LEMMA AnswerType ==
  ASSUME AInv, NEW c \in Client, Answer(c),
         UNCHANGED <<now, exp, denylist, admin, out>>,
         socket' \in [Client -> 0 .. MaxToken], room' \subseteq Client
  PROVE  TypeOK'
<1>1. TypeOK  BY DEF AInv
<1> QED  BY <1>1, AnswerKeeps DEF TypeOK, denylist

(* A closed socket. *)
LEMMA DisconnectType ==
  ASSUME AInv, NEW c \in Client, Disconnect(c)
  PROVE  /\ socket' \in [Client -> 0 .. MaxToken] /\ room' \subseteq Client
         /\ \A d \in Client : socket'[d] # NoToken => Signed(socket'[d])
<1>1. NoToken \in 0 .. MaxToken  BY AccessAssumption DEF NoToken
<1> QED  BY <1>1 DEF Disconnect, AInv, TypeOK, KnownTokens

(* isDenied lets nothing pass that was out before the request came. *)
LEMMA NotDenied ==
  ASSUME AInv, NEW c \in Client, pc[c] # "idle", ~ Denied(tok[c])
  PROVE  tok[c] \in outBefore[c] => now >= End(tok[c])
<1>1. SUFFICES ASSUME tok[c] \in outBefore[c] PROVE now >= End(tok[c])
  OBVIOUS
<1>2. tok[c] \in Token /\ tok[c] \in out
  BY <1>1 DEF AInv, KnownTokens, AdmittedIsNotOut
<1>3. \/ now >= End(tok[c])
      \/ denyJti[tok[c]] >= End(tok[c])
      \/ denyFam[FamilyOf[tok[c]]] >= End(tok[c])
  BY <1>2 DEF AInv, OutIsShut
<1>4. /\ End(tok[c]) \in Nat /\ now \in Nat /\ denyJti[tok[c]] \in Nat
      /\ denyFam[FamilyOf[tok[c]]] \in Nat
  BY <1>2, EndOfToken, AccessAssumption DEF AInv, TypeOK, Token
<1> QED  BY <1>3, <1>4 DEF Denied

LEMMA CheckDenylistKeeps == ASSUME AInv, NEW c \in Client, CheckDenylist(c) PROVE AInv'
<1>1. /\ UNCHANGED <<now, exp, denylist, admin, out>>
      /\ pc[c] \in {"http", "handshake", "join"}
  BY DEF CheckDenylist
<1>2. CASE Answer(c) /\ UNCHANGED sockets
  <2>1. /\ socket' \in [Client -> 0 .. MaxToken] /\ room' \subseteq Client
        /\ \A d \in Client : socket'[d] # NoToken => Signed(socket'[d])
    BY <1>2 DEF sockets, AInv, TypeOK, KnownTokens
  <2> QED  BY <1>1, <1>2, <2>1, AnswerType, AnswerKeepsInvariant
<1>3. CASE Answer(c) /\ Disconnect(c)
  BY <1>1, <1>3, DisconnectType, AnswerType, AnswerKeepsInvariant
<1>4. CASE ~ Denied(tok[c]) /\ UNCHANGED sockets
           /\ Continue(c, IF needs[c] THEN IF pc[c] = "http" THEN "http role" ELSE "join role"
                          ELSE CASE pc[c] = "http" -> "served"
                                 [] pc[c] = "join" -> "joining"
                                 [] OTHER -> "opening")
  <2>1. PICK l \in Admitted : Continue(c, l) /\ (needs[c] => l \in {"http role", "join role"})
    BY <1>4 DEF Admitted
  <2>2. tok[c] \in outBefore[c] => now >= End(tok[c])  BY <1>1, <1>4, NotDenied
  <2> QED  BY <1>1, <1>4, <2>1, <2>2, ContinueKeeps
<1> QED  BY <1>2, <1>3, <1>4 DEF CheckDenylist

LEMMA ReadRoleKeeps == ASSUME AInv, NEW c \in Client, ReadRole(c) PROVE AInv'
<1>1. /\ UNCHANGED <<now, exp, denylist, admin, sockets, out>>
      /\ pc[c] \in {"http role", "join role"}
  BY DEF ReadRole
<1>2. CASE admin
  <2>1. PICK l \in Admitted : Continue(c, l)  BY <1>2 DEF ReadRole, Admitted
  <2>2. tok[c] \in outBefore[c] => now >= End(tok[c])
    BY <1>1 DEF AInv, AdmittedIsNotOut, Admitted
  <2>3. c \in wasAdmin  BY <1>1, <1>2 DEF AInv, RoleWasRead
  <2> QED  BY <1>1, <2>1, <2>2, <2>3, ContinueKeeps
<1>3. CASE ~ admin
  <2>1. Answer(c)  BY <1>3 DEF ReadRole
  <2>2. /\ socket' \in [Client -> 0 .. MaxToken] /\ room' \subseteq Client
        /\ \A d \in Client : socket'[d] # NoToken => Signed(socket'[d])
    BY <1>1 DEF sockets, AInv, TypeOK, KnownTokens
  <2> QED  BY <1>1, <2>1, <2>2, AnswerType, AnswerKeepsInvariant
<1> QED  BY <1>2, <1>3

(* Finish opens a socket with the token of the handshake, which is signed. *)
LEMMA FinishKeeps == ASSUME AInv, NEW c \in Client, Finish(c) PROVE AInv'
<1>1. /\ UNCHANGED <<now, exp, denylist, admin, out>> /\ Answer(c)
      /\ pc[c] # "idle"
      /\ socket' = IF pc[c] = "opening" THEN [socket EXCEPT ![c] = tok[c]] ELSE socket
      /\ room' = IF pc[c] = "joining" /\ socket[c] # NoToken THEN room \union {c} ELSE room
  BY DEF Finish
<1>2. tok[c] \in 0 .. MaxToken /\ Signed(tok[c])  BY <1>1 DEF AInv, TypeOK, KnownTokens
<1>3. /\ socket' \in [Client -> 0 .. MaxToken] /\ room' \subseteq Client
      /\ \A d \in Client : socket'[d] # NoToken => Signed(socket'[d])
  BY <1>1, <1>2 DEF AInv, TypeOK, KnownTokens
<1> QED  BY <1>1, <1>3, AnswerType, AnswerKeepsInvariant

(* A socket that goes takes nothing with it that the invariant is about. *)
LEMMA ClosingKeeps ==
  ASSUME AInv, NEW c \in Client, Disconnect(c),
         UNCHANGED <<now, exp, denylist, admin, requests, history>>
  PROVE  AInv'
<1>1. UNCHANGED <<now, exp, denyJti, denyFam, admin, pc, tok,
                  needs, out, outBefore, wasAdmin>>
  BY DEF denylist, requests, history
<1>2. /\ socket' \in [Client -> 0 .. MaxToken] /\ room' \subseteq Client
      /\ \A d \in Client : socket'[d] # NoToken => Signed(socket'[d])
  BY DisconnectType
<1>3. TypeOK'  BY <1>1, <1>2 DEF AInv, TypeOK
<1>4. KnownTokens'  BY <1>1, <1>2 DEF AInv, KnownTokens, Signed, End
<1>5. OutIsShut'  BY <1>1 DEF AInv, OutIsShut, End
<1>6. AdmittedIsNotOut'  BY <1>1 DEF AInv, AdmittedIsNotOut, End
<1>7. RoleWasRead'  BY <1>1 DEF AInv, RoleWasRead, DemotionIsImmediate
<1> QED  BY <1>3, <1>4, <1>5, <1>6, <1>7 DEF AInv

-----------------------------------------------------------------------------
(* The entry a logout writes lasts until the token's exp. *)
LEMMA LogoutKeeps == ASSUME AInv, NEW c \in Client, Logout(c) PROVE AInv'
<1> USE DEF AInv
<1> DEFINE t == tok[c]
           rest == Ceiling(exp[t] * PerSecond - now)
           entry == IF rest > 0 THEN now + rest * PerSecond ELSE denyJti[t]
<1>1. /\ UNCHANGED <<now, exp, denyFam, admin, sockets>> /\ Answer(c)
      /\ pc[c] # "idle"
      /\ denyJti' = [denyJti EXCEPT ![t] = entry]
      /\ out' = out \union {t}
  BY DEF Logout
<1>2. t \in Token /\ Signed(t)  BY <1>1 DEF KnownTokens
<1>3. /\ entry \in Nat
      /\ now >= End(t) \/ entry >= End(t)
  <2>1. now \in Nat /\ exp[t] \in Nat /\ PerSecond \in Nat \ {0} /\ denyJti[t] \in Nat
    BY <1>2, AccessAssumption DEF TypeOK
  <2>2. End(t) \in Nat  BY <1>2, EndOfToken
  <2>3. rest \in Int /\ rest * PerSecond >= End(t) - now /\ (rest <= 0 => End(t) - now <= 0)
    BY <2>1, <2>2, CeilingCovers DEF End
  <2> HIDE DEF rest, t
  <2>4. rest > 0 => rest * PerSecond \in Nat  BY <2>1, <2>3
  <2> QED  BY <2>1, <2>2, <2>3, <2>4
<1> HIDE DEF entry, t
<1>4. UNCHANGED <<now, exp, denyFam, admin, socket, room>>
  BY <1>1 DEF sockets
<1>5. /\ \A d \in Client : pc'[d] # "idle" =>
           /\ d # c /\ pc'[d] = pc[d] /\ tok'[d] = tok[d] /\ needs'[d] = needs[d]
           /\ outBefore'[d] = outBefore[d] /\ (d \in wasAdmin => d \in wasAdmin')
      /\ \A d \in Client : outBefore'[d] \subseteq outBefore[d]
  BY <1>1, AnswerKeeps
<1>6. TypeOK'
  <2>1. denyJti' \in [Token -> Nat] /\ out' \subseteq Token  BY <1>1, <1>2, <1>3 DEF TypeOK
  <2> QED  BY <1>1, <1>4, <2>1, AnswerKeeps DEF TypeOK
<1>7. KnownTokens'  BY <1>1, <1>2, <1>4, <1>5 DEF KnownTokens, Signed, End
<1>8. OutIsShut'
  <2>1. SUFFICES ASSUME NEW u \in out'
                 PROVE  (now >= End(u) \/ denyJti[u] >= End(u)
                           \/ denyFam[FamilyOf[u]] >= End(u))'
    BY DEF OutIsShut
  <2>2. CASE u = t  BY <2>2, <1>1, <1>2, <1>3, <1>4 DEF TypeOK, End
  <2>3. CASE u # t  BY <2>3, <1>1, <1>4 DEF OutIsShut, TypeOK, End
  <2> QED  BY <2>2, <2>3
<1>9. AdmittedIsNotOut'
  <2>1. \A d \in Client : pc'[d] \in Admitted => pc'[d] # "idle"  BY DEF Admitted
  <2> QED  BY <1>1, <1>4, <1>5, <2>1 DEF AdmittedIsNotOut, End
<1>10. RoleWasRead'  BY <1>4, <1>5 DEF RoleWasRead, DemotionIsImmediate
<1> QED  BY <1>6, <1>7, <1>8, <1>9, <1>10

(* The entry of a family lasts as long as any of its tokens can. *)
LEMMA DenyFamilyKeeps == ASSUME AInv, DenyFamily PROVE AInv'
<1> USE DEF AInv
<1>1. PICK f \in Family :
        /\ denyFam' = [denyFam EXCEPT ![f] = now + AccessTtl * PerSecond]
        /\ out' = out \union {t \in Token : Signed(t) /\ FamilyOf[t] = f}
  BY DEF DenyFamily
<1>2. UNCHANGED <<now, exp, denyJti, admin, pc, tok, needs,
                  socket, room, outBefore, wasAdmin>>
  BY DEF DenyFamily, requests, sockets
<1>3. now + AccessTtl * PerSecond \in Nat
  <2>1. AccessTtl * PerSecond \in Nat /\ now \in Nat  BY AccessAssumption DEF TypeOK
  <2> QED  BY <2>1
<1>4. TypeOK'  BY <1>1, <1>2, <1>3 DEF TypeOK
<1>5. KnownTokens'  BY <1>1, <1>2 DEF KnownTokens, Signed, End
<1>6. OutIsShut'
  <2>1. SUFFICES ASSUME NEW u \in out'
                 PROVE  now >= End(u) \/ denyJti[u] >= End(u) \/ denyFam'[FamilyOf[u]] >= End(u)
    BY <1>2 DEF OutIsShut, End
  <2>2. u \in Token /\ Signed(u) /\ FamilyOf[u] \in Family
    BY <1>1, AccessAssumption DEF KnownTokens, TypeOK, Token
  <2>3. CASE FamilyOf[u] = f
    BY <2>2, <2>3, <1>1 DEF KnownTokens, TypeOK
  <2>4. CASE FamilyOf[u] # f
    BY <2>2, <2>4, <1>1 DEF OutIsShut, TypeOK
  <2> QED  BY <2>3, <2>4
<1>7. AdmittedIsNotOut'  BY <1>1, <1>2 DEF AdmittedIsNotOut, End
<1>8. RoleWasRead'  BY <1>2 DEF RoleWasRead, DemotionIsImmediate
<1> QED  BY <1>4, <1>5, <1>6, <1>7, <1>8

(* A promotion is seen by every request that is under way. *)
LEMMA ChangeRoleKeeps == ASSUME AInv, ChangeRole PROVE AInv'
<1> USE DEF AInv
<1>1. UNCHANGED <<now, exp, denyJti, denyFam, pc, tok, needs,
                  socket, room, out, outBefore>>
  BY DEF ChangeRole, denylist, requests, sockets
<1>2. /\ admin' = ~ admin
      /\ wasAdmin' = IF admin THEN wasAdmin ELSE {c \in Client : pc[c] # "idle"}
  BY DEF ChangeRole
<1>3. TypeOK'  BY <1>1, <1>2 DEF TypeOK
<1>4. KnownTokens'  BY <1>1 DEF KnownTokens, Signed, End
<1>5. OutIsShut' /\ AdmittedIsNotOut'  BY <1>1 DEF OutIsShut, AdmittedIsNotOut, End
<1>6. RoleWasRead'
  <2>1. \A c \in Client : admin' /\ pc'[c] # "idle" => c \in wasAdmin'
    BY <1>1, <1>2
  <2>2. DemotionIsImmediate'
    <3>1. CASE admin  BY <3>1, <1>1, <1>2 DEF RoleWasRead, DemotionIsImmediate
    <3>2. CASE ~ admin  BY <3>2, <1>1, <1>2 DEF DemotionIsImmediate
    <3> QED  BY <3>1, <3>2
  <2> QED  BY <2>1, <2>2 DEF RoleWasRead
<1> QED  BY <1>3, <1>4, <1>5, <1>6

-----------------------------------------------------------------------------
(* A restart forgets requests and sockets, and what was put out stays out.  *)
LEMMA RestartKeeps == ASSUME AInv, NEW lost \in SUBSET Client, Restart(lost) PROVE AInv'
<1> USE DEF AInv
<1>1. /\ pc' = [c \in Client |-> IF c \in lost THEN "idle" ELSE pc[c]]
      /\ tok' = [c \in Client |-> IF c \in lost THEN NoToken ELSE tok[c]]
      /\ needs' = [c \in Client |-> needs[c] /\ c \notin lost]
      /\ outBefore' = [c \in Client |-> IF c \in lost THEN {} ELSE outBefore[c]]
      /\ wasAdmin' = wasAdmin \ lost
      /\ socket' = [c \in Client |-> IF c \in lost THEN NoToken ELSE socket[c]]
      /\ room' = room \ lost
      /\ UNCHANGED <<now, exp, denyJti, denyFam, admin, out>>
  BY DEF Restart, denylist
<1>2. TypeOK'
  <2>1. NoToken \in 0 .. MaxToken  BY AccessAssumption DEF NoToken
  <2>2. needs' \in [Client -> BOOLEAN]  BY <1>1
  <2> QED  BY <1>1, <2>1, <2>2 DEF TypeOK, PcLabels
<1>3. KnownTokens'  BY <1>1 DEF KnownTokens, Signed, End
<1>4. OutIsShut'  BY <1>1 DEF OutIsShut, End
<1>5. AdmittedIsNotOut'  BY <1>1 DEF AdmittedIsNotOut, Admitted, End
<1>6. RoleWasRead'  BY <1>1 DEF RoleWasRead, DemotionIsImmediate
<1> QED  BY <1>2, <1>3, <1>4, <1>5, <1>6

(* Redis drops an entry no earlier than the token it denies ends. *)
LEMMA TickKeeps == ASSUME AInv, Tick PROVE AInv'
<1> USE DEF AInv
<1>1. UNCHANGED <<exp, admin, pc, tok, needs, socket, room, out,
                  outBefore, wasAdmin>>
  BY DEF Tick, requests, sockets, history
<1>2. /\ now' = now + 1
      /\ denyJti' = [t \in Token |-> Remaining(denyJti[t])]
      /\ denyFam' = [f \in Family |-> Remaining(denyFam[f])]
  BY DEF Tick
<1>3. TypeOK'  BY <1>1, <1>2 DEF TypeOK, Remaining
<1>4. \A t \in Token : End(t)' = End(t) /\ End(t) \in Nat /\ AccessTtl * PerSecond \in Nat
  BY <1>1, EndOfToken DEF End
<1>5. KnownTokens'  BY <1>1, <1>2, <1>4 DEF KnownTokens, Signed, TypeOK
<1>6. OutIsShut'
  <2>1. SUFFICES ASSUME NEW u \in out
                 PROVE  now' >= End(u) \/ denyJti'[u] >= End(u) \/ denyFam'[FamilyOf[u]] >= End(u)
    BY <1>1, <1>4 DEF OutIsShut, TypeOK
  <2>2. /\ u \in Token /\ FamilyOf[u] \in Family /\ End(u) \in Nat
        /\ denyJti[u] \in Nat /\ denyFam[FamilyOf[u]] \in Nat /\ now \in Nat
    BY <1>4, AccessAssumption DEF TypeOK, Token
  <2> QED  BY <2>2, <1>2 DEF OutIsShut, Remaining
<1>7. AdmittedIsNotOut'
  <2>1. \A c \in Client : pc[c] \in Admitted => tok[c] \in Token
    BY DEF KnownTokens, Admitted
  <2> QED  BY <1>1, <1>2, <1>4, <2>1 DEF AdmittedIsNotOut, TypeOK
<1>8. RoleWasRead'  BY <1>1 DEF RoleWasRead, DemotionIsImmediate
<1> QED  BY <1>3, <1>5, <1>6, <1>7, <1>8

(* Nothing happens. *)
LEMMA AccessStutters == ASSUME AInv, UNCHANGED vars PROVE AInv'
  BY DEF AInv, TypeOK, KnownTokens, OutIsShut, AdmittedIsNotOut, RoleWasRead,
     DemotionIsImmediate, Signed, End, vars, denylist, requests, sockets, history

-----------------------------------------------------------------------------
LEMMA AccessStep == AInv /\ [Next]_vars => AInv'
<1>1. SUFFICES ASSUME AInv, [Next]_vars PROVE AInv'  OBVIOUS
<1>2. CASE SignAccess  BY <1>1, <1>2, SignAccessKeeps
<1>3. ASSUME NEW c \in Client,
             \/ Request(c) \/ Handshake(c) \/ Join(c)
             \/ CheckDenylist(c) \/ ReadRole(c) \/ Finish(c) \/ Logout(c)
             \/ CloseExpired(c) \/ Leave(c)
      PROVE  AInv'
  <2>1. CASE Request(c) \/ Handshake(c) \/ Join(c)  BY <1>1, <2>1, ArrivalsKeep
  <2>2. CASE CheckDenylist(c)  BY <1>1, <2>2, CheckDenylistKeeps
  <2>3. CASE ReadRole(c)  BY <1>1, <2>3, ReadRoleKeeps
  <2>4. CASE Finish(c)  BY <1>1, <2>4, FinishKeeps
  <2>5. CASE Logout(c)  BY <1>1, <2>5, LogoutKeeps
  <2>6. CASE CloseExpired(c) \/ Leave(c)
    BY <1>1, <2>6, ClosingKeeps DEF CloseExpired, Leave
  <2> QED  BY <1>3, <2>1, <2>2, <2>3, <2>4, <2>5, <2>6
<1>4. CASE DenyFamily  BY <1>1, <1>4, DenyFamilyKeeps
<1>5. CASE ChangeRole  BY <1>1, <1>5, ChangeRoleKeeps
<1>6. ASSUME NEW lost \in SUBSET Client, Restart(lost) PROVE AInv'
  BY <1>1, <1>6, RestartKeeps
<1>7. CASE Tick  BY <1>1, <1>7, TickKeeps
<1>8. CASE UNCHANGED vars  BY <1>1, <1>8, AccessStutters
<1> QED  BY <1>1, <1>2, <1>3, <1>4, <1>5, <1>6, <1>7, <1>8 DEF Next

THEOREM AccessInvariant == Spec => []AInv
<1>1. Init => AInv  BY AccessInit
<1>2. AInv /\ [Next]_vars => AInv'  BY AccessStep
<1> QED  BY <1>1, <1>2, PTL DEF Spec

(* The numbers of the tokens, the times and the labels stay in range. *)
THEOREM AccessTypeCorrect == Spec => []TypeOK
<1>1. AInv => TypeOK  BY DEF AInv
<1> QED  BY <1>1, AccessInvariant, PTL

(* What the guards promise follows from the invariant. *)
LEMMA AccessPromises == AInv => LoggedOutIsRefused /\ DemotionIsImmediate
<1>1. AInv => LoggedOutIsRefused
  <2>1. SUFFICES ASSUME AInv, NEW c \in Client, pc[c] \in {"served", "opening", "joining"},
                        tok[c] \in outBefore[c]
                 PROVE  Expired(tok[c])
    BY DEF LoggedOutIsRefused
  <2>2. tok[c] \in Token /\ now >= End(tok[c])
    BY <2>1 DEF AInv, KnownTokens, AdmittedIsNotOut, Admitted
  <2> QED  BY <2>1, <2>2, EndOfToken DEF AInv
<1>2. AInv => DemotionIsImmediate  BY DEF AInv, RoleWasRead
<1> QED  BY <1>1, <1>2
=============================================================================
